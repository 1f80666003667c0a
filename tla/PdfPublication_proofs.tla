------------------------- MODULE PdfPublication_proofs -------------------------
(***************************************************************************)
(* What the asset Worker, the Edge function and the database guarantee       *)
(* together, for any number of publications, requests and cleanup passes.    *)
(***************************************************************************)
EXTENDS PdfPublication, PublicationRecords_proofs

-----------------------------------------------------------------------------
(* The inductive invariant.                                                  *)

Slots == Requests \cup Cleaners

\* The states in which the database has recorded the bytes.
Recorded == {"uploaded", "committed", "active"}

\* What is true of every row, whichever RPCs were called.
RowSound(r) ==
  /\ r.cleanupGeneration <= r.generation
  /\ r.operation <= MaxOperations
  /\ r.state \in Terminal \/ r.attempt \in {0, r.generation}
  /\ r.state \in Recorded => r.attempt = r.generation
  /\ r.state = "none" => r.generation = 0 /\ r.cleanup = "none"

Closed(p) == ledger[p].status = "cleanup_complete"

\* The ledgers a cleanup pass leaves behind once it has fenced the Worker off.
Fenced == {"cleanup_pending", "rolled_back"}

Ticketed == {"commit", "activate", "rollback"}

\* An invocation that has passed its fence and is about to list p.
Adds(q, p) ==
  /\ q.publication = p /\ q.kind \in {"commit", "activate"}
  /\ q.pc = "put" /\ q.manifestFresh

\* A cleanup pass that has removed p and still holds the ledger it fenced.
PastRemoval(q, p) ==
  /\ q.publication = p /\ q.kind = "cleanup" /\ q.pc \in {"tombstone", "close"}
  /\ q.seen.status # "cleanup_complete" /\ q.ledgerFresh

\* p is not listed and nobody is about to list it.
Unlisted(p) ==
  /\ manifest.documents[p] = "absent"
  /\ \A s \in Slots : ~Adds(request[s], p)

\* What an invocation knows because of where it is: q of the row r, the ledger
\* l and the object o of its publication, and of the manifest version v.
Addressed(q, r, v) ==
  /\ q.publication \in Publications
  /\ q.generation <= r.generation
  /\ q.version <= v
  /\ q.kind = "upload" => q.generation >= 1
  /\ q.kind \in {"commit", "activate"} => q.operation >= 1
  /\ q.kind = "cleanup" => r.state \in Terminal

Uploading(q, l, o) ==
  /\ q.ledgerFresh => l.status # "cleanup_complete"
  /\ q.ledgerFresh /\ q.pc \in {"claim", "open"} =>
       /\ q.seen = l /\ l.generation < q.generation
       /\ l.status \in {"absent", "receiving"}
  /\ q.ledgerFresh /\ q.pc \in {"recover", "body", "stored"} =>
       l.generation = q.generation
  /\ q.ledgerFresh /\ q.pc = "recover" => l.status = "receiving"
  /\ q.pc = "record" => o # "absent" /\ q.generation <= l.generation

Changing(q, l, o) ==
  /\ q.ledgerFresh => l.status # "cleanup_complete"
  /\ q.ledgerFresh /\ q.kind = "activate" /\ q.pc \in {"manifest", "prepare"} =>
       q.seen = l /\ l.status \in Activatable
  /\ q.kind # "rollback" /\ q.pc # "load" => o # "absent"
  /\ q.kind = "commit" /\ q.pc \in {"recover", "ledger", "done"} => q.version >= 1
  /\ q.kind = "activate" /\ q.pc \notin {"load", "manifest"} => q.version >= 1

Cleaning(q, l, o) ==
  /\ q.ledgerFresh /\ q.pc = "quiesce" => l.status # "cleanup_complete"
  /\ q.pc \in {"rollback", "restore", "mark", "remove", "removing", "close"} =>
       /\ q.seen.status # "cleanup_complete"
       /\ q.ledgerFresh => l.status \in Fenced
  /\ q.pc \in {"recheck", "succeeded"} => l.status = "cleanup_complete"
  /\ q.pc = "recheck" => q.seen.status = "cleanup_complete"
  /\ q.pc = "tombstone" =>
       IF q.seen.status = "cleanup_complete" THEN l.status = "cleanup_complete"
                                             ELSE q.ledgerFresh => l.status \in Fenced
  /\ q.pc = "close" => o = "tombstone"

Knows(q, r, l, o, v) ==
  /\ q.kind \in {"idle", "abort"} => ~q.ledgerFresh /\ ~q.manifestFresh
  /\ q.kind # "idle" => Addressed(q, r, v)
  /\ q.kind \in {"upload", "status"} => Uploading(q, l, o)
  /\ q.kind \in Ticketed => Changing(q, l, o)
  /\ q.kind = "cleanup" => Cleaning(q, l, o)

\* The ledger, the row and the object of a publication fit together.
LedgerSound(l, r, o, v) ==
  /\ l.generation <= r.generation
  /\ l.version <= v
  /\ l.status = "absent" => l.generation = 0
  /\ l.status \in Activatable => l.version >= 1
  /\ l.status \in {"uploaded"} \cup Activatable => o # "absent"
  /\ l.status = "cleanup_complete" => o = "tombstone"
  /\ o = "tombstone" => r.state \in Terminal
  /\ r.state \in Recorded => o = "pdf" /\ l.generation = r.generation
  /\ r.cleanup = "done" => l.status = "cleanup_complete"

ManifestSound ==
  /\ manifest.exists <=> manifest.version >= 1
  /\ \A p \in Publications : manifest.documents[p] # "absent" => manifest.exists

RemovalSound ==
  \A p \in Publications :
    Closed(p) \/ (\E s \in Slots : PastRemoval(request[s], p)) => Unlisted(p)

LedgersSound ==
  \A p \in Publications :
    /\ RowSound(row[p])
    /\ LedgerSound(ledger[p], row[p], object[p], manifest.version)

SlotSound(s) ==
  LET p == request[s].publication
  IN  Knows(request[s], row[p], ledger[p], object[p], manifest.version)

WorkerInv ==
  /\ TypeOK /\ ManifestSound /\ LedgersSound /\ RemovalSound
  /\ \A s \in Slots : SlotSound(s)

-----------------------------------------------------------------------------
(* The rows.                                                                 *)

\* What an RPC does to a row, apart from the two that use what the Worker did.
RowForward(r, s) ==
  /\ RowSound(s)
  /\ r.generation <= s.generation
  /\ r.state \in Terminal => s.state \in Terminal
  /\ s.state \in Recorded => r.state \in Recorded /\ s.generation = r.generation
  /\ s.cleanup = "done" => r.cleanup = "done"

\* The RPCs and instants without RecordUploaded and without a cleanup reported
\* as successful.
PlainStep ==
  \/ CloseLecture
  \/ \E p \in Publications :
       \/ Create(p) \/ Reissue(p) \/ PrepareCommit(p) \/ PrepareActivation(p)
       \/ \E g \in 1..MaxGeneration : ClaimNonce(p, g)
       \/ \E operation, version, access \in Nat :
            \/ CompleteCommit(p, operation, version, access)
            \/ CompleteActivation(p, operation, version, access)
       \/ Abort(p)
       \/ \E c \in Cleaners : ClaimCleanup(p, c) \/ CompleteCleanup(p, c, FALSE)
       \/ LeaseLapses(p) \/ OperationDeadline(p) \/ CleanupLeaseLapses(p)
  \/ UNCHANGED dbVars

\* The names of the states are distinct.
LEMMA RecordedStates ==
  /\ Recorded \cap Terminal = {} /\ Recorded \cap Discarded = {}
  /\ "none" \notin Recorded /\ "pending" \notin Recorded
  /\ "none" \notin Terminal /\ "pending" \notin Terminal
BY StatesListed DEF Recorded

\* Writing one row leaves the others where they are.
LEMMA UpdateForward ==
  ASSUME RecordsTypeOK, \A p \in Publications : RowSound(row[p]),
         NEW p \in Publications, NEW new \in Row, Update(p, new),
         RowForward(row[p], new)
  PROVE  /\ RecordsTypeOK'
         /\ \A q \in Publications : RowForward(row[q], row'[q])
<1>1. RecordsTypeOK'
  BY UpdateTyped
<1>2. row \in [Publications -> Row]
  BY DEF RecordsTypeOK
<1>3. \A q \in Publications : row'[q] = IF q = p THEN new ELSE row[q]
  BY <1>2 DEF Update
<1>4. ASSUME NEW q \in Publications
      PROVE  RowForward(row[q], row[q])
  BY <1>2 DEF RowForward, Row
<1> QED
  BY <1>1, <1>3, <1>4

\* A row that keeps its state, its generation and its attempt.
LEMMA RowStill ==
  ASSUME NEW r \in Row, RowSound(r), NEW s \in Row,
         s.state = r.state, s.generation = r.generation, s.attempt = r.attempt,
         s.cleanupGeneration = r.cleanupGeneration, s.operation <= MaxOperations,
         s.cleanup = r.cleanup \/ (r.state # "none" /\ s.cleanup # "done")
  PROVE  RowForward(r, s)
BY DEF RowForward, RowSound, Row

\* Discard moves a row that is in flight forward.
LEMMA DiscardForward ==
  ASSUME NEW r \in Row, RowSound(r), r.state \in Inflight, NEW s \in Discarded
  PROVE  RowForward(r, Discard(r, s)) /\ Discard(r, s) \in Row
<1>1. Discard(r, s) \in Row
  BY DiscardedRow
<1>2. /\ Discard(r, s).state = s /\ Discard(r, s).generation = NextGeneration(r.generation)
      /\ Discard(r, s).operation = r.operation
      /\ Discard(r, s).cleanupGeneration = CaptureCleanupBinding(r)
      /\ Discard(r, s).cleanup = "due"
  BY DEF Discard, Row
<1>3. r.generation <= NextGeneration(r.generation) /\ CaptureCleanupBinding(r) <= r.generation
  BY GenerationBound DEF NextGeneration, CaptureCleanupBinding, RowSound, Row
<1>4. s \in Terminal /\ s \notin Recorded /\ s # "none"
  BY StatesListed DEF Recorded
<1>5. NextGeneration(r.generation) \in Nat /\ r.generation \in Nat /\ CaptureCleanupBinding(r) \in Nat
  BY GenerationBound DEF NextGeneration, CaptureCleanupBinding, Row
<1> QED
  BY <1>1, <1>2, <1>3, <1>4, <1>5 DEF RowForward, RowSound

\* So does a cleanup claim, which may expire the row first.
LEMMA ExpiredForward ==
  ASSUME NEW r \in Row, RowSound(r), NEW c \in Cleaners,
         Expired(r).state \in Terminal
  PROVE  LET s == [Expired(r) EXCEPT !.cleanup = "claimed", !.cleaner = c]
         IN  s \in Row /\ RowForward(r, s)
<1> DEFINE e == Expired(r)
           s == [e EXCEPT !.cleanup = "claimed", !.cleaner = c]
<1>1. e \in Row
  BY ExpiredRow
<1>2. s \in Row /\ s.state = e.state /\ s.generation = e.generation /\ s.attempt = e.attempt
      /\ s.cleanupGeneration = e.cleanupGeneration /\ s.operation = e.operation
      /\ s.cleanup = "claimed"
  BY <1>1 DEF Row
<1>3. RowForward(r, e) \/ e = r
  BY DiscardForward, StatesListed DEF Expired
<1>4. RowForward(r, s)
  BY <1>2, <1>3, RecordedStates DEF RowForward, RowSound, Row
<1> QED
  BY <1>2, <1>4

\* So does closing the lecture, for every row at once.
LEMMA CloseForward ==
  ASSUME RecordsTypeOK, \A p \in Publications : RowSound(row[p]), CloseLecture
  PROVE  \A p \in Publications : RowForward(row[p], row'[p])
<1> SUFFICES ASSUME NEW p \in Publications
             PROVE  RowForward(row[p], row'[p])
  OBVIOUS
<1>0. row[p] \in Row
  BY DEF RecordsTypeOK
<1>1. CASE row[p].state \in Inflight
  BY <1>0, <1>1, DiscardForward, StatesListed DEF CloseLecture
<1>2. CASE row[p].state \notin Inflight
  BY <1>0, <1>2 DEF CloseLecture, RowForward, Row
<1> QED
  BY <1>1, <1>2

\* So does an activation, for the row it publishes and the rows it retires.
LEMMA ActivationForward ==
  ASSUME RecordsTypeOK, \A p \in Publications : RowSound(row[p]),
         NEW p \in Publications, NEW operation, NEW version \in Nat, NEW access,
         CompleteActivation(p, operation, version, access)
  PROVE  \A q \in Publications : RowForward(row[q], row'[q])
<1> SUFFICES ASSUME NEW q \in Publications
             PROVE  RowForward(row[q], row'[q])
  OBVIOUS
<1>0. row[q] \in Row /\ RowSound(row[q])
  BY DEF RecordsTypeOK
<1>1. CASE q = p
  <2>1. row'[q] = [row[q] EXCEPT !.state = "active", !.activatedVersion = version,
                                 !.lease = "none"]
        /\ row[q].state = "committed"
    BY <1>1, Zenon DEF CompleteActivation, ActivationDue, Activated
  <2>2. "active" \in Recorded /\ "committed" \in Recorded /\ "active" \notin Terminal
        /\ "committed" \notin Terminal
    BY StatesListed DEF Recorded
  <2> QED
    BY <1>0, <2>1, <2>2 DEF RowForward, RowSound, Row
<1>2. CASE q # p /\ row[q].state = "active" /\ DocumentOf[q] = DocumentOf[p]
  <2>1. row'[q] = [row[q] EXCEPT !.state = "retired", !.cleanup = "due",
                     !.cleanupGeneration = CaptureCleanupBinding(row[q])]
    BY <1>2, Zenon DEF CompleteActivation, Replaced
  <2>2. "retired" \notin Recorded /\ "retired" \in Terminal
    BY StatesListed DEF Recorded
  <2> QED
    BY <1>0, <2>1, <2>2 DEF RowForward, RowSound, CaptureCleanupBinding, Row
<1>3. CASE q # p /\ ~(row[q].state = "active" /\ DocumentOf[q] = DocumentOf[p])
  <2>1. row'[q] = row[q]
    BY <1>3, Zenon DEF CompleteActivation
  <2> QED
    BY <1>0, <2>1 DEF RowForward, Row
<1> QED
  BY <1>1, <1>2, <1>3

\* The plain steps keep the rows sound and move each of them forward.
LEMMA PlainForward ==
  ASSUME RecordsTypeOK, \A p \in Publications : RowSound(row[p]), PlainStep
  PROVE  RecordsTypeOK' /\ \A p \in Publications : RowForward(row[p], row'[p])
<1>0. /\ row \in [Publications -> Row] /\ accessVersion \in Nat
      /\ \A p \in Publications : row[p] \in Row /\ RowSound(row[p])
  BY DEF RecordsTypeOK
<1> USE RecordedStates
<1>1. CASE CloseLecture
  BY <1>1, CloseForward, StepTyped DEF DBNext
<1>2. ASSUME NEW p \in Publications, Create(p)
      PROVE  RecordsTypeOK' /\ \A q \in Publications : RowForward(row[q], row'[q])
  <2> DEFINE new == [row[p] EXCEPT !.state = "pending", !.generation = 1]
  <2>1. new \in Row
    <3>1. \A r \in Row : [r EXCEPT !.state = "pending", !.generation = 1] \in Row
      BY Generations, StateNames DEF Row
    <3> QED
      BY <1>0, <3>1
  <2>2. RowForward(row[p], new)
    <3>1. row[p].state = "none" /\ row[p].attempt = 0 /\ row[p].generation = 0
          /\ row[p].cleanup = "none"
      BY <1>0, <1>2 DEF Create, RowSound, Row
    <3>2. new.state = "pending" /\ new.generation = 1 /\ new.attempt = row[p].attempt
          /\ new.cleanupGeneration = row[p].cleanupGeneration
          /\ new.operation = row[p].operation /\ new.cleanup = row[p].cleanup
      BY <1>0 DEF Row
    <3> HIDE DEF new
    <3> QED
      BY <1>0, <2>1, <3>1, <3>2 DEF RowForward, RowSound, Row
  <2> QED
    BY <1>2, <2>1, <2>2, UpdateForward DEF Create
<1>3. ASSUME NEW p \in Publications, Reissue(p)
      PROVE  RecordsTypeOK' /\ \A q \in Publications : RowForward(row[q], row'[q])
  <2> DEFINE new == [row[p] EXCEPT !.generation = @ + 1, !.attempt = 0, !.lease = "none"]
  <2>1. row[p].generation + 1 \in 0..MaxGeneration
    BY <1>0, <1>3, GenerationBound DEF Reissue, Row
  <2>2. new \in Row
    <3>1. \A r \in Row, g \in 0..MaxGeneration :
            [r EXCEPT !.generation = g, !.attempt = 0, !.lease = "none"] \in Row
      BY Generations DEF Row
    <3> QED
      BY <1>0, <2>1, <3>1
  <2>3. RowForward(row[p], new)
    <3>1. row[p].state = "pending"
      BY <1>3 DEF Reissue
    <3>2. new.state = row[p].state /\ new.generation = row[p].generation + 1 /\ new.attempt = 0
          /\ new.cleanupGeneration = row[p].cleanupGeneration
          /\ new.operation = row[p].operation /\ new.cleanup = row[p].cleanup
      BY <1>0 DEF Row
    <3> HIDE DEF new
    <3> QED
      BY <1>0, <2>2, <3>1, <3>2 DEF RowForward, RowSound, Row
  <2> QED
    BY <1>3, <2>2, <2>3, UpdateForward DEF Reissue
<1>4. ASSUME NEW p \in Publications, NEW g \in 1..MaxGeneration, ClaimNonce(p, g)
      PROVE  RecordsTypeOK' /\ \A q \in Publications : RowForward(row[q], row'[q])
  <2> DEFINE new == [row[p] EXCEPT !.attempt = g, !.lease = "live"]
  <2>1. g \in 0..MaxGeneration /\ row[p].state = "pending" /\ row[p].generation = g
    BY <1>4, GenerationBound DEF ClaimNonce, NonceFree
  <2>2. new \in Row
    <3>1. \A r \in Row : [r EXCEPT !.attempt = g, !.lease = "live"] \in Row
      BY <2>1 DEF Row
    <3> QED
      BY <1>0, <3>1
  <2>3. RowForward(row[p], new)
    <3>1. new.state = row[p].state /\ new.generation = row[p].generation /\ new.attempt = g
          /\ new.cleanupGeneration = row[p].cleanupGeneration
          /\ new.operation = row[p].operation /\ new.cleanup = row[p].cleanup
      BY <1>0 DEF Row
    <3> HIDE DEF new
    <3> QED
      BY <1>0, <2>1, <2>2, <3>1 DEF RowForward, RowSound, Row
  <2> QED
    BY <1>4, <2>2, <2>3, UpdateForward DEF ClaimNonce
<1>5. ASSUME NEW p \in Publications, PrepareCommit(p) \/ PrepareActivation(p)
      PROVE  RecordsTypeOK' /\ \A q \in Publications : RowForward(row[q], row'[q])
  <2>1. row[p].operation < MaxOperations /\ row[p].state \in Recorded
    BY <1>5 DEF PrepareCommit, PrepareActivation, Recorded
  <2>2. row[p].operation + 1 \in Nat /\ row[p].operation + 1 <= MaxOperations
    BY <1>0, <2>1, OperationBound DEF Row
  <2>3. ASSUME NEW new \in Row, Update(p, new),
               new.state = row[p].state, new.generation = row[p].generation,
               new.attempt = row[p].attempt, new.operation = row[p].operation + 1,
               new.cleanupGeneration = row[p].cleanupGeneration,
               new.cleanup = row[p].cleanup
        PROVE  RecordsTypeOK' /\ \A q \in Publications : RowForward(row[q], row'[q])
    <3>1. row[p] \in Row /\ RowSound(row[p])
      BY <1>0
    <3>2. RowForward(row[p], new)
      BY <2>1, <2>2, <2>3, <3>1 DEF RowForward, RowSound, Row
    <3> QED
      BY <2>3, <3>2, UpdateForward
  <2>4. CASE PrepareCommit(p)
    <3> DEFINE new == [row[p] EXCEPT !.operation = @ + 1, !.lease = "live"]
    <3>1. new \in Row
      <4>1. \A x \in Row, n \in Nat : [x EXCEPT !.operation = n, !.lease = "live"] \in Row
        BY DEF Row
      <4> QED
        BY <1>0, <2>2, <4>1
    <3>2. /\ new.state = row[p].state /\ new.generation = row[p].generation
          /\ new.attempt = row[p].attempt /\ new.operation = row[p].operation + 1
          /\ new.cleanupGeneration = row[p].cleanupGeneration
          /\ new.cleanup = row[p].cleanup
      BY <1>0 DEF Row
    <3>3. Update(p, new)
      BY <2>4 DEF PrepareCommit
    <3> HIDE DEF new
    <3> QED
      BY <2>3, <3>1, <3>2, <3>3
  <2>5. CASE PrepareActivation(p)
    <3> DEFINE new == [row[p] EXCEPT !.operation = @ + 1, !.lease = "live",
                                     !.targetAccess = accessVersion + 1]
    <3>0. accessVersion + 1 \in Nat /\ row[p].operation + 1 \in Nat /\ row[p] \in Row
      BY <1>0, <2>2
    <3>1. new \in Row
      BY <3>0 DEF Row
    <3>2. /\ new.state = row[p].state /\ new.generation = row[p].generation
          /\ new.attempt = row[p].attempt /\ new.operation = row[p].operation + 1
          /\ new.cleanupGeneration = row[p].cleanupGeneration
          /\ new.cleanup = row[p].cleanup
      BY <1>0 DEF Row
    <3>3. Update(p, new)
      BY <2>5 DEF PrepareActivation
    <3> HIDE DEF new
    <3> QED
      BY <2>3, <3>1, <3>2, <3>3
  <2> QED
    BY <1>5, <2>4, <2>5
<1>6. ASSUME NEW p \in Publications,
             NEW operation, NEW version \in Nat, NEW access \in Nat,
             CompleteCommit(p, operation, version, access)
      PROVE  RecordsTypeOK' /\ \A q \in Publications : RowForward(row[q], row'[q])
  <2> DEFINE new == [row[p] EXCEPT !.state = "committed", !.committedVersion = version,
                       !.committedAccess = access, !.operation = 0, !.lease = "none"]
  <2>1. new \in Row
    <3>1. \A r \in Row :
            [r EXCEPT !.state = "committed", !.committedVersion = version,
                      !.committedAccess = access, !.operation = 0, !.lease = "none"] \in Row
      BY StateNames DEF Row
    <3> QED
      BY <1>0, <3>1
  <2>2. row[p].state = "uploaded"
    BY <1>6 DEF CompleteCommit
  <2>3. RowForward(row[p], new)
    <3>1. new.state = "committed" /\ new.generation = row[p].generation
          /\ new.attempt = row[p].attempt /\ new.operation = 0
          /\ new.cleanupGeneration = row[p].cleanupGeneration /\ new.cleanup = row[p].cleanup
      BY <1>0 DEF Row
    <3>2. 0 <= MaxOperations /\ "uploaded" \in Recorded /\ "committed" \in Recorded
      BY OperationBound DEF Recorded
    <3> HIDE DEF new
    <3> QED
      BY <1>0, <2>1, <2>2, <3>1, <3>2 DEF RowForward, RowSound, Row
  <2> QED
    BY <1>6, <2>1, <2>3, UpdateForward DEF CompleteCommit
<1>7. ASSUME NEW p \in Publications,
             NEW operation, NEW version \in Nat, NEW access,
             CompleteActivation(p, operation, version, access)
      PROVE  RecordsTypeOK' /\ \A q \in Publications : RowForward(row[q], row'[q])
  <2>1. RecordsTypeOK'
    <3>1. accessVersion' \in Nat \ {0} /\ lectureOpen' \in BOOLEAN
      <4>1. accessVersion' = access /\ lectureOpen' = lectureOpen
            /\ access = accessVersion + 1
        BY <1>7, Zenon DEF CompleteActivation, ActivationDue
      <4> QED
        BY <4>1 DEF RecordsTypeOK
    <3>2. ASSUME NEW q \in Publications
          PROVE  /\ [row[p] EXCEPT !.state = "active", !.activatedVersion = version,
                                   !.lease = "none"] \in Row
                 /\ [row[q] EXCEPT !.state = "retired", !.cleanup = "due",
                       !.cleanupGeneration = CaptureCleanupBinding(row[q])] \in Row
      <4>1. row[p] \in Row /\ row[q] \in Row
            /\ CaptureCleanupBinding(row[q]) \in 0..MaxGeneration
        BY <1>0, Generations
      <4> QED
        BY <4>1, StateNames DEF Row
    <3> QED
      BY <1>0, <1>7, <3>1, <3>2
         DEF CompleteActivation, Activated, Replaced, RecordsTypeOK
  <2> QED
    BY <1>7, <2>1, ActivationForward
<1>8. ASSUME NEW p \in Publications, Abort(p)
      PROVE  RecordsTypeOK' /\ \A q \in Publications : RowForward(row[q], row'[q])
  <2>1. /\ row[p].state \in Inflight /\ "aborted" \in Discarded
        /\ Update(p, Discard(row[p], "aborted"))
    BY <1>8, StatesListed DEF Abort
  <2>2. Discard(row[p], "aborted") \in Row /\ RowForward(row[p], Discard(row[p], "aborted"))
    BY <1>0, <2>1, DiscardForward
  <2> QED
    BY <2>1, <2>2, UpdateForward
<1>9. ASSUME NEW p \in Publications, NEW c \in Cleaners, ClaimCleanup(p, c)
      PROVE  RecordsTypeOK' /\ \A q \in Publications : RowForward(row[q], row'[q])
  <2>1. /\ Expired(row[p]).state \in Terminal
        /\ Update(p, [Expired(row[p]) EXCEPT !.cleanup = "claimed", !.cleaner = c])
    BY <1>9 DEF ClaimCleanup
  <2> QED
    BY <1>0, <2>1, ExpiredForward, UpdateForward
<1>10. ASSUME NEW p \in Publications, NEW c \in Cleaners, CompleteCleanup(p, c, FALSE)
       PROVE  RecordsTypeOK' /\ \A q \in Publications : RowForward(row[q], row'[q])
  <2> DEFINE new == [row[p] EXCEPT !.cleanup = "due", !.cleaner = NoCleaner]
  <2>1. new \in Row
    <3>1. \A r \in Row : [r EXCEPT !.cleanup = "due", !.cleaner = NoCleaner] \in Row
      BY DEF Row
    <3> QED
      BY <1>0, <3>1
  <2>2. /\ UNCHANGED dbVars \/ Update(p, new)
        /\ row[p].state \in Terminal
    BY <1>10 DEF CompleteCleanup, CleanupAccepted, CleanupClaimHeld
  <2>3. RowForward(row[p], new)
    <3>1. new.state = row[p].state /\ new.generation = row[p].generation
          /\ new.attempt = row[p].attempt /\ new.operation = row[p].operation
          /\ new.cleanupGeneration = row[p].cleanupGeneration /\ new.cleanup = "due"
      BY <1>0 DEF Row
    <3>2. row[p].operation <= MaxOperations
      BY <1>0 DEF RowSound
    <3> HIDE DEF new
    <3> QED
      BY <1>0, <2>1, <2>2, <3>1, <3>2, RowStill
  <2>4. CASE UNCHANGED dbVars
    BY <1>0, <2>4 DEF dbVars, RecordsTypeOK, RowForward, Row
  <2>5. CASE Update(p, new)
    BY <2>1, <2>3, <2>5, UpdateForward
  <2> QED
    BY <2>2, <2>4, <2>5
<1>11. ASSUME NEW p \in Publications,
              LeaseLapses(p) \/ OperationDeadline(p) \/ CleanupLeaseLapses(p)
       PROVE  RecordsTypeOK' /\ \A q \in Publications : RowForward(row[q], row'[q])
  <2>0. row[p] \in Row /\ RowSound(row[p]) /\ row[p].operation <= MaxOperations
    BY <1>0 DEF RowSound
  <2>1. ASSUME NEW new \in {[row[p] EXCEPT !.lease = "lapsed"],
                            [row[p] EXCEPT !.overdue = TRUE]}
        PROVE  new \in Row /\ RowForward(row[p], new)
    <3>1. \A r \in Row : LET n == [r EXCEPT !.lease = "lapsed"]
                        IN  /\ n \in Row /\ n.state = r.state /\ n.generation = r.generation
                            /\ n.attempt = r.attempt /\ n.operation = r.operation
                            /\ n.cleanupGeneration = r.cleanupGeneration
                            /\ n.cleanup = r.cleanup
      BY DEF Row
    <3>3. \A r \in Row : LET n == [r EXCEPT !.overdue = TRUE]
                        IN  /\ n \in Row /\ n.state = r.state /\ n.generation = r.generation
                            /\ n.attempt = r.attempt /\ n.operation = r.operation
                            /\ n.cleanupGeneration = r.cleanupGeneration
                            /\ n.cleanup = r.cleanup
      BY DEF Row
    <3>2. /\ new \in Row
          /\ new.state = row[p].state /\ new.generation = row[p].generation
          /\ new.attempt = row[p].attempt /\ new.operation = row[p].operation
          /\ new.cleanupGeneration = row[p].cleanupGeneration
          /\ new.cleanup = row[p].cleanup
      <4>1. CASE new = [row[p] EXCEPT !.lease = "lapsed"]
        BY <2>0, <3>1, <4>1
      <4>2. CASE new = [row[p] EXCEPT !.overdue = TRUE]
        BY <2>0, <3>3, <4>2
      <4> QED
        BY <4>1, <4>2
    <3> QED
      BY <2>0, <3>2 DEF RowForward, RowSound, Row
  <2>2. ASSUME row[p].cleanup = "claimed"
        PROVE  /\ [row[p] EXCEPT !.cleanup = "lapsed"] \in Row
               /\ RowForward(row[p], [row[p] EXCEPT !.cleanup = "lapsed"])
    <3> DEFINE new == [row[p] EXCEPT !.cleanup = "lapsed"]
    <3>0. \A r \in Row : [r EXCEPT !.cleanup = "lapsed"] \in Row
      BY DEF Row
    <3>1. new \in Row
      BY <1>0, <3>0
    <3>2. new.state = row[p].state /\ new.generation = row[p].generation
          /\ new.attempt = row[p].attempt /\ new.operation = row[p].operation
          /\ new.cleanupGeneration = row[p].cleanupGeneration
          /\ new.cleanup = "lapsed"
      BY <1>0 DEF Row
    <3>3. row[p].state # "none"
      BY <1>0, <2>2 DEF RowSound
    <3> HIDE DEF new
    <3>4. RowForward(row[p], new)
      BY <1>0, <2>0, <3>1, <3>2, <3>3, RowStill
    <3> QED
      BY <3>1, <3>4 DEF new
  <2> QED
    BY <1>11, <2>1, <2>2, UpdateForward DEF LeaseLapses, OperationDeadline, CleanupLeaseLapses
<1>12. CASE UNCHANGED dbVars
  BY <1>0, <1>12 DEF dbVars, RecordsTypeOK, RowForward, Row
<1> QED
  BY <1>1, <1>2, <1>3, <1>4, <1>5, <1>6, <1>7, <1>8, <1>9, <1>10, <1>11, <1>12
     DEF PlainStep

-----------------------------------------------------------------------------
(* What an RPC may do to the rows while the bucket stays as it is.           *)

RowsFit ==
  /\ RecordsTypeOK'
  /\ \A p \in Publications :
       /\ RowSound(row'[p])
       /\ row[p].generation <= row'[p].generation
       /\ row[p].state \in Terminal => row'[p].state \in Terminal
       /\ row'[p].state \in Recorded =>
            object[p] = "pdf" /\ ledger[p].generation = row'[p].generation
       /\ row'[p].cleanup = "done" => Closed(p)

\* What no step undoes, in the words of GenerationsForward and SentinelsStay.
StoreForward ==
  \A p \in Publications :
    /\ ledger'[p].generation >= ledger[p].generation
    /\ object[p] = "tombstone" => object'[p] = "tombstone"
    /\ Closed(p) => ledger'[p] = ledger[p] /\ manifest'.documents[p] = "absent"

Kept == WorkerInv' /\ StoreForward

\* The shapes of the variables, one by one.
LEMMA Typed ==
  ASSUME WorkerInv
  PROVE  /\ RecordsTypeOK /\ row \in [Publications -> Row]
         /\ accessVersion \in Nat \ {0}
         /\ ledger \in [Publications -> Ledger] /\ manifest \in Manifest
         /\ object \in [Publications -> {"absent", "pdf", "tombstone"}]
         /\ request \in [Slots -> Request]
         /\ manifest.version \in Nat /\ manifest.access \in Nat
         /\ manifest.documents
              \in [Publications -> {"absent", "staged", "visible", "retired"}]
         /\ manifest.version <= MaxManifestVersion
BY ManifestBound DEF WorkerInv, TypeOK, RecordsTypeOK, Manifest, Slots

\* The plain RPCs fit.
LEMMA PlainFits ==
  ASSUME WorkerInv, PlainStep
  PROVE  RowsFit
<1>1. RecordsTypeOK' /\ \A p \in Publications : RowForward(row[p], row'[p])
  BY PlainForward, Typed DEF WorkerInv, LedgersSound
<1>2. ASSUME NEW p \in Publications
      PROVE  /\ RowForward(row[p], row'[p])
             /\ row[p].state \in Recorded =>
                  object[p] = "pdf" /\ ledger[p].generation = row[p].generation
             /\ row[p].cleanup = "done" => Closed(p)
  BY <1>1 DEF WorkerInv, LedgersSound, LedgerSound, Closed
<1> QED
  BY <1>1, <1>2 DEF RowsFit, RowForward

\* Leaving the rows alone fits.
LEMMA StillFits ==
  ASSUME WorkerInv, UNCHANGED dbVars
  PROVE  RowsFit
BY PlainFits DEF PlainStep

\* What an invocation knows stays known when the row moves on and the manifest
\* gets newer.
LEMMA KnownOnward ==
  ASSUME NEW q \in Request, NEW r \in Row, NEW s \in Row, NEW l, NEW o,
         NEW v \in Nat, NEW w \in Nat,
         Knows(q, r, l, o, v), v <= w, r.generation <= s.generation,
         r.state \in Terminal => s.state \in Terminal
  PROVE  Knows(q, s, l, o, w)
<1>1. ASSUME Addressed(q, r, v) PROVE Addressed(q, s, w)
  <2>1. /\ q.generation \in Nat /\ q.version \in Nat
        /\ r.generation \in Nat /\ s.generation \in Nat
    BY DEF Request, Row
  <2> QED
    BY <1>1, <2>1 DEF Addressed
<1> QED
  BY <1>1 DEF Knows

\* And when somebody else writes the ledger, which makes what it holds stale.
LEMMA KnownStale ==
  ASSUME NEW q \in Request, NEW r, NEW l \in Ledger, NEW m \in Ledger, NEW o, NEW v,
         Knows(q, r, l, o, v), l.status # "cleanup_complete",
         l.generation <= m.generation
  PROVE  Knows([q EXCEPT !.ledgerFresh = FALSE], r, m, o, v)
<1> DEFINE n == [q EXCEPT !.ledgerFresh = FALSE]
<1>1. /\ n.kind = q.kind /\ n.pc = q.pc /\ n.publication = q.publication
      /\ n.generation = q.generation /\ n.operation = q.operation
      /\ n.version = q.version /\ n.seen = q.seen /\ ~n.ledgerFresh
      /\ n.manifestFresh = q.manifestFresh
  BY DEF Request
<1>2. /\ q.generation \in Nat /\ l.generation \in Nat /\ m.generation \in Nat
  BY DEF Request, Ledger
<1> HIDE DEF n
<1>3. Addressed(q, r, v) => Addressed(n, r, v)
  BY <1>1 DEF Addressed
<1>4. Uploading(q, l, o) => Uploading(n, m, o)
  BY <1>1, <1>2 DEF Uploading
<1>5. Changing(q, l, o) => Changing(n, m, o)
  BY <1>1 DEF Changing
<1>6. Cleaning(q, l, o) => Cleaning(n, m, o)
  BY <1>1 DEF Cleaning
<1>7. Knows(n, r, m, o, v)
  BY <1>1, <1>3, <1>4, <1>5, <1>6 DEF Knows
<1> QED
  BY <1>7 DEF n

\* And when the manifest it loaded is replaced.
LEMMA KnownUnlisted ==
  ASSUME NEW q \in Request, NEW r, NEW l, NEW o, NEW v, Knows(q, r, l, o, v)
  PROVE  Knows([q EXCEPT !.manifestFresh = FALSE], r, l, o, v)
<1> DEFINE n == [q EXCEPT !.manifestFresh = FALSE]
<1>1. /\ n.kind = q.kind /\ n.pc = q.pc /\ n.publication = q.publication
      /\ n.generation = q.generation /\ n.operation = q.operation
      /\ n.version = q.version /\ n.seen = q.seen /\ n.ledgerFresh = q.ledgerFresh
      /\ ~n.manifestFresh
  BY DEF Request
<1> HIDE DEF n
<1>2. Addressed(q, r, v) => Addressed(n, r, v)
  BY <1>1 DEF Addressed
<1>3. Uploading(q, l, o) => Uploading(n, l, o)
  BY <1>1 DEF Uploading
<1>4. Changing(q, l, o) => Changing(n, l, o)
  BY <1>1 DEF Changing
<1>5. Cleaning(q, l, o) => Cleaning(n, l, o)
  BY <1>1 DEF Cleaning
<1>6. Knows(n, r, l, o, v)
  BY <1>1, <1>2, <1>3, <1>4, <1>5 DEF Knows
<1> QED
  BY <1>6 DEF n

\* And when the object is stored, or replaced by its tombstone.
LEMMA KnownStored ==
  ASSUME NEW q, NEW r, NEW l, NEW o, NEW b, NEW v, Knows(q, r, l, o, v),
         b \in {"pdf", "tombstone"}, o = "tombstone" => b = "tombstone"
  PROVE  Knows(q, r, l, b, v)
<1>1. Uploading(q, l, o) => Uploading(q, l, b)
  BY DEF Uploading
<1>2. Changing(q, l, o) => Changing(q, l, b)
  BY DEF Changing
<1>3. Cleaning(q, l, o) => Cleaning(q, l, b)
  BY DEF Cleaning
<1> QED
  BY <1>1, <1>2, <1>3 DEF Knows

-----------------------------------------------------------------------------
(* The four ways a step changes the store.                                   *)

Slot(s) == request[s].publication

\* An invocation goes on as "new", and an RPC may be called for it.
LEMMA MoveKeeps ==
  ASSUME WorkerInv, RowsFit, NEW r \in Slots, NEW new \in Request, Become(r, new),
         new.kind # "idle" =>
           Knows(new, row'[new.publication], ledger[new.publication],
                 object[new.publication], manifest.version),
         new.kind = "idle" => ~new.ledgerFresh /\ ~new.manifestFresh,
         \A p \in Publications : Adds(new, p) =>
           \/ Adds(request[r], p)
           \/ ledger[p].status \notin Fenced \cup {"cleanup_complete"},
         \A p \in Publications : PastRemoval(new, p) => PastRemoval(request[r], p),
         crashes' \in 0..MaxCrashes
  PROVE  Kept
<1>0. /\ ledger' = ledger /\ manifest' = manifest /\ object' = object
      /\ request' = [request EXCEPT ![r] = new]
  BY DEF Become, storeVars
<1>1. /\ RecordsTypeOK' /\ request \in [Slots -> Request] /\ manifest.version \in Nat
      /\ row \in [Publications -> Row] /\ row' \in [Publications -> Row]
      /\ ledger \in [Publications -> Ledger]
  BY Typed DEF RowsFit, RecordsTypeOK
<1>2. /\ request' \in [Slots -> Request]
      /\ \A s \in Slots : request'[s] = IF s = r THEN new ELSE request[s]
  BY <1>0, <1>1
<1>3. TypeOK'
  BY <1>0, <1>1, <1>2 DEF TypeOK, WorkerInv, Slots
<1>4. ManifestSound'
  BY <1>0 DEF ManifestSound, WorkerInv
<1>5. LedgersSound'
  <2> SUFFICES ASSUME NEW p \in Publications
               PROVE  RowSound(row'[p])
                      /\ LedgerSound(ledger[p], row'[p], object[p], manifest.version)
    BY <1>0 DEF LedgersSound
  <2>1. /\ LedgerSound(ledger[p], row[p], object[p], manifest.version)
        /\ row[p].generation \in Nat /\ row'[p].generation \in Nat
        /\ ledger[p].generation \in Nat
    BY <1>1 DEF WorkerInv, LedgersSound, Row, Ledger
  <2> QED
    BY <2>1 DEF LedgerSound, RowsFit, Closed
<1>6. ASSUME NEW s \in Slots
      PROVE  SlotSound(s)'
  <2> DEFINE q == request[s]
             p == q.publication
  <2>1. CASE s = r
    <3>1. request'[s] = new
      BY <1>2, <2>1
    <3>2. new.kind = "idle" => Knows(new, row'[new.publication], ledger[new.publication],
                                     object[new.publication], manifest.version)
      BY DEF Knows, Ticketed
    <3> QED
      BY <1>0, <3>1, <3>2 DEF SlotSound
  <2>2. CASE s # r
    <3>1. request'[s] = q /\ q \in Request
      BY <1>1, <1>2, <2>2
    <3>2. Knows(q, row[p], ledger[p], object[p], manifest.version)
      BY DEF WorkerInv, SlotSound
    <3>3. CASE q.kind = "idle"
      <4>1. Knows(q, row'[p], ledger[p], object[p], manifest.version)
        BY <3>2, <3>3 DEF Knows, Ticketed
      <4> QED
        BY <1>0, <3>1, <4>1 DEF SlotSound
    <3>4. CASE q.kind # "idle"
      <4>1. p \in Publications
        BY <3>2, <3>4 DEF Knows, Addressed
      <4>2. /\ row[p] \in Row /\ row'[p] \in Row
            /\ row[p].generation <= row'[p].generation
            /\ row[p].state \in Terminal => row'[p].state \in Terminal
        BY <1>1, <4>1 DEF RowsFit
      <4>3. manifest.version <= manifest.version
        BY <1>1
      <4>4. Knows(q, row'[p], ledger[p], object[p], manifest.version)
        BY <1>1, <3>1, <3>2, <4>2, <4>3, KnownOnward
      <4> QED
        BY <1>0, <3>1, <4>4 DEF SlotSound
    <3> QED
      BY <3>3, <3>4
  <2> QED
    BY <2>1, <2>2
<1>7. RemovalSound'
  <2> SUFFICES ASSUME NEW p \in Publications,
                      Closed(p) \/ (\E s \in Slots : PastRemoval(request'[s], p))
               PROVE  /\ manifest.documents[p] = "absent"
                      /\ \A s \in Slots : ~Adds(request'[s], p)
    BY <1>0 DEF RemovalSound, Unlisted, Closed
  <2>1. Closed(p) \/ (\E s \in Slots : PastRemoval(request[s], p))
    BY <1>2
  <2>2. Unlisted(p)
    BY <2>1 DEF WorkerInv, RemovalSound
  <2>3. ledger[p].status \in Fenced \cup {"cleanup_complete"}
    <3>1. ASSUME NEW s \in Slots, PastRemoval(request[s], p)
          PROVE  ledger[p].status \in Fenced
      <4>1. Knows(request[s], row[p], ledger[p], object[p], manifest.version)
        BY <3>1 DEF WorkerInv, SlotSound, PastRemoval
      <4>2. Cleaning(request[s], ledger[p], object[p])
        BY <3>1, <4>1 DEF Knows, PastRemoval
      <4> QED
        BY <3>1, <4>2 DEF Cleaning, PastRemoval
    <3> QED
      BY <2>1, <3>1 DEF Closed
  <2> QED
    BY <1>2, <2>2, <2>3 DEF Unlisted
<1>8. StoreForward
  <2> SUFFICES ASSUME NEW p \in Publications
               PROVE  /\ ledger[p].generation >= ledger[p].generation
                      /\ Closed(p) => manifest.documents[p] = "absent"
    BY <1>0 DEF StoreForward
  <2>1. ledger[p].generation \in Nat
    BY <1>1 DEF Ledger
  <2> QED
    BY <2>1 DEF WorkerInv, RemovalSound, Unlisted
<1> QED
  BY <1>3, <1>4, <1>5, <1>6, <1>7, <1>8 DEF Kept, WorkerInv

\* A conditional write of the ledger of p.
LEMMA LedgerPutKeeps ==
  ASSUME WorkerInv, UNCHANGED dbVars,
         NEW r \in Slots, NEW p \in Publications, NEW value \in Ledger,
         NEW new \in Request, LedgerPut(r, p, value, new), ~Closed(p),
         ledger[p].generation <= value.generation,
         LedgerSound(value, row[p], object[p], manifest.version),
         value.status = "cleanup_complete" => Unlisted(p),
         new.kind # "idle" =>
           /\ new.publication = p
           /\ Knows(new, row[p], value, object[p], manifest.version),
         new.kind = "idle" => ~new.ledgerFresh /\ ~new.manifestFresh,
         new.pc \notin {"put", "tombstone", "close"},
         crashes' \in 0..MaxCrashes
  PROVE  Kept
<1>0. /\ ledger' = [ledger EXCEPT ![p] = value] /\ manifest' = manifest
      /\ object' = object /\ row' = row /\ accessVersion' = accessVersion
      /\ lectureOpen' = lectureOpen
  BY DEF LedgerPut, dbVars
<1>1. /\ RecordsTypeOK /\ request \in [Slots -> Request] /\ manifest.version \in Nat
      /\ row \in [Publications -> Row] /\ ledger \in [Publications -> Ledger]
  BY Typed
<1>2. \A s \in Slots :
        request'[s] = IF s = r THEN new
                      ELSE IF request[s].publication = p
                      THEN [request[s] EXCEPT !.ledgerFresh = FALSE]
                      ELSE request[s]
  BY <1>1 DEF LedgerPut
<1>3. /\ \A q \in Request : [q EXCEPT !.ledgerFresh = FALSE] \in Request
      /\ \A q \in Request : LET n == [q EXCEPT !.ledgerFresh = FALSE]
                            IN  /\ n.publication = q.publication /\ n.kind = q.kind
                                /\ n.pc = q.pc /\ n.manifestFresh = q.manifestFresh
                                /\ ~n.ledgerFresh
  BY DEF Request
<1>4. request' \in [Slots -> Request]
  <2>1. DOMAIN request' = Slots /\ request' = [s \in Slots |-> request'[s]]
    BY <1>1 DEF LedgerPut
  <2>2. \A s \in Slots : request'[s] \in Request
    <3> TAKE s \in Slots
    <3>1. request[s] \in Request /\ [request[s] EXCEPT !.ledgerFresh = FALSE] \in Request
      BY <1>1, <1>3
    <3>2. \/ request'[s] = new \/ request'[s] = request[s]
          \/ request'[s] = [request[s] EXCEPT !.ledgerFresh = FALSE]
      BY <1>2
    <3> QED
      BY <3>1, <3>2
  <2> QED
    BY <2>1, <2>2
<1>5. \A q \in Publications : ledger'[q] = IF q = p THEN value ELSE ledger[q]
  BY <1>0, <1>1
<1>6. TypeOK'
  <2>1. ledger' \in [Publications -> Ledger]
    BY <1>0, <1>1
  <2> QED
    BY <1>0, <1>1, <1>4, <2>1 DEF TypeOK, RecordsTypeOK, WorkerInv, Slots
<1>7. ManifestSound'
  BY <1>0 DEF ManifestSound, WorkerInv
<1>8. LedgersSound'
  BY <1>0, <1>5 DEF LedgersSound, WorkerInv
<1>9. ASSUME NEW s \in Slots
      PROVE  SlotSound(s)'
  <2> DEFINE q == request[s]
  <2>0. q \in Request /\ Knows(q, row[q.publication], ledger[q.publication],
                               object[q.publication], manifest.version)
    BY <1>1 DEF WorkerInv, SlotSound
  <2>1. CASE s = r
    <3>1. request'[s] = new
      BY <1>2, <2>1
    <3>2. CASE new.kind = "idle"
      BY <3>1, <3>2 DEF SlotSound, Knows, Ticketed
    <3>3. CASE new.kind # "idle"
      <4>1. ledger'[new.publication] = value
        BY <1>5, <3>3
      <4> QED
        BY <1>0, <3>1, <3>3, <4>1 DEF SlotSound
    <3> QED
      BY <3>2, <3>3
  <2>2. CASE s # r /\ q.publication = p
    <3> DEFINE n == [q EXCEPT !.ledgerFresh = FALSE]
    <3>1. request'[s] = n /\ n.publication = p
      BY <1>2, <1>3, <2>0, <2>2
    <3>2. ledger[p] \in Ledger /\ ledger[p].status # "cleanup_complete"
      BY <1>1 DEF Closed
    <3>3. Knows(q, row[p], ledger[p], object[p], manifest.version)
      BY <2>0, <2>2
    <3>4. Knows(n, row[p], value, object[p], manifest.version)
      BY <2>0, <3>2, <3>3, KnownStale
    <3> HIDE DEF n
    <3> QED
      BY <1>0, <1>5, <3>1, <3>4 DEF SlotSound
  <2>3. CASE s # r /\ q.publication # p
    <3>1. request'[s] = q
      BY <1>2, <2>3
    <3>2. CASE q.kind = "idle"
      BY <2>0, <3>1, <3>2 DEF SlotSound, Knows, Ticketed
    <3>3. CASE q.kind # "idle"
      <4>1. q.publication \in Publications
        BY <2>0, <3>3 DEF Knows, Addressed
      <4>2. ledger'[q.publication] = ledger[q.publication]
        BY <1>5, <2>3, <4>1
      <4> QED
        BY <1>0, <2>0, <3>1, <4>2 DEF SlotSound
    <3> QED
      BY <3>2, <3>3
  <2> QED
    BY <2>1, <2>2, <2>3
<1>10. RemovalSound'
  <2> SUFFICES ASSUME NEW q \in Publications,
                      \/ ledger'[q].status = "cleanup_complete"
                      \/ \E s \in Slots : PastRemoval(request'[s], q)
               PROVE  /\ manifest.documents[q] = "absent"
                      /\ \A s \in Slots : ~Adds(request'[s], q)
    BY <1>0 DEF RemovalSound, Unlisted, Closed
  <2>0. ASSUME NEW s \in Slots, s # r
        PROVE  /\ request'[s].publication = request[s].publication
               /\ request'[s].kind = request[s].kind /\ request'[s].pc = request[s].pc
               /\ request'[s].seen = request[s].seen
               /\ request'[s].ledgerFresh => request[s].ledgerFresh
               /\ request'[s].manifestFresh => request[s].manifestFresh
    <3>1. request[s] \in Request
      BY <1>1
    <3>2. CASE request[s].publication = p
      <4>1. request'[s] = [request[s] EXCEPT !.ledgerFresh = FALSE]
        BY <1>2, <2>0, <3>2
      <4> QED
        BY <3>1, <4>1 DEF Request
    <3>3. CASE request[s].publication # p
      BY <1>2, <2>0, <3>3
    <3> QED
      BY <3>2, <3>3
  <2>1. ASSUME NEW s \in Slots, PastRemoval(request'[s], q)
        PROVE  PastRemoval(request[s], q)
    <3>1. s # r
      BY <1>2, <2>1 DEF PastRemoval
    <3> QED
      BY <2>0, <2>1, <3>1 DEF PastRemoval
  <2>2. Unlisted(q)
    <3>1. CASE ledger'[q].status = "cleanup_complete"
      BY <1>5, <3>1 DEF WorkerInv, RemovalSound, Closed
    <3>2. CASE \E s \in Slots : PastRemoval(request'[s], q)
      BY <2>1, <3>2 DEF WorkerInv, RemovalSound
    <3> QED
      BY <3>1, <3>2
  <2>3. ASSUME NEW s \in Slots, Adds(request'[s], q)
        PROVE  Adds(request[s], q)
    <3>1. s # r
      BY <1>2, <2>3 DEF Adds
    <3> QED
      BY <2>0, <2>3, <3>1 DEF Adds
  <2> QED
    BY <2>2, <2>3 DEF Unlisted
<1>11. StoreForward
  <2> SUFFICES ASSUME NEW q \in Publications
               PROVE  /\ ledger'[q].generation >= ledger[q].generation
                      /\ Closed(q) => /\ ledger'[q] = ledger[q]
                                      /\ manifest.documents[q] = "absent"
    BY <1>0 DEF StoreForward
  <2>1. ledger[q].generation \in Nat /\ ledger[p].generation \in Nat
        /\ value.generation \in Nat
    BY <1>1 DEF Ledger
  <2> QED
    BY <1>5, <2>1 DEF WorkerInv, RemovalSound, Unlisted
<1> QED
  BY <1>6, <1>7, <1>8, <1>9, <1>10, <1>11 DEF Kept, WorkerInv

\* A conditional write of the manifest.
LEMMA ManifestPutKeeps ==
  ASSUME WorkerInv, UNCHANGED dbVars,
         NEW r \in Slots, NEW access \in Nat, NEW documents, NEW new \in Request,
         documents \in [Publications -> {"absent", "staged", "visible", "retired"}],
         ManifestPut(r, access, documents, new),
         \A p \in Publications : documents[p] # "absent" =>
           manifest.documents[p] # "absent" \/ Adds(request[r], p),
         new.kind # "idle", NEW w, w = manifest.version + 1,
         Knows(new, row[new.publication], ledger[new.publication],
               object[new.publication], w),
         new.pc # "put",
         \A p \in Publications :
           PastRemoval(new, p) => documents[p] = "absent" /\
             (ledger[p].status \in Fenced),
         crashes' \in 0..MaxCrashes
  PROVE  Kept
<1>0. /\ manifest' = [exists |-> TRUE, access |-> access,
                      version |-> manifest.version + 1, documents |-> documents]
      /\ ledger' = ledger /\ object' = object /\ row' = row
      /\ accessVersion' = accessVersion /\ lectureOpen' = lectureOpen
      /\ manifest.version < MaxManifestVersion
  BY DEF ManifestPut, dbVars
<1>1. /\ RecordsTypeOK /\ request \in [Slots -> Request] /\ manifest.version \in Nat
      /\ row \in [Publications -> Row] /\ ledger \in [Publications -> Ledger]
  BY Typed
<1>2. \A s \in Slots :
        request'[s] = IF s = r THEN new ELSE [request[s] EXCEPT !.manifestFresh = FALSE]
  BY <1>1 DEF ManifestPut
<1>3. /\ \A q \in Request : [q EXCEPT !.manifestFresh = FALSE] \in Request
      /\ \A q \in Request : LET n == [q EXCEPT !.manifestFresh = FALSE]
                            IN  /\ n.publication = q.publication /\ n.kind = q.kind
                                /\ n.pc = q.pc /\ n.ledgerFresh = q.ledgerFresh
                                /\ n.seen = q.seen /\ ~n.manifestFresh
  BY DEF Request
<1>4. request' \in [Slots -> Request]
  <2>1. request' = [q \in Slots |-> IF q = r THEN new
                                    ELSE [request[q] EXCEPT !.manifestFresh = FALSE]]
    BY <1>1 DEF ManifestPut
  <2>2. \A q \in Slots : [request[q] EXCEPT !.manifestFresh = FALSE] \in Request
    BY <1>1, <1>3
  <2> QED
    BY <2>1, <2>2
<1>5. /\ manifest'.version = manifest.version + 1 /\ manifest'.exists
      /\ manifest'.documents = documents
  BY <1>0
<1>6. TypeOK'
  <2>1. manifest' \in Manifest
    <3>1. manifest.version + 1 \in 0..MaxManifestVersion
      BY <1>0, <1>1, ManifestBound
    <3> QED
      BY <1>0, <3>1 DEF Manifest
  <2> QED
    BY <1>0, <1>1, <1>4, <2>1 DEF TypeOK, RecordsTypeOK, WorkerInv, Slots
<1>7. ManifestSound'
  BY <1>1, <1>5 DEF ManifestSound
<1>8. LedgersSound'
  <2> SUFFICES ASSUME NEW p \in Publications
               PROVE  RowSound(row[p])
                      /\ LedgerSound(ledger[p], row[p], object[p], manifest.version + 1)
    BY <1>0, <1>5 DEF LedgersSound
  <2>1. ledger[p].version \in Nat
    BY <1>1 DEF Ledger
  <2> QED
    BY <1>1, <2>1 DEF LedgerSound, LedgersSound, WorkerInv
<1>9. ASSUME NEW s \in Slots
      PROVE  SlotSound(s)'
  <2> DEFINE q == request[s]
  <2>0. q \in Request /\ Knows(q, row[q.publication], ledger[q.publication],
                               object[q.publication], manifest.version)
    BY <1>1 DEF WorkerInv, SlotSound
  <2>1. CASE s = r
    <3>1. request'[s] = new
      BY <1>2, <2>1
    <3> QED
      BY <1>0, <1>5, <3>1 DEF SlotSound
  <2>2. CASE s # r
    <3> DEFINE n == [q EXCEPT !.manifestFresh = FALSE]
    <3>1. /\ request'[s] = n /\ n.publication = q.publication /\ n.kind = q.kind
          /\ n \in Request
      BY <1>2, <1>3, <2>0, <2>2
    <3>2. Knows(n, row[q.publication], ledger[q.publication], object[q.publication],
                manifest.version)
      BY <2>0, KnownUnlisted
    <3> HIDE DEF n
    <3>3. Knows(n, row[q.publication], ledger[q.publication], object[q.publication],
                manifest.version + 1)
      <4>1. CASE q.kind = "idle"
        BY <3>1, <3>2, <4>1 DEF Knows, Ticketed
      <4>2. CASE q.kind # "idle"
        <5>1. q.publication \in Publications
          BY <2>0, <4>2 DEF Knows, Addressed
        <5>2. /\ row[q.publication] \in Row /\ manifest.version + 1 \in Nat
              /\ manifest.version <= manifest.version + 1
              /\ row[q.publication].generation <= row[q.publication].generation
          BY <1>1, <5>1 DEF Row
        <5> QED
          BY <1>1, <3>1, <3>2, <5>2, KnownOnward
      <4> QED
        BY <4>1, <4>2
    <3> QED
      BY <1>0, <1>5, <3>1, <3>3 DEF SlotSound
  <2> QED
    BY <2>1, <2>2
<1>10. RemovalSound'
  <2> SUFFICES ASSUME NEW p \in Publications,
                      Closed(p) \/ \E s \in Slots : PastRemoval(request'[s], p)
               PROVE  /\ documents[p] = "absent"
                      /\ \A s \in Slots : ~Adds(request'[s], p)
    BY <1>0, <1>5 DEF RemovalSound, Unlisted, Closed
  <2>0. ASSUME NEW s \in Slots, s # r
        PROVE  /\ request'[s].publication = request[s].publication
               /\ request'[s].kind = request[s].kind /\ request'[s].pc = request[s].pc
               /\ request'[s].seen = request[s].seen
               /\ request'[s].ledgerFresh => request[s].ledgerFresh
               /\ ~request'[s].manifestFresh
    <3>1. request[s] \in Request /\ request'[s] = [request[s] EXCEPT !.manifestFresh = FALSE]
      BY <1>1, <1>2, <2>0
    <3> QED
      BY <3>1 DEF Request
  <2>1. ASSUME NEW s \in Slots
        PROVE  ~Adds(request'[s], p)
    <3>1. CASE s = r
      BY <1>2, <3>1 DEF Adds
    <3>2. CASE s # r
      BY <2>0, <3>2 DEF Adds
    <3> QED
      BY <3>1, <3>2
  <2>2. ASSUME Closed(p) \/ \E s \in Slots : PastRemoval(request[s], p)
        PROVE  documents[p] = "absent"
    <3>1. Unlisted(p)
      BY <2>2 DEF WorkerInv, RemovalSound
    <3> QED
      BY <3>1 DEF Unlisted
  <2>3. ASSUME NEW s \in Slots, PastRemoval(request'[s], p)
        PROVE  documents[p] = "absent"
    <3>1. CASE s = r
      BY <1>2, <2>3, <3>1
    <3>2. CASE s # r
      <4>1. PastRemoval(request[s], p)
        BY <2>0, <2>3, <3>2 DEF PastRemoval
      <4> QED
        BY <2>2, <4>1
    <3> QED
      BY <3>1, <3>2
  <2> QED
    BY <2>1, <2>2, <2>3
<1>11. StoreForward
  <2> SUFFICES ASSUME NEW p \in Publications
               PROVE  /\ ledger[p].generation >= ledger[p].generation
                      /\ Closed(p) => documents[p] = "absent"
    BY <1>0, <1>5 DEF StoreForward
  <2>1. ledger[p].generation \in Nat
    BY <1>1 DEF Ledger
  <2> QED
    BY <2>1 DEF WorkerInv, RemovalSound, Unlisted
<1> QED
  BY <1>6, <1>7, <1>8, <1>9, <1>10, <1>11 DEF Kept, WorkerInv

\* The object of p is stored or replaced by its tombstone.
LEMMA ObjectKeeps ==
  ASSUME WorkerInv, UNCHANGED dbVars, UNCHANGED <<ledger, manifest>>,
         NEW r \in Slots, NEW p \in Publications, NEW b \in {"pdf", "tombstone"},
         NEW new \in Request,
         object' = [object EXCEPT ![p] = b], request' = [request EXCEPT ![r] = new],
         object[p] = "tombstone" => b = "tombstone",
         b = "tombstone" => row[p].state \in Terminal,
         new.kind # "idle" /\ new.publication = p,
         Knows(new, row[p], ledger[p], b, manifest.version),
         new.pc # "put",
         \A q \in Publications : PastRemoval(new, q) => PastRemoval(request[r], q),
         crashes' \in 0..MaxCrashes
  PROVE  Kept
<1>0. /\ ledger' = ledger /\ manifest' = manifest /\ row' = row
      /\ accessVersion' = accessVersion /\ lectureOpen' = lectureOpen
  BY DEF dbVars
<1>1. /\ RecordsTypeOK /\ request \in [Slots -> Request] /\ manifest.version \in Nat
      /\ row \in [Publications -> Row] /\ ledger \in [Publications -> Ledger]
      /\ object \in [Publications -> {"absent", "pdf", "tombstone"}]
  BY Typed
<1>2. /\ request' \in [Slots -> Request]
      /\ \A s \in Slots : request'[s] = IF s = r THEN new ELSE request[s]
  BY <1>1
<1>3. /\ object' \in [Publications -> {"absent", "pdf", "tombstone"}]
      /\ \A q \in Publications : object'[q] = IF q = p THEN b ELSE object[q]
  BY <1>1
<1>4. TypeOK'
  BY <1>0, <1>1, <1>2, <1>3 DEF TypeOK, RecordsTypeOK, WorkerInv, Slots
<1>5. ManifestSound'
  BY <1>0 DEF ManifestSound, WorkerInv
<1>6. LedgersSound'
  <2> SUFFICES ASSUME NEW q \in Publications
               PROVE  RowSound(row[q])
                      /\ LedgerSound(ledger[q], row[q], object'[q], manifest.version)
    BY <1>0 DEF LedgersSound
  <2>1. RowSound(row[q]) /\ LedgerSound(ledger[q], row[q], object[q], manifest.version)
    BY DEF LedgersSound, WorkerInv
  <2>2. CASE q # p
    BY <1>3, <2>1, <2>2
  <2>3. CASE q = p
    <3>1. object'[q] = b
      BY <1>3, <2>3
    <3> QED
      BY <2>1, <2>3, <3>1, RecordedStates DEF LedgerSound
  <2> QED
    BY <2>2, <2>3
<1>7. ASSUME NEW s \in Slots
      PROVE  SlotSound(s)'
  <2> DEFINE q == request[s]
  <2>0. q \in Request /\ Knows(q, row[q.publication], ledger[q.publication],
                               object[q.publication], manifest.version)
    BY <1>1 DEF WorkerInv, SlotSound
  <2>1. CASE s = r
    <3>1. request'[s] = new /\ object'[p] = b
      BY <1>2, <1>3, <2>1
    <3> QED
      BY <1>0, <3>1 DEF SlotSound
  <2>2. CASE s # r /\ q.kind = "idle"
    <3>1. request'[s] = q
      BY <1>2, <2>2
    <3> QED
      BY <2>0, <2>2, <3>1 DEF SlotSound, Knows, Ticketed
  <2>3. CASE s # r /\ q.kind # "idle"
    <3>1. request'[s] = q /\ q.publication \in Publications
      BY <1>2, <2>0, <2>3 DEF Knows, Addressed
    <3>2. Knows(q, row[q.publication], ledger[q.publication], object'[q.publication],
                manifest.version)
      BY <1>3, <2>0, <3>1, KnownStored
    <3> QED
      BY <1>0, <3>1, <3>2 DEF SlotSound
  <2> QED
    BY <2>1, <2>2, <2>3
<1>8. RemovalSound'
  <2> SUFFICES ASSUME NEW q \in Publications,
                      Closed(q) \/ (\E s \in Slots : PastRemoval(request'[s], q))
               PROVE  /\ manifest.documents[q] = "absent"
                      /\ \A s \in Slots : ~Adds(request'[s], q)
    BY <1>0 DEF RemovalSound, Unlisted, Closed
  <2>1. Closed(q) \/ (\E s \in Slots : PastRemoval(request[s], q))
    BY <1>2
  <2>2. Unlisted(q)
    BY <2>1 DEF WorkerInv, RemovalSound
  <2> QED
    BY <1>2, <2>2 DEF Unlisted, Adds
<1>9. StoreForward
  <2> SUFFICES ASSUME NEW q \in Publications
               PROVE  /\ ledger[q].generation >= ledger[q].generation
                      /\ object[q] = "tombstone" => object'[q] = "tombstone"
                      /\ Closed(q) => manifest.documents[q] = "absent"
    BY <1>0 DEF StoreForward
  <2>1. ledger[q].generation \in Nat
    BY <1>1 DEF Ledger
  <2> QED
    BY <1>3, <2>1 DEF WorkerInv, RemovalSound, Unlisted
<1> QED
  BY <1>4, <1>5, <1>6, <1>7, <1>8, <1>9 DEF Kept, WorkerInv

-----------------------------------------------------------------------------
(* One invocation.                                                           *)

\* What an invocation that is running finds.
LEMMA Running ==
  ASSUME WorkerInv, NEW r \in Slots, request[r].kind # "idle"
  PROVE  /\ request[r] \in Request /\ Slot(r) \in Publications
         /\ row[Slot(r)] \in Row /\ ledger[Slot(r)] \in Ledger
         /\ object[Slot(r)] \in {"absent", "pdf", "tombstone"}
         /\ RowSound(row[Slot(r)])
         /\ LedgerSound(ledger[Slot(r)], row[Slot(r)], object[Slot(r)], manifest.version)
         /\ Knows(request[r], row[Slot(r)], ledger[Slot(r)], object[Slot(r)],
                  manifest.version)
         /\ Addressed(request[r], row[Slot(r)], manifest.version)
<1>1. /\ request[r] \in Request
      /\ Knows(request[r], row[Slot(r)], ledger[Slot(r)], object[Slot(r)],
               manifest.version)
  BY Typed DEF WorkerInv, SlotSound, Slot
<1>2. Addressed(request[r], row[Slot(r)], manifest.version)
  BY <1>1 DEF Knows
<1>3. Slot(r) \in Publications
  BY <1>2 DEF Addressed, Slot
<1>4. /\ RowSound(row[Slot(r)])
      /\ LedgerSound(ledger[Slot(r)], row[Slot(r)], object[Slot(r)], manifest.version)
  BY <1>3 DEF WorkerInv, LedgersSound
<1>5. /\ row[Slot(r)] \in Row /\ ledger[Slot(r)] \in Ledger
      /\ object[Slot(r)] \in {"absent", "pdf", "tombstone"}
  BY <1>3, Typed
<1> QED
  BY <1>1, <1>2, <1>3, <1>4, <1>5

\* The same invocation, further on.
Same(q, n) ==
  /\ n.kind = q.kind /\ n.publication = q.publication
  /\ n.generation = q.generation /\ n.operation = q.operation

\* An upload or status request that goes on knows what Uploading asks of it.
LEMMA KnowsUploading ==
  ASSUME NEW q, NEW n, NEW r, NEW l, NEW o, NEW m, NEW b, NEW v, NEW w,
         Knows(q, r, l, o, v), Same(q, n), n.version <= w,
         q.kind \in {"upload", "status"}, Uploading(n, m, b)
  PROVE  Knows(n, r, m, b, w)
<1>1. Addressed(n, r, w)
  BY DEF Knows, Addressed, Same
<1> QED
  BY <1>1 DEF Knows, Same, Ticketed

\* A ticket that goes on knows what Changing asks of it.
LEMMA KnowsChanging ==
  ASSUME NEW q, NEW n, NEW r, NEW l, NEW o, NEW m, NEW b, NEW v, NEW w,
         Knows(q, r, l, o, v), Same(q, n), n.version <= w,
         q.kind \in Ticketed, Changing(n, m, b)
  PROVE  Knows(n, r, m, b, w)
<1>1. Addressed(n, r, w)
  BY DEF Knows, Addressed, Same, Ticketed
<1> QED
  BY <1>1 DEF Knows, Same, Ticketed

\* A cleanup pass that goes on knows what Cleaning asks of it.
LEMMA KnowsCleaning ==
  ASSUME NEW q, NEW n, NEW r, NEW l, NEW o, NEW m, NEW b, NEW v, NEW w,
         Knows(q, r, l, o, v), Same(q, n), n.version <= w,
         q.kind = "cleanup", Cleaning(n, m, b)
  PROVE  Knows(n, r, m, b, w)
<1>1. Addressed(n, r, w)
  BY DEF Knows, Addressed, Same
<1> QED
  BY <1>1 DEF Knows, Same, Ticketed

\* The same invocation with another pc; with the ledger loaded; with the
\* manifest loaded.
Moved(q, n, c) ==
  /\ Same(q, n) /\ n.pc = c /\ n.version = q.version
  /\ n.ledgerFresh = q.ledgerFresh /\ n.manifestFresh = q.manifestFresh
  /\ n.seen = q.seen

Loaded(q, n, c, l) ==
  /\ Same(q, n) /\ n.pc = c /\ n.version = q.version
  /\ n.ledgerFresh /\ n.manifestFresh = q.manifestFresh
  /\ n.seen = l

Decided(q, n, c, v) ==
  /\ Same(q, n) /\ n.pc = c /\ n.version = v
  /\ n.ledgerFresh = q.ledgerFresh /\ n.manifestFresh
  /\ n.seen = q.seen

\* The ledger that is not there is well formed.
LEMMA NoLedgerTyped == NoLedger \in Ledger
BY GenerationBound DEF NoLedger, Ledger, LedgerStatus

\* A free slot is well formed and holds nothing.
LEMMA IdleTyped ==
  /\ Idle \in Request /\ Idle.kind = "idle" /\ Idle.pc = ""
  /\ ~Idle.ledgerFresh /\ ~Idle.manifestFresh
<1>1. NoPublication \in Publications \cup {NoPublication}
  OBVIOUS
<1>2. 0 \in 0..MaxGeneration /\ 0 \in Nat
  BY GenerationBound
<1>0. "" \in Pcs
  BY DEF Pcs
<1>3. {} \in SUBSET {VersionOf[p] : p \in Publications}
  BY Zenon
<1>4. Idle \in Request
  <2> DEFINE Kind == {"idle", "upload", "status", "commit", "activate", "abort",
                      "rollback", "cleanup"}
             P == Publications \cup {NoPublication}
             G == 0..MaxGeneration
             V == SUBSET {VersionOf[p] : p \in Publications}
  <2>1. "idle" \in Kind /\ NoPublication \in P /\ 0 \in G /\ {} \in V
    BY <1>1, <1>2, <1>3
  <2>2. Request = [kind : Kind, pc : Pcs, publication : P, generation : G,
                   operation : Nat, previousAccess : Nat, targetAccess : Nat,
                   databaseAccess : Nat, seen : Ledger, ledgerFresh : BOOLEAN,
                   manifestFresh : BOOLEAN, version : Nat, prior : V]
    BY DEF Request
  <2> HIDE DEF Kind, P, G, V
  <2> QED
    BY <1>0, <1>2, <2>1, <2>2, NoLedgerTyped DEF Idle
<1> QED
  BY <1>4 DEF Idle

\* An invocation ends.
LEMMA FinishKeeps ==
  ASSUME WorkerInv, RowsFit, NEW r \in Slots, Finish(r), crashes' \in 0..MaxCrashes
  PROVE  Kept
<1>1. \A p : ~Adds(Idle, p) /\ ~PastRemoval(Idle, p)
  BY IdleTyped DEF Adds, PastRemoval
<1>2. Become(r, Idle)
  BY DEF Finish
<1> QED
  BY <1>1, <1>2, IdleTyped, MoveKeeps

\* An invocation goes on, without having come to a manifest put or past a
\* removal.
LEMMA OnwardKeeps ==
  ASSUME WorkerInv, RowsFit, NEW r \in Slots, NEW new \in Request, Become(r, new),
         request[r].kind # "idle", Same(request[r], new),
         Knows(new, row'[Slot(r)], ledger[Slot(r)], object[Slot(r)], manifest.version),
         new.pc \notin {"put", "tombstone", "close"},
         crashes' \in 0..MaxCrashes
  PROVE  Kept
<1>1. \A p : ~Adds(new, p) /\ ~PastRemoval(new, p)
  BY DEF Adds, PastRemoval
<1>2. new.publication = Slot(r) /\ new.kind # "idle"
  BY DEF Same, Slot
<1> QED
  BY <1>1, <1>2, MoveKeeps

\* It goes on without reading anything.
LEMMA GotoKeeps ==
  ASSUME WorkerInv, RowsFit, NEW r \in Slots, NEW c \in Pcs, Goto(r, c),
         request[r].kind # "idle", c \notin {"put", "tombstone", "close"},
         \A n \in Request : Moved(request[r], n, c) =>
           Knows(n, row'[Slot(r)], ledger[Slot(r)], object[Slot(r)], manifest.version),
         crashes' \in 0..MaxCrashes
  PROVE  Kept
<1> DEFINE n == [request[r] EXCEPT !.pc = c]
<1>1. Become(r, n) /\ n = [request[r] EXCEPT !.pc = c] /\ request[r] \in Request
  BY Running DEF Goto
<1> HIDE DEF n
<1>2. n \in Request /\ Moved(request[r], n, c)
  BY <1>1 DEF Request, Same, Moved
<1>3. Same(request[r], n) /\ n.pc = c
  BY <1>2 DEF Moved
<1>4. Knows(n, row'[Slot(r)], ledger[Slot(r)], object[Slot(r)], manifest.version)
  BY <1>2
<1> QED
  BY <1>1, <1>2, <1>3, <1>4, OnwardKeeps

\* It goes on with the ledger it just read.
LEMMA LoadLedgerKeeps ==
  ASSUME WorkerInv, RowsFit, NEW r \in Slots, NEW c \in Pcs, LoadLedger(r, c),
         request[r].kind # "idle", c \notin {"put", "tombstone", "close"},
         \A n \in Request : Loaded(request[r], n, c, ledger[Slot(r)]) =>
           Knows(n, row'[Slot(r)], ledger[Slot(r)], object[Slot(r)], manifest.version),
         crashes' \in 0..MaxCrashes
  PROVE  Kept
<1> DEFINE l == ledger[Slot(r)]
           n == [request[r] EXCEPT !.pc = c, !.ledgerFresh = TRUE, !.seen = l]
<1>1. /\ Become(r, n) /\ n = [request[r] EXCEPT !.pc = c, !.ledgerFresh = TRUE, !.seen = l]
      /\ request[r] \in Request /\ l \in Ledger
  BY Running DEF LoadLedger, LedgerOf, Slot
<1> HIDE DEF n, l
<1>2. n \in Request /\ Loaded(request[r], n, c, l)
  BY <1>1 DEF Request, Same, Loaded
<1>3. Same(request[r], n) /\ n.pc = c
  BY <1>2 DEF Loaded
<1>4. Knows(n, row'[Slot(r)], ledger[Slot(r)], object[Slot(r)], manifest.version)
  BY <1>2 DEF l
<1> QED
  BY <1>1, <1>2, <1>3, <1>4, OnwardKeeps

\* It goes on with the manifest it just read.
LEMMA LoadManifestKeeps ==
  ASSUME WorkerInv, RowsFit, NEW r \in Slots, NEW c \in Pcs,
         NEW x \in SUBSET {VersionOf[p] : p \in Publications}, LoadManifest(r, c, x),
         request[r].kind # "idle", c \notin {"put", "tombstone", "close"},
         \A n \in Request : Decided(request[r], n, c, manifest.version) =>
           Knows(n, row'[Slot(r)], ledger[Slot(r)], object[Slot(r)], manifest.version),
         crashes' \in 0..MaxCrashes
  PROVE  Kept
<1> DEFINE v == manifest.version
           n == [request[r] EXCEPT !.pc = c, !.manifestFresh = TRUE, !.version = v,
                                   !.prior = x]
<1>1. /\ Become(r, n) /\ request[r] \in Request /\ v \in Nat
      /\ n = [request[r] EXCEPT !.pc = c, !.manifestFresh = TRUE, !.version = v,
                                !.prior = x]
  BY Running, Typed DEF LoadManifest
<1> HIDE DEF n, v
<1>2. n \in Request /\ Decided(request[r], n, c, v)
  BY <1>1 DEF Request, Same, Decided
<1>3. Same(request[r], n) /\ n.pc = c
  BY <1>2 DEF Decided
<1>4. Knows(n, row'[Slot(r)], ledger[Slot(r)], object[Slot(r)], manifest.version)
  BY <1>2 DEF v
<1> QED
  BY <1>1, <1>2, <1>3, <1>4, OnwardKeeps

-----------------------------------------------------------------------------
(* Uploads and status requests.                                              *)

\* UploadLoad goes where the generation and status of the ledger send it.
LEMMA UploadLoadKeeps ==
  ASSUME WorkerInv, NEW r \in Slots, UploadLoad(r), crashes' \in 0..MaxCrashes
  PROVE  Kept
<1>0. RowsFit /\ row' = row
  BY StillFits DEF UploadLoad, dbVars
<1>1. /\ request[r].kind = "upload" /\ request[r].pc = "load"
      /\ request[r].kind # "idle"
  BY DEF UploadLoad, At
<1> DEFINE p == Slot(r)
           l == ledger[p]
           g == request[r].generation
<1>2. /\ request[r] \in Request /\ p \in Publications /\ l \in Ledger
      /\ Knows(request[r], row[p], l, object[p], manifest.version)
      /\ Addressed(request[r], row[p], manifest.version)
      /\ LedgerSound(l, row[p], object[p], manifest.version)
  BY <1>1, Running
<1>3. LedgerOf(r) = l /\ l.generation \in Nat /\ g \in Nat /\ g >= 1
  BY <1>1, <1>2 DEF LedgerOf, Slot, Ledger, Request, Addressed
<1>4. ASSUME NEW c \in {"claim", "record", "recover"}, LoadLedger(r, c),
             c = "claim" => l.generation < g /\ l.status \in {"absent", "receiving"},
             c = "record" => /\ l.generation = g /\ object[p] # "absent"
                             /\ l.status \in {"uploaded", "committed", "active"},
             c = "recover" => l.generation = g /\ l.status = "receiving"
      PROVE  Kept
  <2>1. ASSUME NEW n \in Request, Loaded(request[r], n, c, l)
        PROVE  Knows(n, row'[p], l, object[p], manifest.version)
    <3>1. Uploading(n, l, object[p])
      BY <1>3, <1>4, <2>1 DEF Uploading, Same, Loaded
    <3>2. Same(request[r], n) /\ n.version <= manifest.version
      BY <1>2, <2>1 DEF Addressed, Loaded
    <3> QED
      BY <1>0, <1>1, <1>2, <3>1, <3>2, KnowsUploading
  <2>2. c \in Pcs
    BY DEF Pcs
  <2> QED
    BY <1>0, <1>1, <1>4, <2>1, <2>2, LoadLedgerKeeps
<1>5. CASE l.status = "absent" \/ (l.generation < g /\ l.status = "receiving")
  <2>1. l.generation < g
    BY <1>2, <1>3, <1>5 DEF LedgerSound
  <2>2. LoadLedger(r, "claim") \/ Finish(r)
    BY <1>3, <1>5 DEF UploadLoad, Slot
  <2> QED
    BY <1>0, <1>4, <1>5, <2>1, <2>2, FinishKeeps
<1>6. CASE ~(l.status = "absent" \/ (l.generation < g /\ l.status = "receiving"))
  <2>1. \/ /\ l.generation = g /\ l.status \in {"uploaded", "committed", "active"}
           /\ object[p] = "pdf" /\ LoadLedger(r, "record")
        \/ l.generation = g /\ l.status = "receiving" /\ LoadLedger(r, "recover")
        \/ Finish(r)
    BY <1>3, <1>6 DEF UploadLoad, Verified, Slot
  <2> QED
    BY <1>0, <1>4, <2>1, FinishKeeps
<1> QED
  BY <1>5, <1>6

\* UploadClaim: a nonce moves the row forward and the bucket stays as it is.
LEMMA UploadClaimKeeps ==
  ASSUME WorkerInv, NEW r \in Slots, UploadClaim(r), crashes' \in 0..MaxCrashes
  PROVE  Kept
<1>1. /\ request[r].kind = "upload" /\ request[r].pc = "claim"
      /\ request[r].kind # "idle"
  BY DEF UploadClaim, At
<1> DEFINE p == Slot(r)
           l == ledger[p]
<1>2. /\ request[r] \in Request /\ p \in Publications
      /\ request[r].generation \in 1..MaxGeneration
      /\ Knows(request[r], row[p], l, object[p], manifest.version)
      /\ request[r].version <= manifest.version
  <2>1. request[r].generation >= 1 /\ request[r].generation \in 0..MaxGeneration
        /\ request[r].version <= manifest.version
    BY <1>1, Running DEF Addressed, Request
  <2> QED
    BY <1>1, <2>1, Running, GenerationBound
<1>3. RowsFit
  <2>1. PlainStep
    BY <1>2 DEF UploadClaim, PlainStep, Slot
  <2> QED
    BY <2>1, PlainFits
<1>4. CASE Finish(r)
  BY <1>3, <1>4, FinishKeeps
<1>5. CASE Goto(r, "open")
  <2>1. "open" \in Pcs
    BY DEF Pcs
  <2>2. ASSUME NEW n \in Request, Moved(request[r], n, "open")
        PROVE  Knows(n, row'[p], l, object[p], manifest.version)
    <3>1. Uploading(request[r], l, object[p])
      BY <1>1, <1>2 DEF Knows
    <3>2. Uploading(n, l, object[p]) /\ Same(request[r], n)
          /\ n.version <= manifest.version
      BY <1>1, <1>2, <2>2, <3>1 DEF Uploading, Same, Moved
    <3>3. Knows(n, row[p], l, object[p], manifest.version)
      BY <1>1, <1>2, <3>2, KnowsUploading
    <3>4. /\ row[p] \in Row /\ row'[p] \in Row /\ manifest.version \in Nat
          /\ manifest.version <= manifest.version
          /\ row[p].generation <= row'[p].generation
          /\ row[p].state \in Terminal => row'[p].state \in Terminal
      BY <1>2, <1>3, Typed DEF RowsFit, RecordsTypeOK
    <3> QED
      BY <3>3, <3>4, KnownOnward
  <2> QED
    BY <1>1, <1>3, <1>5, <2>1, <2>2, GotoKeeps
<1> QED
  BY <1>4, <1>5 DEF UploadClaim

\* What an upload or a status request finds.
LEMMA UploadFinds ==
  ASSUME WorkerInv, NEW r \in Slots, request[r].kind \in {"upload", "status"}
  PROVE  LET p == Slot(r)
             l == ledger[p]
             g == request[r].generation
         IN  /\ request[r] \in Request /\ request[r].kind # "idle"
             /\ p \in Publications /\ l \in Ledger /\ LedgerOf(r) = l
             /\ row[p] \in Row /\ RowSound(row[p])
             /\ LedgerSound(l, row[p], object[p], manifest.version)
             /\ Knows(request[r], row[p], l, object[p], manifest.version)
             /\ Uploading(request[r], l, object[p])
             /\ request[r].version <= manifest.version
             /\ g <= row[p].generation
             /\ l.generation \in Nat /\ g \in 0..MaxGeneration
             /\ row[p].generation \in Nat /\ manifest.version \in Nat
<1>1. request[r].kind # "idle"
  OBVIOUS
<1> DEFINE p == Slot(r)
           l == ledger[p]
<1>2. /\ request[r] \in Request /\ p \in Publications /\ l \in Ledger /\ row[p] \in Row
      /\ RowSound(row[p])
      /\ LedgerSound(l, row[p], object[p], manifest.version)
      /\ Knows(request[r], row[p], l, object[p], manifest.version)
      /\ Addressed(request[r], row[p], manifest.version)
  BY <1>1, Running
<1>3. Uploading(request[r], l, object[p])
  BY <1>2 DEF Knows
<1>4. /\ l.generation \in Nat /\ request[r].generation \in 0..MaxGeneration
      /\ row[p].generation \in Nat /\ manifest.version \in Nat
  BY <1>2, Typed, GenerationBound DEF Ledger, Request, Row
<1>5. LedgerOf(r) = l
  BY DEF LedgerOf, Slot
<1> QED
  BY <1>1, <1>2, <1>3, <1>4, <1>5 DEF Addressed

\* An upload or a status request writes "uploaded" into the ledger it holds.
LEMMA UploadedKeeps ==
  ASSUME WorkerInv, UNCHANGED dbVars, NEW r \in Slots,
         request[r].kind \in {"upload", "status"}, request[r].pc \in {"recover", "stored"},
         request[r].ledgerFresh, Verified(Slot(r)),
         LedgerPut(r, Slot(r), [LedgerOf(r) EXCEPT !.status = "uploaded"],
                   [request[r] EXCEPT !.pc = "record"]),
         crashes' \in 0..MaxCrashes
  PROVE  Kept
<1> DEFINE p == Slot(r)
           l == ledger[p]
           g == request[r].generation
           m == [l EXCEPT !.status = "uploaded"]
           n == [request[r] EXCEPT !.pc = "record"]
<1>1. /\ request[r] \in Request /\ request[r].kind # "idle"
      /\ p \in Publications /\ l \in Ledger /\ LedgerOf(r) = l
      /\ LedgerSound(l, row[p], object[p], manifest.version)
      /\ Knows(request[r], row[p], l, object[p], manifest.version)
      /\ Uploading(request[r], l, object[p])
      /\ request[r].version <= manifest.version
      /\ l.generation \in Nat
  BY UploadFinds
<1>2. /\ l.generation = g /\ l.status # "cleanup_complete" /\ object[p] = "pdf"
  BY <1>1 DEF Uploading, Verified
<1>3. LedgerPut(r, p, m, n)
  BY <1>1
<1>4. /\ m \in Ledger /\ m.status = "uploaded" /\ m.generation = l.generation
      /\ m.version = l.version
  <2>1. "uploaded" \in LedgerStatus
    BY DEF LedgerStatus
  <2> QED
    BY <1>1, <2>1 DEF Ledger
<1>5. n \in Request /\ Moved(request[r], n, "record")
  <2>1. "record" \in Pcs
    BY DEF Pcs
  <2> QED
    BY <1>1, <2>1 DEF Request, Same, Moved
<1> HIDE DEF m, n
<1>6. LedgerSound(m, row[p], object[p], manifest.version)
  BY <1>1, <1>2, <1>4 DEF LedgerSound, Activatable
<1>7. Knows(n, row[p], m, object[p], manifest.version)
  <2>1. Uploading(n, m, object[p])
    BY <1>1, <1>2, <1>4, <1>5 DEF Uploading, Moved, Same
  <2> QED
    BY <1>1, <1>5, <2>1, KnowsUploading DEF Moved
<1>8. n.publication = p /\ n.kind # "idle" /\ n.pc = "record"
  BY <1>1, <1>5 DEF Moved, Same, Slot
<1>9. ~Closed(p) /\ l.generation <= m.generation
  BY <1>1, <1>2, <1>4 DEF Closed
<1> QED
  BY <1>1, <1>3, <1>4, <1>5, <1>6, <1>7, <1>8, <1>9, LedgerPutKeeps

\* An upload opens the ledger of its generation.
LEMMA OpenedKeeps ==
  ASSUME WorkerInv, UNCHANGED dbVars, NEW r \in Slots, At(r, "upload", "open"),
         request[r].ledgerFresh, NEW status, NEW c,
         \/ status = "uploaded" /\ c = "record" /\ Verified(Slot(r))
         \/ status = "receiving" /\ c = "body",
         LedgerPut(r, Slot(r),
                   [NoLedger EXCEPT !.status = status,
                                    !.generation = request[r].generation],
                   [request[r] EXCEPT !.pc = c, !.ledgerFresh = TRUE]),
         crashes' \in 0..MaxCrashes
  PROVE  Kept
<1> DEFINE p == Slot(r)
           l == ledger[p]
           g == request[r].generation
           m == [NoLedger EXCEPT !.status = status, !.generation = g]
           n == [request[r] EXCEPT !.pc = c, !.ledgerFresh = TRUE]
<1>0. request[r].kind = "upload" /\ request[r].pc = "open"
  BY DEF At
<1>1. /\ request[r] \in Request /\ request[r].kind # "idle"
      /\ p \in Publications /\ l \in Ledger /\ row[p].generation \in Nat
      /\ LedgerSound(l, row[p], object[p], manifest.version)
      /\ Knows(request[r], row[p], l, object[p], manifest.version)
      /\ Uploading(request[r], l, object[p])
      /\ request[r].version <= manifest.version /\ g <= row[p].generation
      /\ l.generation \in Nat /\ g \in 0..MaxGeneration /\ manifest.version \in Nat
  BY <1>0, UploadFinds
<1>2. l.generation < g /\ l.status # "cleanup_complete" /\ g \in Nat
  BY <1>0, <1>1, GenerationBound DEF Uploading
<1>4. /\ m \in Ledger /\ m.status = status /\ m.generation = g /\ m.version = 0
  <2>1. status \in LedgerStatus
    BY DEF LedgerStatus
  <2>2. m.status = status /\ m.generation = g /\ m.version = 0
    BY DEF NoLedger
  <2>3. m \in Ledger
    BY <1>1, <2>1, NoLedgerTyped DEF Ledger
  <2> QED
    BY <2>2, <2>3
<1>5. n \in Request /\ Same(request[r], n) /\ n.pc = c /\ n.version = request[r].version
      /\ n.ledgerFresh
  <2>1. c \in Pcs
    BY DEF Pcs
  <2> QED
    BY <1>1, <2>1 DEF Request, Same
<1> HIDE DEF m, n
<1>6. LedgerSound(m, row[p], object[p], manifest.version)
  BY <1>1, <1>2, <1>4 DEF LedgerSound, Activatable, Verified
<1>7. Knows(n, row[p], m, object[p], manifest.version)
  <2>1. Uploading(n, m, object[p])
    BY <1>0, <1>1, <1>2, <1>4, <1>5 DEF Uploading, Same, Verified
  <2> QED
    BY <1>0, <1>1, <1>5, <2>1, KnowsUploading
<1>8. n.publication = p /\ n.kind # "idle" /\ n.pc \notin {"put", "tombstone", "close"}
  BY <1>1, <1>5 DEF Same, Slot
<1>9. ~Closed(p) /\ l.generation <= m.generation /\ m.status # "cleanup_complete"
  BY <1>1, <1>2, <1>4 DEF Closed
<1>10. LedgerPut(r, p, m, n)
  BY DEF m, n
<1> QED
  BY <1>4, <1>5, <1>6, <1>7, <1>8, <1>9, <1>1, <1>10, LedgerPutKeeps

\* UploadOpen: the new ledger is of a later generation, and the fresh one it
\* replaces was absent or still receiving.
LEMMA UploadOpenKeeps ==
  ASSUME WorkerInv, NEW r \in Slots, UploadOpen(r), crashes' \in 0..MaxCrashes
  PROVE  Kept
<1>0. /\ UNCHANGED dbVars /\ RowsFit /\ row' = row
      /\ request[r].kind = "upload" /\ request[r].pc = "open" /\ At(r, "upload", "open")
  BY StillFits DEF UploadOpen, dbVars, At
<1> DEFINE p == Slot(r)
           l == ledger[p]
           g == request[r].generation
<1>1. /\ LedgerOf(r) = l /\ request[r].kind # "idle"
      /\ Knows(request[r], row[p], l, object[p], manifest.version)
      /\ request[r].version <= manifest.version
  BY <1>0, UploadFinds
<1>2. \/ /\ request[r].ledgerFresh /\ Verified(p)
         /\ LedgerPut(r, p, [NoLedger EXCEPT !.status = "uploaded", !.generation = g],
                      [request[r] EXCEPT !.pc = "record", !.ledgerFresh = TRUE])
      \/ /\ request[r].ledgerFresh
         /\ LedgerPut(r, p, [NoLedger EXCEPT !.status = "receiving", !.generation = g],
                      [request[r] EXCEPT !.pc = "body", !.ledgerFresh = TRUE])
      \/ LedgerBound(r) /\ LedgerOf(r).status = "receiving" /\ LoadLedger(r, "body")
      \/ Finish(r)
  BY DEF UploadOpen, Slot
<1>3. CASE LedgerBound(r) /\ LedgerOf(r).status = "receiving" /\ LoadLedger(r, "body")
  <2>1. ASSUME NEW n \in Request, Loaded(request[r], n, "body", l)
        PROVE  Knows(n, row'[p], l, object[p], manifest.version)
    <3>1. Uploading(n, l, object[p])
      BY <1>0, <1>1, <1>3, <2>1 DEF Uploading, Loaded, Same, LedgerBound
    <3> QED
      BY <1>0, <1>1, <2>1, <3>1, KnowsUploading DEF Loaded
  <2>2. "body" \in Pcs
    BY DEF Pcs
  <2> QED
    BY <1>0, <1>1, <1>3, <2>1, <2>2, LoadLedgerKeeps
<1> QED
  BY <1>0, <1>2, <1>3, OpenedKeeps, FinishKeeps

\* Recover: the ledger only becomes "uploaded" when the PDF is there.
LEMMA RecoverKeeps ==
  ASSUME WorkerInv, NEW r \in Slots, Recover(r), crashes' \in 0..MaxCrashes
  PROVE  Kept
<1>0. /\ UNCHANGED dbVars /\ RowsFit /\ row' = row
      /\ request[r].kind \in {"upload", "status"} /\ request[r].pc = "recover"
  BY StillFits DEF Recover, dbVars
<1> DEFINE p == Slot(r)
           l == ledger[p]
           g == request[r].generation
<1>1. /\ LedgerOf(r) = l /\ request[r].kind # "idle"
      /\ LedgerSound(l, row[p], object[p], manifest.version)
      /\ Knows(request[r], row[p], l, object[p], manifest.version)
      /\ Uploading(request[r], l, object[p])
      /\ request[r].version <= manifest.version
      /\ l.generation \in Nat
  BY <1>0, UploadFinds
<1>2. \/ Finish(r)
      \/ Goto(r, "body")
      \/ /\ Verified(p) /\ request[r].ledgerFresh
         /\ LedgerPut(r, p, [LedgerOf(r) EXCEPT !.status = "uploaded"],
                      [request[r] EXCEPT !.pc = "record"])
      \/ Verified(p) /\ LedgerBound(r) /\ LoadLedger(r, "body")
      \/ Verified(p) /\ LedgerBound(r) /\ LoadLedger(r, "record")
  BY DEF Recover, Slot
<1>3. CASE Goto(r, "body")
  <2>1. ASSUME NEW n \in Request, Moved(request[r], n, "body")
        PROVE  Knows(n, row'[p], l, object[p], manifest.version)
    <3>1. Uploading(n, l, object[p])
      BY <1>0, <1>1, <2>1 DEF Uploading, Moved, Same
    <3> QED
      BY <1>0, <1>1, <2>1, <3>1, KnowsUploading DEF Moved
  <2>2. "body" \in Pcs
    BY DEF Pcs
  <2> QED
    BY <1>0, <1>1, <1>3, <2>1, <2>2, GotoKeeps
<1>4. ASSUME NEW c \in {"body", "record"},
             Verified(p), LedgerBound(r), LoadLedger(r, c)
      PROVE  Kept
  <2>1. ASSUME NEW n \in Request, Loaded(request[r], n, c, l)
        PROVE  Knows(n, row'[p], l, object[p], manifest.version)
    <3>1. l.status # "cleanup_complete" /\ l.generation = g /\ object[p] # "absent"
      BY <1>1, <1>4 DEF LedgerSound, Verified, LedgerBound
    <3>2. Uploading(n, l, object[p])
      BY <1>0, <1>1, <1>4, <2>1, <3>1 DEF Uploading, Loaded, Same
    <3> QED
      BY <1>0, <1>1, <2>1, <3>2, KnowsUploading DEF Loaded
  <2>2. c \in Pcs
    BY DEF Pcs
  <2> QED
    BY <1>0, <1>1, <1>4, <2>1, <2>2, LoadLedgerKeeps
<1> QED
  BY <1>0, <1>2, <1>3, <1>4, UploadedKeeps, FinishKeeps

\* UploadBody: bytes are never stored over a tombstone.
LEMMA UploadBodyKeeps ==
  ASSUME WorkerInv, NEW r \in Slots, UploadBody(r), crashes' \in 0..MaxCrashes
  PROVE  Kept
<1>0. /\ UNCHANGED dbVars /\ RowsFit
      /\ request[r].kind = "upload" /\ request[r].pc = "body"
  BY StillFits DEF UploadBody, At
<1> DEFINE p == Slot(r)
           n == [request[r] EXCEPT !.pc = "stored"]
<1>1. /\ request[r] \in Request /\ p \in Publications
      /\ Knows(request[r], row[p], ledger[p], object[p], manifest.version)
      /\ Uploading(request[r], ledger[p], object[p])
      /\ request[r].version <= manifest.version
  BY <1>0, UploadFinds
<1>2. CASE Finish(r)
  BY <1>0, <1>2, FinishKeeps
<1>3. CASE ~Finish(r)
  <2>1. /\ object[p] # "tombstone" /\ object' = [object EXCEPT ![p] = "pdf"]
        /\ UNCHANGED <<ledger, manifest>>
        /\ request' = [request EXCEPT ![r].pc = "stored"]
    BY <1>3 DEF UploadBody, Slot
  <2>2. request' = [request EXCEPT ![r] = n]
    BY <2>1
  <2>3. n \in Request /\ Moved(request[r], n, "stored")
    <3>1. "stored" \in Pcs
      BY DEF Pcs
    <3> QED
      BY <1>1, <3>1 DEF Request, Same, Moved
  <2> HIDE DEF n
  <2>4. Uploading(n, ledger[p], "pdf")
    BY <1>0, <1>1, <2>3 DEF Uploading, Moved, Same
  <2>5. Knows(n, row[p], ledger[p], "pdf", manifest.version)
    BY <1>0, <1>1, <2>3, <2>4, KnowsUploading DEF Moved
  <2>6. /\ n.kind # "idle" /\ n.publication = p /\ n.pc # "put"
        /\ \A q \in Publications : ~PastRemoval(n, q)
    BY <1>0, <2>3 DEF Moved, Same, Slot, PastRemoval
  <2> QED
    BY <1>0, <1>1, <2>1, <2>2, <2>3, <2>5, <2>6, ObjectKeeps
<1> QED
  BY <1>2, <1>3

\* UploadStored: the fresh ledger is of the ticket's own generation.
LEMMA UploadStoredKeeps ==
  ASSUME WorkerInv, NEW r \in Slots, UploadStored(r), crashes' \in 0..MaxCrashes
  PROVE  Kept
<1>0. /\ UNCHANGED dbVars /\ RowsFit
      /\ request[r].kind \in {"upload", "status"} /\ request[r].pc \in {"recover", "stored"}
  BY StillFits DEF UploadStored, At
<1>1. \/ Finish(r)
      \/ /\ Verified(Slot(r)) /\ request[r].ledgerFresh
         /\ LedgerPut(r, Slot(r), [LedgerOf(r) EXCEPT !.status = "uploaded"],
                      [request[r] EXCEPT !.pc = "record"])
  BY DEF UploadStored, Slot
<1> QED
  BY <1>0, <1>1, FinishKeeps, UploadedKeeps

\* StatusLoad: a ledger past "receiving" means that the bytes are there.
LEMMA StatusLoadKeeps ==
  ASSUME WorkerInv, NEW r \in Slots, StatusLoad(r), crashes' \in 0..MaxCrashes
  PROVE  Kept
<1>0. /\ UNCHANGED dbVars /\ RowsFit /\ row' = row
      /\ request[r].kind = "status" /\ request[r].pc = "load"
  BY StillFits DEF StatusLoad, dbVars, At
<1> DEFINE p == Slot(r)
           l == ledger[p]
           g == request[r].generation
<1>1. /\ LedgerOf(r) = l /\ request[r].kind # "idle"
      /\ LedgerSound(l, row[p], object[p], manifest.version)
      /\ Knows(request[r], row[p], l, object[p], manifest.version)
      /\ request[r].version <= manifest.version
      /\ l.generation \in Nat
  BY <1>0, UploadFinds
<1>2. \/ Finish(r)
      \/ /\ LedgerBound(r) /\ l.status \in {"uploaded", "committed", "active"}
         /\ LoadLedger(r, "record")
      \/ LedgerBound(r) /\ l.status = "receiving" /\ LoadLedger(r, "recover")
  BY <1>1 DEF StatusLoad
<1>3. ASSUME NEW c \in {"record", "recover"}, LedgerBound(r), LoadLedger(r, c),
             IF c = "record" THEN l.status \in {"uploaded", "committed", "active"}
                             ELSE l.status = "receiving"
      PROVE  Kept
  <2>1. ASSUME NEW n \in Request, Loaded(request[r], n, c, l)
        PROVE  Knows(n, row'[p], l, object[p], manifest.version)
    <3>1. l.generation = g /\ (c = "record" => object[p] # "absent")
      BY <1>1, <1>3 DEF LedgerSound, LedgerBound, Activatable
    <3>2. Uploading(n, l, object[p])
      BY <1>0, <1>1, <1>3, <2>1, <3>1 DEF Uploading, Loaded, Same
    <3> QED
      BY <1>0, <1>1, <2>1, <3>2, KnowsUploading DEF Loaded
  <2>2. c \in Pcs
    BY DEF Pcs
  <2> QED
    BY <1>0, <1>1, <1>3, <2>1, <2>2, LoadLedgerKeeps
<1> QED
  BY <1>0, <1>2, <1>3, FinishKeeps

\* The receipt of the bytes reaches the database.
LEMMA ReceiptFits ==
  ASSUME WorkerInv, NEW p \in Publications, NEW g \in 0..MaxGeneration, RecordUploaded(p, g),
         object[p] # "absent", g <= ledger[p].generation
  PROVE  RowsFit
<1> DEFINE r == row[p]
           late == IF r.state = "aborted" \/ ~lectureOpen THEN "aborted" ELSE "expired"
<1>1. /\ RecordsTypeOK /\ row \in [Publications -> Row] /\ r \in Row /\ RowSound(r)
      /\ ledger[p] \in Ledger
      /\ LedgerSound(ledger[p], r, object[p], manifest.version)
      /\ object \in [Publications -> {"absent", "pdf", "tombstone"}]
  BY Typed DEF WorkerInv, LedgersSound
<1>2. /\ g # 0 /\ r.attempt = g /\ r.state \in Discarded \cup {"pending"}
  BY DEF RecordUploaded, ReceiptExpected
<1>3. /\ r.generation \in Nat /\ ledger[p].generation \in Nat /\ g \in Nat
      /\ ledger[p].generation <= r.generation
  BY <1>1, GenerationBound DEF Row, Ledger, LedgerSound
<1>4. PICK new \in Row :
        /\ Update(p, new) /\ RowSound(new) /\ new.generation = r.generation
        /\ new.cleanup # "done"
        /\ \/ r.state = "pending" /\ new.state = "uploaded"
           \/ new.state \in Discarded
  <2>1. ASSUME r.state = "pending",
               Update(p, [r EXCEPT !.state = "uploaded", !.uploaded = TRUE, !.lease = "none"]),
               r.cleanup # "done"
        PROVE  \E new \in Row :
                 /\ Update(p, new) /\ RowSound(new) /\ new.generation = r.generation
                 /\ new.cleanup # "done"
                 /\ \/ r.state = "pending" /\ new.state = "uploaded"
                    \/ new.state \in Discarded
    <3> DEFINE new == [r EXCEPT !.state = "uploaded", !.uploaded = TRUE, !.lease = "none"]
    <3>1. new \in Row
      BY <1>1, StateNames DEF Row
    <3>2. /\ new.state = "uploaded" /\ new.generation = r.generation
          /\ new.attempt = r.attempt /\ new.operation = r.operation
          /\ new.cleanupGeneration = r.cleanupGeneration /\ new.cleanup = r.cleanup
          /\ Update(p, new)
      BY <1>1, <2>1 DEF Row
    <3> HIDE DEF new
    <3>3. r.attempt = r.generation
      BY <1>1, <1>2, <2>1, RecordedStates DEF RowSound
    <3>4. RowSound(new)
      BY <1>1, <3>2, <3>3, RecordedStates, StatesListed DEF RowSound
    <3> QED
      BY <2>1, <3>1, <3>2, <3>4
  <2>2. ASSUME Update(p, [r EXCEPT !.state = late, !.uploaded = TRUE, !.lease = "none",
                           !.cleanupGeneration = CaptureCleanupBinding(r),
                           !.cleanup = "due", !.cleaner = NoCleaner])
        PROVE  \E new \in Row :
                 /\ Update(p, new) /\ RowSound(new) /\ new.generation = r.generation
                 /\ new.cleanup # "done"
                 /\ \/ r.state = "pending" /\ new.state = "uploaded"
                    \/ new.state \in Discarded
    <3> DEFINE new == [r EXCEPT !.state = late, !.uploaded = TRUE, !.lease = "none",
                         !.cleanupGeneration = CaptureCleanupBinding(r),
                         !.cleanup = "due", !.cleaner = NoCleaner]
    <3>0. late \in States /\ late \in Discarded /\ late \in Terminal
          /\ late \notin Recorded /\ late # "none"
      BY StatesListed DEF Recorded
    <3> HIDE DEF late
    <3>1. CaptureCleanupBinding(r) \in 0..MaxGeneration
      BY <1>1, Generations
    <3>2. new \in Row
      BY <1>1, <3>0, <3>1 DEF Row
    <3>3. /\ new.state = late /\ new.generation = r.generation
          /\ new.attempt = r.attempt /\ new.operation = r.operation
          /\ new.cleanupGeneration = CaptureCleanupBinding(r) /\ new.cleanup = "due"
          /\ Update(p, new)
      BY <1>1, <2>2 DEF Row
    <3> HIDE DEF new
    <3>4. CaptureCleanupBinding(r) <= r.generation
      BY <1>1, <1>3 DEF CaptureCleanupBinding, RowSound
    <3>5. RowSound(new)
      BY <1>1, <3>0, <3>3, <3>4 DEF RowSound
    <3> QED
      BY <3>0, <3>2, <3>3, <3>5
  <2>3. r.state = "pending" => r.cleanup # "done"
    <3>1. ASSUME r.state = "pending", r.cleanup = "done" PROVE FALSE
      BY <1>1, <3>1, RecordedStates DEF LedgerSound
    <3> QED
      BY <3>1
  <2> QED
    BY <2>1, <2>2, <2>3 DEF RecordUploaded
<1>5. RecordsTypeOK'
  BY <1>1, <1>4, UpdateTyped
<1>6. \A q \in Publications : row'[q] = IF q = p THEN new ELSE row[q]
  BY <1>1, <1>4 DEF Update
<1>7. ASSUME NEW q \in Publications
      PROVE  /\ RowSound(row'[q])
             /\ row[q].generation <= row'[q].generation
             /\ row[q].state \in Terminal => row'[q].state \in Terminal
             /\ row'[q].state \in Recorded =>
                  object[q] = "pdf" /\ ledger[q].generation = row'[q].generation
             /\ row'[q].cleanup = "done" => Closed(q)
  <2>1. CASE q # p
    <3>1. RowSound(row[q]) /\ LedgerSound(ledger[q], row[q], object[q], manifest.version)
          /\ row[q].generation \in Nat
      BY <1>1 DEF WorkerInv, LedgersSound, Row
    <3> QED
      BY <1>6, <2>1, <3>1 DEF LedgerSound, Closed
  <2>2. CASE q = p
    <3>1. row'[q] = new
      BY <1>6, <2>2
    <3>2. "pending" \notin Terminal
      BY RecordedStates
    <3>3. new.state \in Discarded => new.state \in Terminal /\ new.state \notin Recorded
      BY StatesListed DEF Recorded
    <3>4. r.state = "pending" =>
            /\ object[p] = "pdf" /\ ledger[p].generation = r.generation
      <4>1. SUFFICES ASSUME r.state = "pending"
                     PROVE  object[p] = "pdf" /\ ledger[p].generation = r.generation
        OBVIOUS
      <4>2. r.attempt = r.generation
        BY <1>1, <1>2, <3>2, <4>1 DEF RowSound
      <4>3. object[p] = "pdf"
        BY <1>1, <3>2, <4>1 DEF LedgerSound
      <4> QED
        BY <1>2, <1>3, <4>2, <4>3
    <3> QED
      BY <1>3, <1>4, <2>2, <3>1, <3>2, <3>3, <3>4
  <2> QED
    BY <2>1, <2>2
<1> QED
  BY <1>5, <1>7 DEF RowsFit

\* RecordReceipt: the row becomes "uploaded" only for bytes that are there.
LEMMA RecordReceiptKeeps ==
  ASSUME WorkerInv, NEW r \in Slots, RecordReceipt(r), crashes' \in 0..MaxCrashes
  PROVE  Kept
<1>1. /\ request[r].kind \in {"upload", "status"} /\ request[r].pc = "record"
      /\ Finish(r)
      /\ \/ RecordUploaded(Slot(r), request[r].generation)
         \/ UNCHANGED dbVars
  BY DEF RecordReceipt, Slot
<1>2. /\ Slot(r) \in Publications /\ request[r].generation \in 0..MaxGeneration
      /\ object[Slot(r)] # "absent"
      /\ request[r].generation <= ledger[Slot(r)].generation
  BY <1>1, UploadFinds DEF Uploading
<1>3. RowsFit
  BY <1>1, <1>2, ReceiptFits, StillFits
<1> QED
  BY <1>1, <1>3, FinishKeeps

-----------------------------------------------------------------------------
(* Commit, activate and rollback tickets.                                    *)

\* What an invocation of one of these tickets finds.
LEMMA TicketFinds ==
  ASSUME WorkerInv, NEW r \in Slots, request[r].kind \in Ticketed
  PROVE  LET p == Slot(r)
             l == ledger[p]
         IN  /\ request[r] \in Request /\ request[r].kind # "idle"
             /\ p \in Publications /\ l \in Ledger /\ LedgerOf(r) = l
             /\ LedgerSound(l, row[p], object[p], manifest.version)
             /\ Knows(request[r], row[p], l, object[p], manifest.version)
             /\ Changing(request[r], l, object[p])
             /\ request[r].version <= manifest.version /\ request[r].version \in Nat
             /\ l.generation \in Nat /\ l.version \in Nat /\ manifest.version \in Nat
<1>1. request[r].kind # "idle"
  BY DEF Ticketed
<1> DEFINE p == Slot(r)
           l == ledger[p]
<1>2. /\ request[r] \in Request /\ p \in Publications /\ l \in Ledger
      /\ LedgerSound(l, row[p], object[p], manifest.version)
      /\ Knows(request[r], row[p], l, object[p], manifest.version)
      /\ Addressed(request[r], row[p], manifest.version)
  BY <1>1, Running
<1>3. Changing(request[r], l, object[p])
  BY <1>2 DEF Knows
<1>4. /\ l.generation \in Nat /\ l.version \in Nat /\ request[r].version \in Nat
      /\ manifest.version \in Nat
  BY <1>2, Typed DEF Ledger, Request
<1>5. LedgerOf(r) = l
  BY DEF LedgerOf, Slot
<1> QED
  BY <1>1, <1>2, <1>3, <1>4, <1>5 DEF Addressed

\* A ledger that is written back with another status fits as before.
LEMMA LedgerRewritten ==
  ASSUME NEW l \in Ledger, NEW r, NEW o, NEW v \in Nat, LedgerSound(l, r, o, v),
         l.status # "cleanup_complete", NEW m \in Ledger,
         m.status \notin {"absent", "cleanup_complete"}, m.generation = l.generation,
         m.version <= v,
         m.status \in Activatable => m.version >= 1 /\ o # "absent",
         m.status # "uploaded"
  PROVE  LedgerSound(m, r, o, v)
BY DEF LedgerSound

\* An invocation of a ticket writes the ledger it holds.
LEMMA TicketPutKeeps ==
  ASSUME WorkerInv, UNCHANGED dbVars, NEW r \in Slots, request[r].kind \in Ticketed,
         request[r].ledgerFresh, NEW m \in Ledger, NEW n \in Request,
         LedgerPut(r, Slot(r), m, n), m.generation = ledger[Slot(r)].generation,
         m.version <= manifest.version,
         m.status \in Activatable \cup {"rolled_back"},
         m.status \in Activatable => m.version >= 1 /\ object[Slot(r)] # "absent",
         \/ n = Idle
         \/ /\ Same(request[r], n) /\ n.pc \in {"done", "fence"}
            /\ n.version <= manifest.version /\ n.version >= 1
            /\ object[Slot(r)] # "absent",
         crashes' \in 0..MaxCrashes
  PROVE  Kept
<1> DEFINE p == Slot(r)
           l == ledger[p]
<1>1. /\ p \in Publications /\ l \in Ledger
      /\ LedgerSound(l, row[p], object[p], manifest.version)
      /\ Knows(request[r], row[p], l, object[p], manifest.version)
      /\ Changing(request[r], l, object[p])
      /\ l.generation \in Nat /\ manifest.version \in Nat
  BY TicketFinds
<1>2. l.status # "cleanup_complete"
  BY <1>1 DEF Changing
<1>3. m.status \notin {"absent", "cleanup_complete", "uploaded"}
  BY DEF Activatable
<1>4. LedgerSound(m, row[p], object[p], manifest.version)
  BY <1>1, <1>2, <1>3, LedgerRewritten
<1>5. CASE n = Idle
  <2>1. n.kind = "idle" /\ ~n.ledgerFresh /\ ~n.manifestFresh /\ n.pc = ""
    BY <1>5, IdleTyped
  <2>2. ~Closed(p) /\ l.generation <= m.generation
    BY <1>1, <1>2 DEF Closed
  <2> QED
    BY <1>1, <1>3, <1>4, <2>1, <2>2, LedgerPutKeeps
<1>6. CASE n # Idle
  <2>1. /\ Same(request[r], n) /\ n.pc \in {"done", "fence"}
        /\ n.version <= manifest.version /\ n.version >= 1 /\ object[p] # "absent"
    BY <1>6
  <2>2. Changing(n, m, object[p])
    BY <1>3, <2>1 DEF Changing
  <2>3. Knows(n, row[p], m, object[p], manifest.version)
    BY <1>1, <2>1, <2>2, KnowsChanging
  <2>4. n.kind # "idle" /\ n.publication = p
    BY <2>1 DEF Same, Slot, Ticketed
  <2>5. ~Closed(p) /\ l.generation <= m.generation
    BY <1>1, <1>2 DEF Closed
  <2> QED
    BY <1>1, <1>3, <1>4, <2>1, <2>3, <2>4, <2>5, LedgerPutKeeps
<1> QED
  BY <1>5, <1>6

\* The receipt of a ticket.
LEMMA AnswerFields ==
  ASSUME NEW r, request[r] \in Request, NEW v \in Nat
  PROVE  /\ Answer(r, v) \in Request /\ Same(request[r], Answer(r, v))
         /\ Answer(r, v).pc = "done" /\ Answer(r, v).version = v
         /\ Answer(r, v).ledgerFresh = request[r].ledgerFresh
<1> DEFINE n == Answer(r, v)
<1>1. n = [request[r] EXCEPT !.pc = "done", !.version = v] /\ "done" \in Pcs
  BY DEF Answer, Pcs
<1> HIDE DEF n
<1>2. /\ n \in Request /\ Same(request[r], n) /\ n.pc = "done" /\ n.version = v
      /\ n.ledgerFresh = request[r].ledgerFresh
  BY <1>1 DEF Request, Same
<1> QED
  BY <1>2 DEF n

\* The receipt of somebody else's write is passed on.
LEMMA AnswerKeeps ==
  ASSUME WorkerInv, UNCHANGED dbVars, NEW r \in Slots,
         request[r].kind \in {"commit", "activate"}, request[r].pc # "load",
         ledger[Slot(r)].status \in Activatable,
         Become(r, Answer(r, ledger[Slot(r)].version)), crashes' \in 0..MaxCrashes
  PROVE  Kept
<1> DEFINE p == Slot(r)
           l == ledger[p]
           n == Answer(r, l.version)
<1>0. request[r].kind \in Ticketed /\ RowsFit /\ row' = row
  BY StillFits DEF Ticketed, dbVars
<1>1. /\ request[r] \in Request /\ request[r].kind # "idle" /\ l.version \in Nat
      /\ LedgerSound(l, row[p], object[p], manifest.version)
      /\ Knows(request[r], row[p], l, object[p], manifest.version)
      /\ Changing(request[r], l, object[p])
  BY <1>0, TicketFinds
<1>2. /\ n \in Request /\ Same(request[r], n) /\ n.pc = "done" /\ n.version = l.version
      /\ n.ledgerFresh = request[r].ledgerFresh
  BY <1>1, AnswerFields
<1>3. l.version >= 1 /\ l.version <= manifest.version /\ object[p] # "absent"
      /\ l.status # "cleanup_complete"
  BY <1>1 DEF LedgerSound, Activatable
<1> HIDE DEF n
<1>4. Changing(n, l, object[p])
  BY <1>1, <1>2, <1>3 DEF Changing, Same
<1>5. Knows(n, row'[p], l, object[p], manifest.version)
  BY <1>0, <1>1, <1>2, <1>3, <1>4, KnowsChanging
<1>6. n.pc \notin {"put", "tombstone", "close"} /\ Become(r, n)
  BY <1>2 DEF n
<1> QED
  BY <1>0, <1>1, <1>2, <1>5, <1>6, OnwardKeeps

\* ManifestTicketLoad: what was loaded is remembered as it is stored.
LEMMA ManifestTicketLoadKeeps ==
  ASSUME WorkerInv, NEW r \in Slots, ManifestTicketLoad(r), crashes' \in 0..MaxCrashes
  PROVE  Kept
<1>0. /\ RowsFit /\ row' = row
      /\ request[r].kind \in Ticketed /\ request[r].pc = "load"
  BY StillFits DEF ManifestTicketLoad, dbVars, Ticketed
<1> DEFINE p == Slot(r)
           l == ledger[p]
<1>1. /\ LedgerOf(r) = l /\ request[r].kind # "idle"
      /\ LedgerSound(l, row[p], object[p], manifest.version)
      /\ Knows(request[r], row[p], l, object[p], manifest.version)
      /\ request[r].version <= manifest.version
  BY <1>0, TicketFinds
<1>2. \/ Finish(r)
      \/ /\ l.status \in {"uploaded"} \cup Activatable
         /\ request[r].kind = "activate" => l.status \in Activatable
         /\ LoadLedger(r, "manifest")
  BY <1>1 DEF ManifestTicketLoad, Staged, Activatable
<1>3. CASE /\ l.status \in {"uploaded"} \cup Activatable
           /\ request[r].kind = "activate" => l.status \in Activatable
           /\ LoadLedger(r, "manifest")
  <2>1. ASSUME NEW n \in Request, Loaded(request[r], n, "manifest", l)
        PROVE  Knows(n, row'[p], l, object[p], manifest.version)
    <3>1. l.status # "cleanup_complete" /\ object[p] # "absent"
      BY <1>1, <1>3 DEF LedgerSound, Activatable
    <3>2. Changing(n, l, object[p])
      BY <1>0, <1>3, <2>1, <3>1 DEF Changing, Loaded, Same
    <3> QED
      BY <1>0, <1>1, <2>1, <3>2, KnowsChanging DEF Loaded
  <2>2. "manifest" \in Pcs
    BY DEF Pcs
  <2> QED
    BY <1>0, <1>1, <1>3, <2>1, <2>2, LoadLedgerKeeps
<1> QED
  BY <1>0, <1>2, <1>3, FinishKeeps

\* Fence: a ledger that passes is not fenced off by a cleanup pass, so that a
\* ticket about to list its document never meets a removal.
LEMMA FenceKeeps ==
  ASSUME WorkerInv, NEW r \in Slots, Fence(r), crashes' \in 0..MaxCrashes
  PROVE  Kept
<1>0. /\ RowsFit /\ row' = row
      /\ request[r].kind \in Ticketed /\ request[r].pc = "fence"
  BY StillFits DEF Fence, dbVars, Ticketed
<1> DEFINE p == Slot(r)
           l == ledger[p]
           n == [request[r] EXCEPT !.pc = "put"]
<1>1. /\ request[r] \in Request /\ LedgerOf(r) = l /\ request[r].kind # "idle"
      /\ Knows(request[r], row[p], l, object[p], manifest.version)
      /\ Changing(request[r], l, object[p])
      /\ request[r].version <= manifest.version
  BY <1>0, TicketFinds
<1>2. CASE Finish(r)
  BY <1>0, <1>2, FinishKeeps
<1>3. CASE ~Finish(r)
  <2>1. /\ Become(r, n) /\ n = [request[r] EXCEPT !.pc = "put"]
        /\ l.status \in {"uploaded"} \cup Activatable
    BY <1>1, <1>3 DEF Fence, Goto, FenceHolds, Activatable
  <2> HIDE DEF n
  <2>2. n \in Request /\ Moved(request[r], n, "put")
    <3>1. "put" \in Pcs
      BY DEF Pcs
    <3> QED
      BY <1>1, <2>1, <3>1 DEF Request, Same, Moved
  <2>3. Changing(n, l, object[p])
    BY <1>0, <1>1, <2>2 DEF Changing, Moved, Same
  <2>4. Knows(n, row'[p], l, object[p], manifest.version)
    BY <1>0, <1>1, <2>2, <2>3, KnowsChanging DEF Moved
  <2>5. n.publication = p /\ n.kind # "idle" /\ n.pc = "put"
    BY <1>1, <2>2 DEF Moved, Same, Slot
  <2>6. \A q \in Publications : ~PastRemoval(n, q)
    BY <2>5 DEF PastRemoval
  <2>7. ASSUME NEW q \in Publications, Adds(n, q)
        PROVE  ledger[q].status \notin Fenced \cup {"cleanup_complete"}
    <3>1. q = p
      BY <2>5, <2>7 DEF Adds
    <3> QED
      BY <2>1, <3>1 DEF Fenced, Activatable
  <2> QED
    BY <1>0, <2>1, <2>2, <2>4, <2>5, <2>6, <2>7, MoveKeeps
<1> QED
  BY <1>2, <1>3

\* The prior versions a ledger names are version names.
LEMMA VersionsTyped ==
  /\ \A p : VisibleVersions(p) \in SUBSET {VersionOf[q] : q \in Publications}
  /\ \A q \in Request : q.prior \in SUBSET {VersionOf[p] : p \in Publications}
  /\ \A l \in Ledger : l.prior \in SUBSET {VersionOf[p] : p \in Publications}
<1>1. \A p : VisibleVersions(p) \in SUBSET {VersionOf[q] : q \in Publications}
  BY DEF VisibleVersions
<1> QED
  BY <1>1 DEF Request, Ledger

\* CommitDecide reads the manifest and no more.
LEMMA CommitDecideKeeps ==
  ASSUME WorkerInv, NEW r \in Slots, CommitDecide(r), crashes' \in 0..MaxCrashes
  PROVE  Kept
<1>0. /\ RowsFit /\ row' = row /\ request[r].kind = "commit" /\ request[r].pc = "manifest"
      /\ request[r].kind \in Ticketed
  BY StillFits DEF CommitDecide, dbVars, Ticketed, At
<1> DEFINE p == Slot(r)
           l == ledger[p]
           x == VisibleVersions(p)
<1>1. /\ request[r].kind # "idle" /\ p \in Publications
      /\ Knows(request[r], row[p], l, object[p], manifest.version)
      /\ Changing(request[r], l, object[p]) /\ manifest.version \in Nat
  BY <1>0, TicketFinds
<1>2. \/ Finish(r)
      \/ LoadManifest(r, "fence", x)
      \/ /\ manifest.documents[p] = "staged"
         /\ LoadManifest(r, "recover", x) \/ LoadManifest(r, "done", x)
  BY DEF CommitDecide, Slot
<1>3. ASSUME NEW c \in {"fence", "recover", "done"}, LoadManifest(r, c, x),
             c # "fence" => manifest.documents[p] = "staged"
      PROVE  Kept
  <2>1. c # "fence" => manifest.version >= 1
    BY <1>1, <1>3 DEF WorkerInv, ManifestSound
  <2>2. ASSUME NEW n \in Request, Decided(request[r], n, c, manifest.version)
        PROVE  Knows(n, row'[p], l, object[p], manifest.version)
    <3>1. Changing(n, l, object[p])
      BY <1>0, <1>1, <1>3, <2>1, <2>2 DEF Changing, Decided, Same
    <3>2. Same(request[r], n) /\ n.version <= manifest.version
      BY <1>1, <2>2 DEF Decided
    <3> QED
      BY <1>0, <1>1, <3>1, <3>2, KnowsChanging
  <2>3. c \in Pcs /\ c \notin {"put", "tombstone", "close"}
    BY DEF Pcs
  <2>4. x \in SUBSET {VersionOf[q] : q \in Publications}
    BY VersionsTyped
  <2> QED
    BY <1>0, <1>1, <1>3, <2>2, <2>3, <2>4, LoadManifestKeeps
<1> QED
  BY <1>0, <1>2, <1>3, FinishKeeps

\* The ledger of a committed document.
LEMMA CommittedLedgerTyped ==
  ASSUME NEW r, request[r] \in Request, LedgerOf(r) \in Ledger, NEW v \in Nat,
         NEW x \in SUBSET {VersionOf[p] : p \in Publications}
  PROVE  /\ CommittedLedger(r, v, x) \in Ledger
         /\ CommittedLedger(r, v, x).status = "committed"
         /\ CommittedLedger(r, v, x).version = v
         /\ CommittedLedger(r, v, x).generation = LedgerOf(r).generation
<1> DEFINE l == LedgerOf(r)
           a == request[r].previousAccess
           m == CommittedLedger(r, v, x)
<1>1. m = [l EXCEPT !.status = "committed", !.version = v, !.previousAccess = a, !.prior = x]
      /\ l \in Ledger
  BY DEF CommittedLedger
<1>2. a \in Nat /\ "committed" \in LedgerStatus
  BY DEF Request, LedgerStatus
<1> HIDE DEF m, l, a
<1>3. m \in Ledger /\ m.status = "committed" /\ m.version = v /\ m.generation = l.generation
  BY <1>1, <1>2 DEF Ledger
<1> QED
  BY <1>3 DEF m, l

\* A commit writes its ledger.
LEMMA CommitWriteKeeps ==
  ASSUME WorkerInv, UNCHANGED dbVars, NEW r \in Slots, request[r].kind = "commit",
         request[r].pc \in {"recover", "ledger"}, request[r].ledgerFresh,
         NEW x \in SUBSET {VersionOf[p] : p \in Publications},
         LedgerPut(r, Slot(r), CommittedLedger(r, request[r].version, x),
                   Answer(r, request[r].version)),
         crashes' \in 0..MaxCrashes
  PROVE  Kept
<1> DEFINE p == Slot(r)
           v == request[r].version
           m == CommittedLedger(r, v, x)
           n == Answer(r, v)
<1>0. request[r].kind \in Ticketed
  BY DEF Ticketed
<1>1. /\ request[r] \in Request /\ LedgerOf(r) = ledger[p] /\ ledger[p] \in Ledger
      /\ v \in Nat /\ v <= manifest.version
      /\ Changing(request[r], ledger[p], object[p])
  BY <1>0, TicketFinds
<1>2. v >= 1 /\ object[p] # "absent"
  BY <1>1 DEF Changing
<1>3. /\ m \in Ledger /\ m.status = "committed" /\ m.version = v
      /\ m.generation = ledger[p].generation
  BY <1>1, CommittedLedgerTyped
<1>4. /\ n \in Request /\ Same(request[r], n) /\ n.pc = "done" /\ n.version = v
  BY <1>1, AnswerFields
<1>5. LedgerPut(r, p, m, n) /\ m.status \in Activatable
  BY <1>3 DEF Activatable
<1> HIDE DEF m, n
<1> QED
  BY <1>0, <1>1, <1>2, <1>3, <1>4, <1>5, TicketPutKeeps

\* CommitRecover: its own write, or the receipt of the write that won.
LEMMA CommitRecoverKeeps ==
  ASSUME WorkerInv, NEW r \in Slots, CommitRecover(r), crashes' \in 0..MaxCrashes
  PROVE  Kept
<1>0. /\ UNCHANGED dbVars /\ RowsFit
      /\ request[r].kind = "commit" /\ request[r].pc = "recover"
      /\ request[r].kind \in Ticketed
  BY StillFits DEF CommitRecover, Ticketed, At
<1> DEFINE l == ledger[Slot(r)]
           x == IF l.version = 0 THEN request[r].prior ELSE l.prior
<1>1. LedgerOf(r) = l /\ l \in Ledger /\ request[r] \in Request
  BY <1>0, TicketFinds
<1>2. x \in SUBSET {VersionOf[p] : p \in Publications}
  BY <1>1, VersionsTyped
<1>3. \/ Finish(r)
      \/ /\ request[r].ledgerFresh
         /\ LedgerPut(r, Slot(r), CommittedLedger(r, request[r].version, x),
                      Answer(r, request[r].version))
      \/ l.status \in {"committed", "active"} /\ Become(r, Answer(r, l.version))
  BY <1>1 DEF CommitRecover, Slot
<1>4. "committed" \in Activatable /\ "active" \in Activatable
  BY DEF Activatable
<1> HIDE DEF x
<1> QED
  BY <1>0, <1>2, <1>3, <1>4, FinishKeeps, CommitWriteKeeps, AnswerKeeps

\* CommitLedger: the version written to the ledger is one of the manifest.
LEMMA CommitLedgerKeeps ==
  ASSUME WorkerInv, NEW r \in Slots, CommitLedger(r), crashes' \in 0..MaxCrashes
  PROVE  Kept
<1>0. /\ UNCHANGED dbVars /\ RowsFit
      /\ request[r].kind = "commit" /\ request[r].pc = "ledger"
      /\ request[r].kind \in Ticketed
  BY StillFits DEF CommitLedger, Ticketed, At
<1>1. request[r].prior \in SUBSET {VersionOf[p] : p \in Publications}
  BY <1>0, TicketFinds, VersionsTyped
<1>2. \/ Finish(r)
      \/ /\ request[r].ledgerFresh
         /\ LedgerPut(r, Slot(r), CommittedLedger(r, request[r].version, request[r].prior),
                      Answer(r, request[r].version))
  BY DEF CommitLedger, Slot
<1> QED
  BY <1>0, <1>1, <1>2, FinishKeeps, CommitWriteKeeps

\* It has written the manifest.
Wrote(q) == [q EXCEPT !.pc = "ledger", !.version = @ + 1]

\* An invocation of a ticket writes the manifest it loaded.
LEMMA TicketManifestKeeps ==
  ASSUME WorkerInv, UNCHANGED dbVars, NEW r \in Slots, request[r].kind \in Ticketed,
         request[r].pc = "put", NEW access \in Nat,
         NEW documents \in [Publications -> {"absent", "staged", "visible", "retired"}],
         ManifestPut(r, access, documents, Wrote(request[r])),
         \A p \in Publications : documents[p] # "absent" =>
           manifest.documents[p] # "absent" \/ Adds(request[r], p),
         crashes' \in 0..MaxCrashes
  PROVE  Kept
<1> DEFINE p == Slot(r)
           l == ledger[p]
           n == Wrote(request[r])
<1>1. /\ request[r] \in Request /\ request[r].kind # "idle" /\ p \in Publications
      /\ Knows(request[r], row[p], l, object[p], manifest.version)
      /\ Changing(request[r], l, object[p])
      /\ request[r].version <= manifest.version /\ request[r].version \in Nat
      /\ manifest.version \in Nat
  BY TicketFinds
<1>2. n = [request[r] EXCEPT !.pc = "ledger", !.version = request[r].version + 1]
      /\ ManifestPut(r, access, documents, n)
  BY DEF Wrote
<1> HIDE DEF n
<1>3. /\ n \in Request /\ Same(request[r], n) /\ n.pc = "ledger"
      /\ n.version = request[r].version + 1
      /\ n.ledgerFresh = request[r].ledgerFresh
  <2>1. "ledger" \in Pcs /\ request[r].version + 1 \in Nat
    BY <1>1 DEF Pcs
  <2> QED
    BY <1>1, <1>2, <2>1 DEF Request, Same
<1>4. n.version <= manifest.version + 1 /\ n.version >= 1
  BY <1>1, <1>3
<1>5. Changing(n, l, object[p])
  BY <1>1, <1>3, <1>4 DEF Changing, Same
<1>6. Knows(n, row[p], l, object[p], manifest.version + 1)
  BY <1>1, <1>3, <1>4, <1>5, KnowsChanging
<1>7. n.publication = p /\ n.kind # "idle" /\ n.pc # "put"
      /\ \A q \in Publications : ~PastRemoval(n, q)
  BY <1>1, <1>3 DEF Same, Slot, PastRemoval
<1> DEFINE w == manifest.version + 1
<1>8. Knows(n, row[n.publication], ledger[n.publication], object[n.publication], w)
  BY <1>6, <1>7
<1>9. w = manifest.version + 1
  OBVIOUS
<1> HIDE DEF p, l, w
<1> QED
  BY <1>2, <1>3, <1>7, <1>8, <1>9, ManifestPutKeeps

\* CommitPut lists its own document and nothing else.
LEMMA CommitPutKeeps ==
  ASSUME WorkerInv, NEW r \in Slots, CommitPut(r), crashes' \in 0..MaxCrashes
  PROVE  Kept
<1>0. /\ UNCHANGED dbVars /\ RowsFit
      /\ request[r].kind = "commit" /\ request[r].pc = "put"
      /\ request[r].kind \in Ticketed
  BY StillFits DEF CommitPut, Ticketed, At
<1> DEFINE p == Slot(r)
           docs == [manifest.documents EXCEPT ![p] = "staged"]
<1>1. request[r] \in Request /\ p \in Publications /\ request[r].previousAccess \in Nat
  BY <1>0, TicketFinds DEF Request
<1>2. CASE Finish(r)
  BY <1>0, <1>2, FinishKeeps
<1>3. CASE ~Finish(r)
  <2>1. /\ request[r].manifestFresh
        /\ ManifestPut(r, request[r].previousAccess, docs, Wrote(request[r]))
    BY <1>3 DEF CommitPut, Slot, Wrote
  <2>2. /\ docs \in [Publications -> {"absent", "staged", "visible", "retired"}]
        /\ \A q \in Publications : docs[q] = IF q = p THEN "staged" ELSE manifest.documents[q]
    BY <1>1, Typed
  <2>3. Adds(request[r], p)
    BY <1>0, <2>1 DEF Adds, Slot
  <2>4. \A q \in Publications : docs[q] # "absent" =>
          manifest.documents[q] # "absent" \/ Adds(request[r], q)
    BY <2>2, <2>3
  <2> HIDE DEF docs
  <2> QED
    BY <1>0, <1>1, <2>1, <2>2, <2>4, TicketManifestKeeps
<1> QED
  BY <1>2, <1>3

\* ActivateDecide reads the manifest and no more.
LEMMA ActivateDecideKeeps ==
  ASSUME WorkerInv, NEW r \in Slots, ActivateDecide(r), crashes' \in 0..MaxCrashes
  PROVE  Kept
<1>0. /\ RowsFit /\ row' = row /\ request[r].kind = "activate" /\ request[r].pc = "manifest"
      /\ request[r].kind \in Ticketed
  BY StillFits DEF ActivateDecide, dbVars, Ticketed, At
<1> DEFINE p == Slot(r)
           l == ledger[p]
<1>1. /\ request[r].kind # "idle" /\ request[r] \in Request
      /\ Knows(request[r], row[p], l, object[p], manifest.version)
      /\ Changing(request[r], l, object[p]) /\ manifest.version \in Nat
  BY <1>0, TicketFinds
<1>2. ASSUME NEW c \in {"done", "recover", "prepare"}, NEW x, LoadManifest(r, c, x),
             x \in SUBSET {VersionOf[q] : q \in Publications}, manifest.exists
      PROVE  Kept
  <2>1. manifest.version >= 1
    BY <1>2 DEF WorkerInv, ManifestSound
  <2>2. ASSUME NEW n \in Request, Decided(request[r], n, c, manifest.version)
        PROVE  Knows(n, row'[p], l, object[p], manifest.version)
    <3>1. Changing(n, l, object[p])
      BY <1>0, <1>1, <1>2, <2>1, <2>2 DEF Changing, Decided, Same
    <3>2. Same(request[r], n) /\ n.version <= manifest.version
      BY <1>1, <2>2 DEF Decided
    <3> QED
      BY <1>0, <1>1, <3>1, <3>2, KnowsChanging
  <2>3. c \in Pcs /\ c \notin {"put", "tombstone", "close"}
    BY DEF Pcs
  <2> QED
    BY <1>0, <1>1, <1>2, <2>2, <2>3, LoadManifestKeeps
<1>3. \/ Finish(r)
      \/ manifest.exists /\ LoadManifest(r, "done", request[r].prior)
      \/ manifest.exists /\ LoadManifest(r, "recover", request[r].prior)
      \/ manifest.exists /\ LoadManifest(r, "prepare", VisibleVersions(p))
  BY DEF ActivateDecide, Slot
<1> QED
  BY <1>0, <1>1, <1>2, <1>3, VersionsTyped, FinishKeeps

\* The ledger of an activated document.
LEMMA ActiveLedgerTyped ==
  ASSUME NEW r, request[r] \in Request, LedgerOf(r) \in Ledger
  PROVE  /\ ActiveLedger(r) \in Ledger /\ ActiveLedger(r).status = "active"
         /\ ActiveLedger(r).version = request[r].version
         /\ ActiveLedger(r).generation = LedgerOf(r).generation
<1> DEFINE l == LedgerOf(r)
           q == request[r]
           m == ActiveLedger(r)
<1>1. m = [l EXCEPT !.status = "active", !.version = q.version,
                    !.previousAccess = q.previousAccess, !.targetAccess = q.targetAccess]
      /\ l \in Ledger
  BY DEF ActiveLedger
<1>2. q.version \in Nat /\ q.previousAccess \in Nat /\ q.targetAccess \in Nat
      /\ "active" \in LedgerStatus
  BY DEF Request, LedgerStatus
<1> HIDE DEF m, l, q
<1>3. m \in Ledger /\ m.status = "active" /\ m.version = q.version
      /\ m.generation = l.generation
  BY <1>1, <1>2 DEF Ledger
<1> QED
  BY <1>3 DEF m, l, q

\* An activation writes its ledger.
LEMMA ActivateWriteKeeps ==
  ASSUME WorkerInv, UNCHANGED dbVars, NEW r \in Slots, request[r].kind = "activate",
         request[r].pc \in {"recover", "ledger"}, request[r].ledgerFresh,
         LedgerPut(r, Slot(r), ActiveLedger(r), Answer(r, request[r].version)),
         crashes' \in 0..MaxCrashes
  PROVE  Kept
<1> DEFINE p == Slot(r)
           v == request[r].version
           m == ActiveLedger(r)
           n == Answer(r, v)
<1>0. request[r].kind \in Ticketed
  BY DEF Ticketed
<1>1. /\ request[r] \in Request /\ LedgerOf(r) = ledger[p] /\ ledger[p] \in Ledger
      /\ v \in Nat /\ v <= manifest.version
      /\ Changing(request[r], ledger[p], object[p])
  BY <1>0, TicketFinds
<1>2. v >= 1 /\ object[p] # "absent"
  BY <1>1 DEF Changing
<1>3. /\ m \in Ledger /\ m.status = "active" /\ m.version = v
      /\ m.generation = ledger[p].generation
  BY <1>1, ActiveLedgerTyped
<1>4. /\ n \in Request /\ Same(request[r], n) /\ n.pc = "done" /\ n.version = v
  BY <1>1, AnswerFields
<1>5. LedgerPut(r, p, m, n) /\ m.status \in Activatable
  BY <1>3 DEF Activatable
<1> HIDE DEF m, n
<1> QED
  BY <1>0, <1>1, <1>2, <1>3, <1>4, <1>5, TicketPutKeeps

\* ActivateRecover: its own write, or the receipt of the write that won.
LEMMA ActivateRecoverKeeps ==
  ASSUME WorkerInv, NEW r \in Slots, ActivateRecover(r), crashes' \in 0..MaxCrashes
  PROVE  Kept
<1>0. /\ UNCHANGED dbVars /\ RowsFit
      /\ request[r].kind = "activate" /\ request[r].pc = "recover"
      /\ request[r].kind \in Ticketed
  BY StillFits DEF ActivateRecover, Ticketed, At
<1> DEFINE l == ledger[Slot(r)]
<1>1. LedgerOf(r) = l
  BY <1>0, TicketFinds
<1>2. \/ Finish(r)
      \/ /\ request[r].ledgerFresh
         /\ LedgerPut(r, Slot(r), ActiveLedger(r), Answer(r, request[r].version))
      \/ l.status = "active" /\ Become(r, Answer(r, l.version))
  BY <1>1 DEF ActivateRecover, Slot
<1>3. "active" \in Activatable
  BY DEF Activatable
<1> QED
  BY <1>0, <1>2, <1>3, FinishKeeps, ActivateWriteKeeps, AnswerKeeps

\* ActivateLedger: the version written to the ledger is one of the manifest.
LEMMA ActivateLedgerKeeps ==
  ASSUME WorkerInv, NEW r \in Slots, ActivateLedger(r), crashes' \in 0..MaxCrashes
  PROVE  Kept
<1>0. /\ UNCHANGED dbVars /\ RowsFit
      /\ request[r].kind = "activate" /\ request[r].pc = "ledger"
  BY StillFits DEF ActivateLedger, At
<1>1. \/ Finish(r)
      \/ /\ request[r].ledgerFresh
         /\ LedgerPut(r, Slot(r), ActiveLedger(r), Answer(r, request[r].version))
  BY DEF ActivateLedger, Slot
<1> QED
  BY <1>0, <1>1, FinishKeeps, ActivateWriteKeeps

\* ActivatePrepare rewrites the ledger it loaded, which is still the stored one.
LEMMA ActivatePrepareKeeps ==
  ASSUME WorkerInv, NEW r \in Slots, ActivatePrepare(r), crashes' \in 0..MaxCrashes
  PROVE  Kept
<1>0. /\ UNCHANGED dbVars /\ RowsFit /\ row' = row
      /\ request[r].kind = "activate" /\ request[r].pc = "prepare"
      /\ request[r].kind \in Ticketed
  BY StillFits DEF ActivatePrepare, dbVars, Ticketed, At
<1> DEFINE p == Slot(r)
           l == ledger[p]
           q == request[r]
           m == [q.seen EXCEPT !.status = "activating", !.version = q.version,
                   !.previousAccess = q.previousAccess, !.targetAccess = q.targetAccess,
                   !.prior = q.prior]
           n == [q EXCEPT !.pc = "fence"]
<1>1. /\ q.kind # "idle" /\ q \in Request
      /\ Knows(q, row[p], l, object[p], manifest.version)
      /\ Changing(q, l, object[p]) /\ q.version <= manifest.version
  BY <1>0, TicketFinds
<1>2. q.version >= 1 /\ object[p] # "absent"
  BY <1>0, <1>1 DEF Changing
<1>3. \/ Finish(r)
      \/ Goto(r, "fence")
      \/ q.ledgerFresh /\ LedgerPut(r, p, m, n)
  BY DEF ActivatePrepare, Slot
<1>4. CASE Goto(r, "fence")
  <2>1. ASSUME NEW o \in Request, Moved(q, o, "fence")
        PROVE  Knows(o, row'[p], l, object[p], manifest.version)
    <3>1. Changing(o, l, object[p])
      BY <1>0, <1>1, <1>2, <2>1 DEF Changing, Moved, Same
    <3> QED
      BY <1>0, <1>1, <2>1, <3>1, KnowsChanging DEF Moved
  <2>2. "fence" \in Pcs
    BY DEF Pcs
  <2> QED
    BY <1>0, <1>1, <1>4, <2>1, <2>2, GotoKeeps
<1>5. CASE q.ledgerFresh /\ LedgerPut(r, p, m, n)
  <2>1. q.seen = l /\ q.seen \in Ledger
    BY <1>0, <1>1, <1>5 DEF Changing, Request
  <2>2. m \in Ledger /\ m.status = "activating" /\ m.version = q.version
        /\ m.generation = l.generation
    <3>1. /\ q.version \in Nat /\ q.previousAccess \in Nat /\ q.targetAccess \in Nat
          /\ q.prior \in SUBSET {VersionOf[o] : o \in Publications}
          /\ "activating" \in LedgerStatus
      BY <1>1 DEF Request, LedgerStatus
    <3> QED
      BY <2>1, <3>1 DEF Ledger
  <2>3. n \in Request /\ Same(q, n) /\ n.pc = "fence" /\ n.version = q.version
    <3>1. "fence" \in Pcs
      BY DEF Pcs
    <3> QED
      BY <1>1, <3>1 DEF Request, Same
  <2>4. m.status \in Activatable
    BY <2>2 DEF Activatable
  <2>5. q.ledgerFresh /\ LedgerPut(r, Slot(r), m, n)
    BY <1>5
  <2> HIDE DEF m, n
  <2> QED
    BY <1>0, <1>1, <1>2, <2>2, <2>3, <2>4, <2>5, TicketPutKeeps
<1> QED
  BY <1>0, <1>3, <1>4, <1>5, FinishKeeps

\* ActivatePut shows its own document and hides others, listing no other.
LEMMA ActivatePutKeeps ==
  ASSUME WorkerInv, NEW r \in Slots, ActivatePut(r), crashes' \in 0..MaxCrashes
  PROVE  Kept
<1>0. /\ UNCHANGED dbVars /\ RowsFit
      /\ request[r].kind = "activate" /\ request[r].pc = "put"
      /\ request[r].kind \in Ticketed
  BY StillFits DEF ActivatePut, Ticketed, At
<1> DEFINE p == Slot(r)
           docs == ActivatedDocuments(p)
<1>1. request[r] \in Request /\ p \in Publications /\ request[r].targetAccess \in Nat
  BY <1>0, TicketFinds DEF Request
<1>2. CASE Finish(r)
  BY <1>0, <1>2, FinishKeeps
<1>3. CASE ~Finish(r)
  <2>1. /\ request[r].manifestFresh
        /\ ManifestPut(r, request[r].targetAccess, docs, Wrote(request[r]))
    BY <1>3 DEF ActivatePut, Slot, Wrote
  <2>2. docs \in [Publications -> {"absent", "staged", "visible", "retired"}]
    BY <1>1, Typed DEF ActivatedDocuments
  <2>3. Adds(request[r], p)
    BY <1>0, <2>1 DEF Adds, Slot
  <2>4. \A q \in Publications : docs[q] # "absent" =>
          manifest.documents[q] # "absent" \/ Adds(request[r], q)
    BY <2>3 DEF ActivatedDocuments
  <2> HIDE DEF docs
  <2> QED
    BY <1>0, <1>1, <2>1, <2>2, <2>4, TicketManifestKeeps
<1> QED
  BY <1>2, <1>3

\* RollbackDecide reads the manifest and no more.
LEMMA RollbackDecideKeeps ==
  ASSUME WorkerInv, NEW r \in Slots, RollbackDecide(r), crashes' \in 0..MaxCrashes
  PROVE  Kept
<1>0. /\ RowsFit /\ row' = row /\ request[r].kind = "rollback" /\ request[r].pc = "manifest"
      /\ request[r].kind \in Ticketed
  BY StillFits DEF RollbackDecide, dbVars, Ticketed, At
<1> DEFINE p == Slot(r)
           l == ledger[p]
           x == request[r].seen.prior
<1>1. /\ request[r].kind # "idle" /\ request[r] \in Request
      /\ Knows(request[r], row[p], l, object[p], manifest.version)
      /\ Changing(request[r], l, object[p]) /\ manifest.version \in Nat
  BY <1>0, TicketFinds
<1>2. x \in SUBSET {VersionOf[q] : q \in Publications}
  BY <1>1, VersionsTyped DEF Request
<1>3. ASSUME NEW c \in {"fence", "record"}, LoadManifest(r, c, x)
      PROVE  Kept
  <2>1. ASSUME NEW n \in Request, Decided(request[r], n, c, manifest.version)
        PROVE  Knows(n, row'[p], l, object[p], manifest.version)
    <3>1. Changing(n, l, object[p])
      BY <1>0, <1>1, <1>3, <2>1 DEF Changing, Decided, Same
    <3>2. Same(request[r], n) /\ n.version <= manifest.version
      BY <1>1, <2>1 DEF Decided
    <3> QED
      BY <1>0, <1>1, <3>1, <3>2, KnowsChanging
  <2>2. c \in Pcs /\ c \notin {"put", "tombstone", "close"}
    BY DEF Pcs
  <2> QED
    BY <1>0, <1>1, <1>2, <1>3, <2>1, <2>2, LoadManifestKeeps
<1>4. Finish(r) \/ LoadManifest(r, "fence", x) \/ LoadManifest(r, "record", x)
  BY DEF RollbackDecide
<1> QED
  BY <1>0, <1>3, <1>4, FinishKeeps

\* Taking documents out of the manifest, or showing what is listed.
LEMMA TakenOut ==
  ASSUME WorkerInv, NEW p \in Publications
  PROVE  /\ WithoutDocument(p) \in [Publications -> {"absent", "staged", "visible", "retired"}]
         /\ WithoutDocument(p)[p] = "absent"
         /\ \A q \in Publications :
              WithoutDocument(p)[q] # "absent" => manifest.documents[q] # "absent"
         /\ \A x : /\ RestoredDocuments(p, x)
                        \in [Publications -> {"absent", "staged", "visible", "retired"}]
                   /\ \A q \in Publications :
                        RestoredDocuments(p, x)[q] # "absent" =>
                          manifest.documents[q] # "absent"
BY Typed DEF WithoutDocument, RestoredDocuments, PriorEntries

\* RollbackPut takes a document out and lists no other.
LEMMA RollbackPutKeeps ==
  ASSUME WorkerInv, NEW r \in Slots, RollbackPut(r), crashes' \in 0..MaxCrashes
  PROVE  Kept
<1>0. /\ UNCHANGED dbVars /\ RowsFit
      /\ request[r].kind = "rollback" /\ request[r].pc = "put"
      /\ request[r].kind \in Ticketed
  BY StillFits DEF RollbackPut, Ticketed, At
<1> DEFINE p == Slot(r)
           docs == IF manifest.documents[p] = "visible"
                   THEN RestoredDocuments(p, request[r].prior) ELSE WithoutDocument(p)
<1>1. request[r] \in Request /\ p \in Publications /\ request[r].previousAccess \in Nat
  BY <1>0, TicketFinds DEF Request
<1>2. CASE Finish(r)
  BY <1>0, <1>2, FinishKeeps
<1>3. CASE ~Finish(r)
  <2>1. ManifestPut(r, request[r].previousAccess, docs, Wrote(request[r]))
    BY <1>3 DEF RollbackPut, Slot, Wrote
  <2>2. docs \in [Publications -> {"absent", "staged", "visible", "retired"}]
    BY <1>1, TakenOut
  <2>3. \A q \in Publications : docs[q] # "absent" =>
          manifest.documents[q] # "absent" \/ Adds(request[r], q)
    BY <1>1, TakenOut
  <2> HIDE DEF docs
  <2> QED
    BY <1>0, <1>1, <2>1, <2>2, <2>3, TicketManifestKeeps
<1> QED
  BY <1>2, <1>3

\* RollbackLedger: a rolled back ledger makes no claim about the bytes.
LEMMA RollbackLedgerKeeps ==
  ASSUME WorkerInv, NEW r \in Slots, RollbackLedger(r), crashes' \in 0..MaxCrashes
  PROVE  Kept
<1>0. /\ UNCHANGED dbVars /\ RowsFit
      /\ request[r].kind = "rollback" /\ request[r].kind \in Ticketed
  BY StillFits DEF RollbackLedger, Ticketed, At
<1> DEFINE l == ledger[Slot(r)]
           v == IF request[r].pc = "ledger" THEN request[r].version ELSE l.version
           m == [l EXCEPT !.status = "rolled_back", !.version = v]
<1>1. /\ LedgerOf(r) = l /\ l \in Ledger /\ request[r].version \in Nat
      /\ request[r].version <= manifest.version
      /\ LedgerSound(l, row[Slot(r)], object[Slot(r)], manifest.version)
      /\ l.version \in Nat
  BY <1>0, TicketFinds
<1>2. v \in Nat /\ v <= manifest.version
  BY <1>1 DEF LedgerSound
<1>3. Finish(r) \/ (request[r].ledgerFresh /\ LedgerPut(r, Slot(r), m, Idle))
  BY <1>1 DEF RollbackLedger, Slot
<1> HIDE DEF v
<1>4. m \in Ledger /\ m.status = "rolled_back" /\ m.version = v
      /\ m.generation = l.generation
  <2>1. "rolled_back" \in LedgerStatus
    BY DEF LedgerStatus
  <2> QED
    BY <1>1, <1>2, <2>1 DEF Ledger
<1>5. m.status \notin Activatable
  BY <1>4 DEF Activatable
<1> HIDE DEF m
<1>6. CASE request[r].ledgerFresh /\ LedgerPut(r, Slot(r), m, Idle)
  BY <1>0, <1>1, <1>2, <1>4, <1>5, <1>6, IdleTyped, TicketPutKeeps
<1> QED
  BY <1>0, <1>3, <1>6, FinishKeeps

-----------------------------------------------------------------------------
(* Cleanup.                                                                  *)

\* What a cleanup pass finds.
LEMMA CleanupFinds ==
  ASSUME WorkerInv, NEW r \in Slots, request[r].kind = "cleanup"
  PROVE  LET p == Slot(r)
             l == ledger[p]
         IN  /\ request[r] \in Request /\ request[r].kind # "idle"
             /\ p \in Publications /\ l \in Ledger /\ LedgerOf(r) = l
             /\ row[p].state \in Terminal /\ row[p].state \notin Recorded
             /\ request[r].generation <= row[p].generation
             /\ LedgerSound(l, row[p], object[p], manifest.version)
             /\ Knows(request[r], row[p], l, object[p], manifest.version)
             /\ Cleaning(request[r], l, object[p])
             /\ request[r].version <= manifest.version /\ request[r].version \in Nat
             /\ l.generation \in Nat /\ l.version \in Nat /\ manifest.version \in Nat
<1>1. request[r].kind # "idle"
  OBVIOUS
<1> DEFINE p == Slot(r)
           l == ledger[p]
<1>2. /\ request[r] \in Request /\ p \in Publications /\ l \in Ledger
      /\ LedgerSound(l, row[p], object[p], manifest.version)
      /\ Knows(request[r], row[p], l, object[p], manifest.version)
      /\ Addressed(request[r], row[p], manifest.version)
  BY <1>1, Running
<1>3. Cleaning(request[r], l, object[p])
  BY <1>2 DEF Knows
<1>4. /\ l.generation \in Nat /\ l.version \in Nat /\ request[r].version \in Nat
      /\ manifest.version \in Nat
  BY <1>2, Typed DEF Ledger, Request
<1>5. LedgerOf(r) = l
  BY DEF LedgerOf, Slot
<1>6. row[p].state \in Terminal /\ row[p].state \notin Recorded
  BY <1>2, RecordedStates DEF Addressed
<1> QED
  BY <1>1, <1>2, <1>3, <1>4, <1>5, <1>6 DEF Addressed

\* A pass that fails has changed nothing and reports it.
LEMMA FailKeeps ==
  ASSUME WorkerInv, UNCHANGED dbVars, NEW r \in Slots, request[r].kind = "cleanup",
         Fail(r), crashes' \in 0..MaxCrashes
  PROVE  Kept
<1> DEFINE p == Slot(r)
           l == ledger[p]
<1>0. RowsFit /\ row' = row /\ Goto(r, "failed")
  BY StillFits DEF dbVars, Fail
<1>1. /\ request[r].kind # "idle" /\ request[r].version <= manifest.version
      /\ Knows(request[r], row[p], l, object[p], manifest.version)
      /\ Cleaning(request[r], l, object[p])
  BY CleanupFinds
<1>2. ASSUME NEW n \in Request, Moved(request[r], n, "failed")
      PROVE  Knows(n, row'[p], l, object[p], manifest.version)
  <2>1. Cleaning(n, l, object[p])
    BY <1>2 DEF Cleaning, Moved
  <2> QED
    BY <1>0, <1>1, <1>2, <2>1, KnowsCleaning DEF Moved
<1>3. "failed" \in Pcs
  BY DEF Pcs
<1> QED
  BY <1>0, <1>1, <1>2, <1>3, GotoKeeps

\* CleanupLoad goes where the status of the ledger sends it.
LEMMA CleanupLoadKeeps ==
  ASSUME WorkerInv, NEW r \in Slots, CleanupLoad(r), crashes' \in 0..MaxCrashes
  PROVE  Kept
<1>0. /\ UNCHANGED dbVars /\ RowsFit /\ row' = row
      /\ request[r].kind = "cleanup" /\ request[r].pc = "load"
  BY StillFits DEF CleanupLoad, dbVars, At
<1> DEFINE p == Slot(r)
           l == ledger[p]
<1>1. /\ LedgerOf(r) = l /\ request[r].kind # "idle"
      /\ Knows(request[r], row[p], l, object[p], manifest.version)
      /\ request[r].version <= manifest.version
  BY <1>0, CleanupFinds
<1>2. \/ Fail(r)
      \/ l.status = "cleanup_complete" /\ LoadLedger(r, "recheck")
      \/ l.status # "cleanup_complete" /\ LoadLedger(r, "quiesce")
      \/ LoadLedger(r, "failed")
      \/ l.status = "cleanup_pending" /\ LoadLedger(r, "rollback")
      \/ l.status = "cleanup_pending" /\ LoadLedger(r, "remove")
  BY <1>1 DEF CleanupLoad
<1>3. ASSUME NEW c \in {"recheck", "quiesce", "failed", "rollback", "remove"},
             LoadLedger(r, c),
             c = "recheck" => l.status = "cleanup_complete",
             c = "quiesce" => l.status # "cleanup_complete",
             c \in {"rollback", "remove"} => l.status = "cleanup_pending"
      PROVE  Kept
  <2>1. ASSUME NEW n \in Request, Loaded(request[r], n, c, l)
        PROVE  Knows(n, row'[p], l, object[p], manifest.version)
    <3>1. Cleaning(n, l, object[p])
      BY <1>0, <1>3, <2>1 DEF Cleaning, Loaded, Same, Fenced
    <3> QED
      BY <1>0, <1>1, <2>1, <3>1, KnowsCleaning DEF Loaded
  <2>2. c \in Pcs
    BY DEF Pcs
  <2> QED
    BY <1>0, <1>1, <1>3, <2>1, <2>2, LoadLedgerKeeps
<1> QED
  BY <1>0, <1>2, <1>3, FailKeeps

\* A cleanup pass writes the ledger it holds and goes on.
LEMMA CleanupPutKeeps ==
  ASSUME WorkerInv, UNCHANGED dbVars, NEW r \in Slots, request[r].kind = "cleanup",
         request[r].ledgerFresh, ledger[Slot(r)].status # "cleanup_complete",
         NEW m \in Ledger, NEW c \in {"sentinel", "remove", "succeeded"},
         LedgerPut(r, Slot(r), m, [request[r] EXCEPT !.pc = c]),
         ledger[Slot(r)].generation <= m.generation,
         m.generation <= row[Slot(r)].generation,
         m.version <= manifest.version,
         m.status \in Fenced \cup {"cleanup_complete"},
         c = "remove" => request[r].seen.status # "cleanup_complete" /\ m.status \in Fenced,
         c = "succeeded" <=> m.status = "cleanup_complete",
         m.status = "cleanup_complete" => Unlisted(Slot(r)) /\ object[Slot(r)] = "tombstone",
         crashes' \in 0..MaxCrashes
  PROVE  Kept
<1> DEFINE p == Slot(r)
           l == ledger[p]
           n == [request[r] EXCEPT !.pc = c]
<1>1. /\ request[r] \in Request /\ request[r].kind # "idle" /\ p \in Publications
      /\ row[p].state \in Terminal /\ row[p].state \notin Recorded
      /\ LedgerSound(l, row[p], object[p], manifest.version)
      /\ Knows(request[r], row[p], l, object[p], manifest.version)
      /\ request[r].version <= manifest.version
  BY CleanupFinds
<1>2. n \in Request /\ Moved(request[r], n, c)
  <2>1. c \in Pcs
    BY DEF Pcs
  <2> QED
    BY <1>1, <2>1 DEF Request, Same, Moved
<1>3. LedgerPut(r, p, m, n)
  OBVIOUS
<1> HIDE DEF n
<1>4. m.status \notin {"absent", "uploaded"} \cup Activatable
  BY DEF Fenced, Activatable
<1>5. LedgerSound(m, row[p], object[p], manifest.version)
  BY <1>1, <1>4 DEF LedgerSound
<1>6. Knows(n, row[p], m, object[p], manifest.version)
  <2>1. Cleaning(n, m, object[p])
    BY <1>2 DEF Cleaning, Moved, Same
  <2> QED
    BY <1>1, <1>2, <2>1, KnowsCleaning DEF Moved
<1>7. n.publication = p /\ n.kind # "idle" /\ n.pc \notin {"put", "tombstone", "close"}
  BY <1>1, <1>2 DEF Moved, Same, Slot
<1>8. ~Closed(p)
  BY DEF Closed
<1> QED
  BY <1>1, <1>2, <1>3, <1>5, <1>6, <1>7, <1>8, LedgerPutKeeps

\* CleanupQuiesce fences the Worker off with a ledger of no earlier generation.
LEMMA CleanupQuiesceKeeps ==
  ASSUME WorkerInv, NEW r \in Slots, CleanupQuiesce(r), crashes' \in 0..MaxCrashes
  PROVE  Kept
<1>0. /\ UNCHANGED dbVars /\ request[r].kind = "cleanup" /\ request[r].pc = "quiesce"
  BY DEF CleanupQuiesce, At
<1> DEFINE p == Slot(r)
           l == ledger[p]
           g == request[r].generation
           created == [NoLedger EXCEPT !.status = "cleanup_pending",
                                       !.previousStatus = "receiving", !.generation = g]
           pending == [l EXCEPT !.status = "cleanup_pending", !.settled = FALSE,
                                !.previousStatus = l.status]
           m == IF l.status = "absent" THEN created ELSE pending
<1>1. /\ LedgerOf(r) = l /\ l \in Ledger /\ request[r] \in Request
      /\ LedgerSound(l, row[p], object[p], manifest.version)
      /\ Cleaning(request[r], l, object[p]) /\ g <= row[p].generation
      /\ l.generation \in Nat /\ l.version \in Nat /\ manifest.version \in Nat
  BY <1>0, CleanupFinds
<1>2. \/ Fail(r)
      \/ request[r].ledgerFresh /\ LedgerPut(r, p, m, [request[r] EXCEPT !.pc = "sentinel"])
  BY <1>1 DEF CleanupQuiesce, Slot
<1>3. CASE request[r].ledgerFresh
           /\ LedgerPut(r, p, m, [request[r] EXCEPT !.pc = "sentinel"])
  <2>0. "cleanup_pending" \in LedgerStatus /\ "receiving" \in LedgerStatus
        /\ g \in 0..MaxGeneration /\ g \in Nat
    BY <1>1, GenerationBound DEF LedgerStatus, Request
  <2>1. created \in Ledger /\ created.status = "cleanup_pending" /\ created.generation = g
        /\ created.version = 0
    <3>1. created.status = "cleanup_pending" /\ created.generation = g
          /\ created.version = 0
      BY DEF NoLedger
    <3>2. created \in Ledger
      BY <2>0, NoLedgerTyped DEF Ledger
    <3> QED
      BY <3>1, <3>2
  <2>2. pending \in Ledger /\ pending.status = "cleanup_pending"
        /\ pending.generation = l.generation /\ pending.version = l.version
    BY <1>1, <2>0 DEF Ledger
  <2> HIDE DEF created, pending
  <2>3. /\ m \in Ledger /\ m.status = "cleanup_pending" /\ l.generation <= m.generation
        /\ m.generation <= row[p].generation /\ m.version <= manifest.version
    BY <1>1, <2>0, <2>1, <2>2 DEF LedgerSound
  <2>4. l.status # "cleanup_complete"
    BY <1>0, <1>1, <1>3 DEF Cleaning
  <2>5. m.status \in Fenced
    BY <2>3 DEF Fenced
  <2> HIDE DEF m
  <2> QED
    BY <1>0, <1>3, <2>3, <2>4, <2>5, CleanupPutKeeps
<1> QED
  BY <1>0, <1>2, <1>3, FailKeeps

\* A cleanup pass puts its tombstone.
LEMMA TombstoneKeeps ==
  ASSUME WorkerInv, UNCHANGED dbVars, UNCHANGED <<ledger, manifest>>,
         NEW r \in Slots, request[r].kind = "cleanup",
         NEW c \in {"failed", "succeeded", "close"},
         PutTombstone(Slot(r)), request' = [request EXCEPT ![r].pc = c],
         c # "failed" =>
           /\ request[r].pc = "tombstone"
           /\ c = "succeeded" <=> request[r].seen.status = "cleanup_complete",
         crashes' \in 0..MaxCrashes
  PROVE  Kept
<1> DEFINE p == Slot(r)
           l == ledger[p]
           n == [request[r] EXCEPT !.pc = c]
<1>1. /\ request[r] \in Request /\ request[r].kind # "idle" /\ p \in Publications
      /\ row[p].state \in Terminal
      /\ Knows(request[r], row[p], l, object[p], manifest.version)
      /\ Cleaning(request[r], l, object[p])
      /\ request[r].version <= manifest.version
  BY CleanupFinds
<1>2. n \in Request /\ Moved(request[r], n, c)
  <2>1. c \in Pcs
    BY DEF Pcs
  <2> QED
    BY <1>1, <2>1 DEF Request, Same, Moved
<1>3. request' = [request EXCEPT ![r] = n]
  OBVIOUS
<1> HIDE DEF n
<1>4. Cleaning(n, l, "tombstone")
  BY <1>1, <1>2 DEF Cleaning, Moved, Same
<1>5. Knows(n, row[p], l, "tombstone", manifest.version)
  BY <1>1, <1>2, <1>4, KnowsCleaning DEF Moved
<1>6. n.publication = p /\ n.kind # "idle" /\ n.pc # "put"
  BY <1>1, <1>2 DEF Moved, Same, Slot
<1>7. \A q \in Publications : PastRemoval(n, q) => PastRemoval(request[r], q)
  BY <1>2 DEF Moved, Same, PastRemoval
<1>8. object' = [object EXCEPT ![p] = "tombstone"]
  BY DEF PutTombstone
<1> QED
  BY <1>1, <1>2, <1>3, <1>5, <1>6, <1>7, <1>8, ObjectKeeps

\* CleanupSentinel takes an object key nobody has used.
LEMMA CleanupSentinelKeeps ==
  ASSUME WorkerInv, NEW r \in Slots, CleanupSentinel(r), crashes' \in 0..MaxCrashes
  PROVE  Kept
<1>0. /\ UNCHANGED dbVars /\ UNCHANGED <<ledger, manifest>>
      /\ request[r].kind = "cleanup"
      /\ request' = [request EXCEPT ![r].pc = "failed"]
  BY DEF CleanupSentinel, At
<1>1. PutTombstone(Slot(r)) \/ UNCHANGED object
  BY DEF CleanupSentinel, Slot
<1>2. CASE UNCHANGED object
  <2>1. Fail(r)
    BY <1>0, <1>2 DEF Fail, Goto, Become, storeVars
  <2> QED
    BY <1>0, <2>1, FailKeeps
<1> QED
  BY <1>0, <1>1, <1>2, TombstoneKeeps


\* A cleanup pass reads the manifest and goes on.
LEMMA CleanupLookKeeps ==
  ASSUME WorkerInv, UNCHANGED dbVars, NEW r \in Slots, request[r].kind = "cleanup",
         NEW x \in SUBSET {VersionOf[q] : q \in Publications},
         NEW c \in {"remove", "mark", "restore", "removing"}, LoadManifest(r, c, x),
         request[r].pc \in {"rollback", "remove"}, crashes' \in 0..MaxCrashes
  PROVE  Kept
<1> DEFINE p == Slot(r)
           l == ledger[p]
<1>0. RowsFit /\ row' = row
  BY StillFits DEF dbVars
<1>1. /\ request[r] \in Request /\ request[r].kind # "idle"
      /\ Knows(request[r], row[p], l, object[p], manifest.version)
      /\ Cleaning(request[r], l, object[p]) /\ manifest.version \in Nat
  BY CleanupFinds
<1>2. ASSUME NEW n \in Request, Decided(request[r], n, c, manifest.version)
      PROVE  Knows(n, row'[p], l, object[p], manifest.version)
  <2>1. Cleaning(n, l, object[p])
    BY <1>1, <1>2 DEF Cleaning, Decided, Same
  <2>2. Same(request[r], n) /\ n.version <= manifest.version
    BY <1>1, <1>2 DEF Decided
  <2> QED
    BY <1>0, <1>1, <2>1, <2>2, KnowsCleaning
<1>3. c \in Pcs /\ c \notin {"put", "tombstone", "close"}
  BY DEF Pcs
<1> QED
  BY <1>0, <1>1, <1>2, <1>3, LoadManifestKeeps

\* CleanupRollback reads the manifest and no more.
LEMMA CleanupRollbackKeeps ==
  ASSUME WorkerInv, NEW r \in Slots, CleanupRollback(r), crashes' \in 0..MaxCrashes
  PROVE  Kept
<1>0. /\ UNCHANGED dbVars /\ request[r].kind = "cleanup" /\ request[r].pc = "rollback"
  BY DEF CleanupRollback, At
<1> DEFINE x == request[r].seen.prior
<1>1. x \in SUBSET {VersionOf[q] : q \in Publications}
  BY <1>0, CleanupFinds, VersionsTyped DEF Request
<1>2. \/ Fail(r)
      \/ LoadManifest(r, "remove", x) \/ LoadManifest(r, "mark", x)
      \/ LoadManifest(r, "restore", x)
  BY DEF CleanupRollback
<1> QED
  BY <1>0, <1>1, <1>2, FailKeeps, CleanupLookKeeps

\* CleanupRemoveLoad reads the manifest and no more.
LEMMA CleanupRemoveLoadKeeps ==
  ASSUME WorkerInv, NEW r \in Slots, CleanupRemoveLoad(r), crashes' \in 0..MaxCrashes
  PROVE  Kept
<1>0. /\ UNCHANGED dbVars /\ request[r].kind = "cleanup" /\ request[r].pc = "remove"
  BY DEF CleanupRemoveLoad, At
<1>1. request[r].prior \in SUBSET {VersionOf[q] : q \in Publications}
  BY <1>0, CleanupFinds DEF Request
<1>2. Fail(r) \/ LoadManifest(r, "removing", request[r].prior)
  BY DEF CleanupRemoveLoad
<1> QED
  BY <1>0, <1>1, <1>2, FailKeeps, CleanupLookKeeps

\* A cleanup pass writes the manifest.
LEMMA CleanupWriteKeeps ==
  ASSUME WorkerInv, UNCHANGED dbVars, NEW r \in Slots, request[r].kind = "cleanup",
         NEW access \in Nat,
         NEW docs, docs \in [Publications -> {"absent", "staged", "visible", "retired"}],
         \A q \in Publications : docs[q] # "absent" => manifest.documents[q] # "absent",
         NEW n \in Request, ManifestPut(r, access, docs, n),
         Same(request[r], n), n.version <= request[r].version + 1,
         n.ledgerFresh = request[r].ledgerFresh, n.seen = request[r].seen,
         \/ request[r].pc = "restore" /\ n.pc = "mark"
         \/ request[r].pc = "removing" /\ n.pc = "tombstone"
            /\ docs[Slot(r)] = "absent",
         crashes' \in 0..MaxCrashes
  PROVE  Kept
<1> DEFINE p == Slot(r)
           l == ledger[p]
           w == manifest.version + 1
<1>1. /\ request[r] \in Request /\ p \in Publications
      /\ Knows(request[r], row[p], l, object[p], manifest.version)
      /\ Cleaning(request[r], l, object[p]) /\ manifest.version \in Nat
      /\ request[r].version <= manifest.version /\ request[r].version \in Nat
  BY CleanupFinds
<1>2. n.version \in Nat /\ n.version <= w
  BY <1>1 DEF Request
<1>3. Cleaning(n, l, object[p])
  BY <1>1 DEF Cleaning, Same
<1>4. Knows(n, row[p], l, object[p], w)
  BY <1>1, <1>2, <1>3, KnowsCleaning
<1>5. n.publication = p /\ n.kind # "idle" /\ n.pc # "put"
  BY DEF Same, Slot
<1>6. \A q \in Publications : PastRemoval(n, q) =>
        docs[q] = "absent" /\ ledger[q].status \in Fenced
  BY <1>3, <1>5 DEF PastRemoval, Cleaning
<1>7. w = manifest.version + 1
  OBVIOUS
<1> HIDE DEF w
<1> QED
  BY <1>4, <1>5, <1>6, <1>7, ManifestPutKeeps

\* CleanupRestore shows only what is listed already.
LEMMA CleanupRestoreKeeps ==
  ASSUME WorkerInv, NEW r \in Slots, CleanupRestore(r), crashes' \in 0..MaxCrashes
  PROVE  Kept
<1>0. /\ UNCHANGED dbVars /\ request[r].kind = "cleanup" /\ request[r].pc = "restore"
  BY DEF CleanupRestore, At
<1> DEFINE p == Slot(r)
           docs == RestoredDocuments(p, request[r].prior)
           n == [request[r] EXCEPT !.pc = "mark", !.version = @ + 1]
<1>1. /\ request[r] \in Request /\ request[r].version \in Nat /\ p \in Publications
      /\ row[p].committedAccess \in Nat
  BY <1>0, CleanupFinds, Typed DEF Row
<1>2. /\ docs \in [Publications -> {"absent", "staged", "visible", "retired"}]
      /\ \A q \in Publications : docs[q] # "absent" => manifest.documents[q] # "absent"
  BY <1>1, TakenOut
<1>3. /\ n \in Request /\ Same(request[r], n) /\ n.version = request[r].version + 1
      /\ n.ledgerFresh = request[r].ledgerFresh /\ n.seen = request[r].seen
      /\ n.pc = "mark"
  <2>1. "mark" \in Pcs /\ request[r].version + 1 \in Nat
    BY <1>1 DEF Pcs
  <2> QED
    BY <1>1, <2>1 DEF Request, Same
<1>4. Fail(r) \/ ManifestPut(r, row[p].committedAccess, docs, n)
  BY DEF CleanupRestore, Slot
<1> HIDE DEF docs, n
<1>5. n.version <= request[r].version + 1
  BY <1>1, <1>3
<1> QED
  BY <1>0, <1>1, <1>2, <1>3, <1>4, <1>5, FailKeeps, CleanupWriteKeeps

\* CleanupRemove: the document is gone, nobody who holds the replaced manifest can
\* list it, and while the ledger stays fenced nobody passes the fence again.
LEMMA CleanupRemoveKeeps ==
  ASSUME WorkerInv, NEW r \in Slots, CleanupRemove(r), crashes' \in 0..MaxCrashes
  PROVE  Kept
<1>0. /\ UNCHANGED dbVars /\ request[r].kind = "cleanup" /\ request[r].pc = "removing"
  BY DEF CleanupRemove, At
<1> DEFINE p == Slot(r)
           docs == WithoutDocument(p)
           a == IF manifest.exists THEN manifest.access ELSE request[r].databaseAccess
           n == [request[r] EXCEPT !.pc = "tombstone"]
<1>1. /\ request[r] \in Request /\ request[r].version \in Nat /\ p \in Publications
      /\ request[r].databaseAccess \in Nat
  BY <1>0, CleanupFinds DEF Request
<1>2. /\ docs \in [Publications -> {"absent", "staged", "visible", "retired"}]
      /\ docs[p] = "absent" /\ a \in Nat
      /\ \A q \in Publications : docs[q] # "absent" => manifest.documents[q] # "absent"
  BY <1>1, TakenOut, Typed
<1>3. /\ n \in Request /\ Same(request[r], n) /\ n.version = request[r].version
      /\ n.ledgerFresh = request[r].ledgerFresh /\ n.seen = request[r].seen
      /\ n.pc = "tombstone"
  <2>1. "tombstone" \in Pcs
    BY DEF Pcs
  <2> QED
    BY <1>1, <2>1 DEF Request, Same
<1>4. Fail(r) \/ ManifestPut(r, a, docs, n)
  BY DEF CleanupRemove, Slot
<1> HIDE DEF docs, n, a
<1>5. n.version <= request[r].version + 1
  BY <1>1, <1>3
<1> QED
  BY <1>0, <1>1, <1>2, <1>3, <1>4, <1>5, FailKeeps, CleanupWriteKeeps

\* CleanupMark: a rolled back ledger is fenced as well.
LEMMA CleanupMarkKeeps ==
  ASSUME WorkerInv, NEW r \in Slots, CleanupMark(r), crashes' \in 0..MaxCrashes
  PROVE  Kept
<1>0. /\ UNCHANGED dbVars /\ RowsFit /\ row' = row
      /\ request[r].kind = "cleanup" /\ request[r].pc = "mark"
  BY StillFits DEF CleanupMark, dbVars, At
<1> DEFINE p == Slot(r)
           l == ledger[p]
           m == [l EXCEPT !.status = "rolled_back", !.version = request[r].version]
<1>1. /\ LedgerOf(r) = l /\ l \in Ledger /\ request[r] \in Request
      /\ request[r].kind # "idle"
      /\ Knows(request[r], row[p], l, object[p], manifest.version)
      /\ LedgerSound(l, row[p], object[p], manifest.version)
      /\ Cleaning(request[r], l, object[p])
      /\ request[r].version <= manifest.version /\ request[r].version \in Nat
      /\ l.generation \in Nat
  BY <1>0, CleanupFinds
<1>2. \/ Fail(r)
      \/ l.status = "rolled_back" /\ LoadLedger(r, "remove")
      \/ request[r].ledgerFresh /\ LedgerPut(r, p, m, [request[r] EXCEPT !.pc = "remove"])
  BY <1>1 DEF CleanupMark, Slot
<1>3. CASE l.status = "rolled_back" /\ LoadLedger(r, "remove")
  <2>1. ASSUME NEW n \in Request, Loaded(request[r], n, "remove", l)
        PROVE  Knows(n, row'[p], l, object[p], manifest.version)
    <3>1. Cleaning(n, l, object[p])
      BY <1>3, <2>1 DEF Cleaning, Loaded, Same, Fenced
    <3> QED
      BY <1>0, <1>1, <2>1, <3>1, KnowsCleaning DEF Loaded
  <2>2. "remove" \in Pcs
    BY DEF Pcs
  <2> QED
    BY <1>0, <1>1, <1>3, <2>1, <2>2, LoadLedgerKeeps
<1>4. CASE request[r].ledgerFresh
           /\ LedgerPut(r, p, m, [request[r] EXCEPT !.pc = "remove"])
  <2>1. /\ m \in Ledger /\ m.status = "rolled_back" /\ m.version = request[r].version
        /\ m.generation = l.generation
    <3>1. "rolled_back" \in LedgerStatus
      BY DEF LedgerStatus
    <3> QED
      BY <1>1, <3>1 DEF Ledger
  <2>2. request[r].seen.status # "cleanup_complete" /\ l.status \in Fenced
    BY <1>0, <1>1, <1>4 DEF Cleaning
  <2>3. l.status # "cleanup_complete" /\ m.status \in Fenced
    BY <2>1, <2>2 DEF Fenced
  <2>4. l.generation <= m.generation /\ m.generation <= row[p].generation
        /\ m.version <= manifest.version
    BY <1>1, <2>1 DEF LedgerSound
  <2> HIDE DEF m
  <2> QED
    BY <1>0, <1>4, <2>1, <2>2, <2>3, <2>4, CleanupPutKeeps
<1> QED
  BY <1>0, <1>2, <1>3, <1>4, FailKeeps

\* CleanupRecheck: the ledger is closed already.
LEMMA CleanupRecheckKeeps ==
  ASSUME WorkerInv, NEW r \in Slots, CleanupRecheck(r), crashes' \in 0..MaxCrashes
  PROVE  Kept
<1>0. /\ UNCHANGED dbVars /\ RowsFit /\ row' = row
      /\ request[r].kind = "cleanup" /\ request[r].pc = "recheck"
  BY StillFits DEF CleanupRecheck, dbVars, At
<1> DEFINE p == Slot(r)
           l == ledger[p]
           n == [request[r] EXCEPT !.pc = "tombstone"]
<1>1. /\ request[r] \in Request /\ request[r].kind # "idle"
      /\ Knows(request[r], row[p], l, object[p], manifest.version)
      /\ Cleaning(request[r], l, object[p])
      /\ request[r].version <= manifest.version
  BY <1>0, CleanupFinds
<1>2. Fail(r) \/ Become(r, n)
  BY DEF CleanupRecheck, Goto
<1>3. n \in Request /\ Moved(request[r], n, "tombstone")
  <2>1. "tombstone" \in Pcs
    BY DEF Pcs
  <2> QED
    BY <1>1, <2>1 DEF Request, Same, Moved
<1> HIDE DEF n
<1>4. Cleaning(n, l, object[p])
  BY <1>0, <1>1, <1>3 DEF Cleaning, Moved, Same
<1>5. Knows(n, row'[p], l, object[p], manifest.version)
  BY <1>0, <1>1, <1>3, <1>4, KnowsCleaning DEF Moved
<1>6. \A q \in Publications : ~Adds(n, q) /\ ~PastRemoval(n, q)
  BY <1>0, <1>1, <1>3 DEF Adds, PastRemoval, Moved, Cleaning
<1>7. n.publication = p /\ n.kind # "idle"
  BY <1>1, <1>3 DEF Moved, Same, Slot
<1>8. CASE Become(r, n)
  BY <1>0, <1>3, <1>5, <1>6, <1>7, <1>8, MoveKeeps
<1> QED
  BY <1>0, <1>2, <1>8, FailKeeps

\* CleanupTombstone: the row is terminal, so no receipt stands on the bytes.
LEMMA CleanupTombstoneKeeps ==
  ASSUME WorkerInv, NEW r \in Slots, CleanupTombstone(r), crashes' \in 0..MaxCrashes
  PROVE  Kept
<1> DEFINE c == IF request[r].seen.status = "cleanup_complete" THEN "succeeded" ELSE "close"
<1>0. /\ UNCHANGED dbVars /\ UNCHANGED <<ledger, manifest>>
      /\ request[r].kind = "cleanup" /\ request[r].pc = "tombstone"
      /\ PutTombstone(Slot(r)) /\ request' = [request EXCEPT ![r].pc = c]
  BY DEF CleanupTombstone, At, Slot
<1>1. c \in {"succeeded", "close"} /\
      (c = "succeeded" <=> request[r].seen.status = "cleanup_complete")
  OBVIOUS
<1> HIDE DEF c
<1> QED
  BY <1>0, <1>1, TombstoneKeeps

\* CleanupClose: a pass that still holds its ledger knows that the document is
\* unlisted and the bytes are gone.
LEMMA CleanupCloseKeeps ==
  ASSUME WorkerInv, NEW r \in Slots, CleanupClose(r), crashes' \in 0..MaxCrashes
  PROVE  Kept
<1>0. /\ UNCHANGED dbVars /\ RowsFit /\ row' = row
      /\ request[r].kind = "cleanup" /\ request[r].pc = "close"
  BY StillFits DEF CleanupClose, dbVars, At
<1> DEFINE p == Slot(r)
           l == ledger[p]
           m == [l EXCEPT !.status = "cleanup_complete"]
<1>1. /\ LedgerOf(r) = l /\ l \in Ledger /\ request[r] \in Request
      /\ request[r].kind # "idle" /\ p \in Publications
      /\ Knows(request[r], row[p], l, object[p], manifest.version)
      /\ LedgerSound(l, row[p], object[p], manifest.version)
      /\ Cleaning(request[r], l, object[p])
      /\ request[r].version <= manifest.version
      /\ l.generation \in Nat
  BY <1>0, CleanupFinds
<1>2. \/ Fail(r)
      \/ l.status = "cleanup_complete" /\ Goto(r, "succeeded")
      \/ request[r].ledgerFresh
         /\ LedgerPut(r, p, m, [request[r] EXCEPT !.pc = "succeeded"])
  BY <1>1 DEF CleanupClose, Slot
<1>3. CASE l.status = "cleanup_complete" /\ Goto(r, "succeeded")
  <2>1. ASSUME NEW n \in Request, Moved(request[r], n, "succeeded")
        PROVE  Knows(n, row'[p], l, object[p], manifest.version)
    <3>1. Cleaning(n, l, object[p])
      BY <1>3, <2>1 DEF Cleaning, Moved
    <3> QED
      BY <1>0, <1>1, <2>1, <3>1, KnowsCleaning DEF Moved
  <2>2. "succeeded" \in Pcs
    BY DEF Pcs
  <2> QED
    BY <1>0, <1>1, <1>3, <2>1, <2>2, GotoKeeps
<1>4. CASE request[r].ledgerFresh
           /\ LedgerPut(r, p, m, [request[r] EXCEPT !.pc = "succeeded"])
  <2>1. /\ m \in Ledger /\ m.status = "cleanup_complete" /\ m.version = l.version
        /\ m.generation = l.generation
    <3>1. "cleanup_complete" \in LedgerStatus
      BY DEF LedgerStatus
    <3> QED
      BY <1>1, <3>1 DEF Ledger
  <2>2. /\ request[r].seen.status # "cleanup_complete" /\ l.status \in Fenced
        /\ object[p] = "tombstone"
    BY <1>0, <1>1, <1>4 DEF Cleaning
  <2>3. l.status # "cleanup_complete"
    BY <2>2 DEF Fenced
  <2>4. PastRemoval(request[r], p)
    BY <1>0, <1>4, <2>2 DEF PastRemoval, Slot
  <2>5. Unlisted(p)
    BY <1>1, <2>4 DEF WorkerInv, RemovalSound
  <2>6. l.generation <= m.generation /\ m.generation <= row[p].generation
        /\ m.version <= manifest.version
    BY <1>1, <2>1 DEF LedgerSound
  <2> HIDE DEF m
  <2> QED
    BY <1>0, <1>4, <2>1, <2>2, <2>3, <2>5, <2>6, CleanupPutKeeps
<1> QED
  BY <1>0, <1>2, <1>3, <1>4, FailKeeps

\* A successful report closes the row.
LEMMA ReportFits ==
  ASSUME WorkerInv, NEW p \in Publications, NEW c \in Cleaners,
         CompleteCleanup(p, c, TRUE), Closed(p)
  PROVE  RowsFit
<1> DEFINE new == [row[p] EXCEPT !.cleanup = "done"]
<1>1. RecordsTypeOK /\ row[p] \in Row /\ RowSound(row[p])
  BY Typed DEF WorkerInv, LedgersSound
<1>2. Update(p, new) /\ row[p].state \in Terminal
  BY DEF CompleteCleanup, CleanupAccepted, CleanupClaimHeld
<1>3. /\ new \in Row /\ new.state = row[p].state /\ new.generation = row[p].generation
      /\ new.attempt = row[p].attempt /\ new.operation = row[p].operation
      /\ new.cleanupGeneration = row[p].cleanupGeneration /\ new.cleanup = "done"
  BY <1>1 DEF Row
<1> HIDE DEF new
<1>4. RecordsTypeOK'
  BY <1>1, <1>2, <1>3, UpdateTyped
<1>5. /\ RowSound(new) /\ row[p].generation <= new.generation
  BY <1>1, <1>2, <1>3, RecordedStates DEF RowSound, Row
<1>6. ASSUME NEW q \in Publications
      PROVE  /\ RowSound(row'[q])
             /\ row[q].generation <= row'[q].generation
             /\ row[q].state \in Terminal => row'[q].state \in Terminal
             /\ row'[q].state \in Recorded =>
                  object[q] = "pdf" /\ ledger[q].generation = row'[q].generation
             /\ row'[q].cleanup = "done" => Closed(q)
  <2>1. row[q] \in Row /\ RowSound(row[q])
        /\ LedgerSound(ledger[q], row[q], object[q], manifest.version)
    BY Typed DEF WorkerInv, LedgersSound
  <2>2. row'[q] = IF q = p THEN new ELSE row[q]
    BY <1>2, Typed DEF Update
  <2>3. CASE q = p
    BY <1>2, <1>3, <1>5, <2>2, <2>3, RecordedStates
  <2>4. CASE q # p
    BY <2>1, <2>2, <2>4 DEF LedgerSound, Closed, Row
  <2> QED
    BY <2>3, <2>4
<1> QED
  BY <1>4, <1>6 DEF RowsFit

\* CleanupReport: success is reported from a closed ledger only.
LEMMA CleanupReportKeeps ==
  ASSUME WorkerInv, NEW c \in Cleaners, CleanupReport(c), crashes' \in 0..MaxCrashes
  PROVE  Kept
<1> DEFINE p == Slot(c)
<1>0. /\ c \in Slots /\ request[c].kind = "cleanup" /\ Finish(c)
      /\ request[c].pc \in {"succeeded", "failed"}
  BY DEF CleanupReport, Slots
<1>1. p \in Publications /\ Cleaning(request[c], ledger[p], object[p])
  BY <1>0, CleanupFinds
<1>2. \/ UNCHANGED dbVars
      \/ request[c].pc = "succeeded" /\ CompleteCleanup(p, c, TRUE)
      \/ CompleteCleanup(p, c, FALSE)
  BY <1>0 DEF CleanupReport, Slot
<1>3. CASE UNCHANGED dbVars
  BY <1>0, <1>3, StillFits, FinishKeeps
<1>4. CASE CompleteCleanup(p, c, FALSE)
  <2>1. PlainStep
    BY <1>1, <1>4 DEF PlainStep
  <2> QED
    BY <1>0, <2>1, PlainFits, FinishKeeps
<1>5. CASE request[c].pc = "succeeded" /\ CompleteCleanup(p, c, TRUE)
  <2>1. Closed(p)
    BY <1>1, <1>5 DEF Cleaning, Closed
  <2> QED
    BY <1>0, <1>1, <1>5, <2>1, ReportFits, FinishKeeps
<1> QED
  BY <1>2, <1>3, <1>4, <1>5

-----------------------------------------------------------------------------
(* Invocations that begin.                                                   *)

\* A slot that is taken by a new invocation.
LEMMA BeginKeeps ==
  ASSUME WorkerInv, RowsFit, NEW r \in Slots, NEW p \in Publications,
         NEW n \in Request, Become(r, n), n.publication = p, n.kind # "idle",
         n.pc = "load", ~n.ledgerFresh, ~n.manifestFresh, n.version = 0,
         n.generation <= row[p].generation,
         n.kind = "upload" => n.generation >= 1,
         n.kind \in {"commit", "activate"} => n.operation >= 1,
         n.kind = "cleanup" => row'[p].state \in Terminal,
         crashes' \in 0..MaxCrashes
  PROVE  Kept
<1>1. /\ row[p] \in Row /\ row'[p] \in Row /\ row[p].generation <= row'[p].generation
      /\ manifest.version \in Nat
  BY Typed DEF RowsFit, RecordsTypeOK
<1>2. Addressed(n, row'[p], manifest.version)
  BY <1>1 DEF Addressed, Request, Row
<1>3. /\ Uploading(n, ledger[p], object[p]) /\ Changing(n, ledger[p], object[p])
      /\ Cleaning(n, ledger[p], object[p])
  BY DEF Uploading, Changing, Cleaning
<1>4. Knows(n, row'[p], ledger[p], object[p], manifest.version)
  BY <1>2, <1>3 DEF Knows
<1>5. \A q \in Publications : ~Adds(n, q) /\ ~PastRemoval(n, q)
  BY DEF Adds, PastRemoval
<1> QED
  BY <1>4, <1>5, MoveKeeps

\* The generation a cleanup job is bound to.
LEMMA CleanupBinding ==
  ASSUME NEW r \in Row, RowSound(r)
  PROVE  /\ CaptureCleanupBinding(r) \in 0..MaxGeneration
         /\ CaptureCleanupBinding(r) <= r.generation
BY DEF CaptureCleanupBinding, RowSound, Row

\* CleanupClaim starts a pass for a row that is terminal.
LEMMA CleanupClaimKeeps ==
  ASSUME WorkerInv, NEW c \in Cleaners, NEW p \in Publications, CleanupClaim(c, p),
         crashes' \in 0..MaxCrashes
  PROVE  Kept
<1> DEFINE n == Job(p)
<1>0. /\ c \in Slots /\ ClaimCleanup(p, c) /\ Become(c, n)
  BY DEF CleanupClaim, Slots
<1>1. row[p] \in Row /\ RowSound(row[p]) /\ accessVersion \in Nat
  BY Typed DEF WorkerInv, LedgersSound
<1>2. /\ n = [Idle EXCEPT !.kind = "cleanup", !.pc = "load", !.publication = p,
                          !.generation = CaptureCleanupBinding(row[p]),
                          !.databaseAccess = accessVersion]
      /\ Idle \in Request /\ ~Idle.ledgerFresh /\ ~Idle.manifestFresh
      /\ Idle.version = 0
  BY IdleTyped DEF Job, Idle
<1> HIDE DEF n
<1>3. "load" \in Pcs
  BY DEF Pcs
<1>4. /\ n \in Request /\ n.kind = "cleanup" /\ n.pc = "load" /\ n.publication = p
      /\ n.generation = CaptureCleanupBinding(row[p]) /\ n.version = 0
      /\ ~n.ledgerFresh /\ ~n.manifestFresh
  BY <1>1, <1>2, <1>3, CleanupBinding DEF Request
<1>5. RowsFit
  <2>1. PlainStep
    BY <1>0 DEF PlainStep
  <2> QED
    BY <2>1, PlainFits
<1>6. row'[p].state \in Terminal
  <2>1. /\ Expired(row[p]).state \in Terminal /\ row \in [Publications -> Row]
        /\ row' = [row EXCEPT ![p] = [Expired(row[p]) EXCEPT !.cleanup = "claimed",
                                                             !.cleaner = c]]
        /\ Expired(row[p]) \in Row
    BY <1>0, <1>1, Typed, ExpiredRow DEF ClaimCleanup, Update
  <2> QED
    BY <2>1 DEF Row
<1> QED
  BY <1>0, <1>1, <1>4, <1>5, <1>6, CleanupBinding, BeginKeeps

-----------------------------------------------------------------------------
(* The Edge function and the browsers.                                       *)

\* What a request starts with.
LEMMA SendTyped ==
  ASSUME NEW p \in Publications, NEW g \in 0..MaxGeneration,
         NEW k \in {"upload", "status", "commit", "activate", "abort"}, NEW r
  PROVE  LET n == Send(r, p, k, g)
         IN  /\ n \in Request /\ n.kind = k /\ n.pc = "load" /\ n.publication = p
             /\ n.generation = g /\ ~n.ledgerFresh /\ ~n.manifestFresh
             /\ n.version = 0
<1> DEFINE n == Send(r, p, k, g)
<1>1. /\ n = [Idle EXCEPT !.kind = k, !.pc = "load", !.publication = p, !.generation = g]
      /\ Idle \in Request /\ ~Idle.ledgerFresh /\ ~Idle.manifestFresh
      /\ Idle.version = 0
  BY IdleTyped DEF Send, Idle
<1> HIDE DEF n
<1>2. "load" \in Pcs
  BY DEF Pcs
<1>3. /\ n \in Request /\ n.kind = k /\ n.pc = "load" /\ n.publication = p
      /\ n.generation = g /\ ~n.ledgerFresh /\ ~n.manifestFresh /\ n.version = 0
  BY <1>1, <1>2 DEF Request
<1> QED
  BY <1>3 DEF n

\* SendUpload: an issued ticket is of a generation the row has reached.
LEMMA SendUploadKeeps ==
  ASSUME WorkerInv, NEW r \in Slots, NEW p \in Publications,
         NEW g \in 1..MaxGeneration, SendUpload(r, p, g), crashes' \in 0..MaxCrashes
  PROVE  Kept
<1> DEFINE n == Send(r, p, "upload", g)
<1>1. /\ RowsFit /\ Become(r, n) /\ g \in Issued(p)
  BY StillFits DEF SendUpload
<1>2. row[p] \in Row /\ RowSound(row[p])
  BY Typed DEF WorkerInv, LedgersSound
<1>3. g \in 0..MaxGeneration /\ g >= 1 /\ g <= row[p].generation
  BY <1>1, <1>2, GenerationBound DEF Issued, RowSound, Row
<1>4. /\ n \in Request /\ n.kind = "upload" /\ n.pc = "load" /\ n.publication = p
      /\ n.generation = g /\ ~n.ledgerFresh /\ ~n.manifestFresh /\ n.version = 0
  BY <1>3, SendTyped
<1> HIDE DEF n
<1> QED
  BY <1>1, <1>3, <1>4, BeginKeeps

\* SendStatus asks with the generation the row has.
LEMMA SendStatusKeeps ==
  ASSUME WorkerInv, NEW r \in Slots, NEW p \in Publications, SendStatus(r, p),
         crashes' \in 0..MaxCrashes
  PROVE  Kept
<1> DEFINE n == Send(r, p, "status", row[p].generation)
<1>1. RowsFit /\ Become(r, n)
  BY StillFits DEF SendStatus
<1>2. row[p].generation \in 0..MaxGeneration
  BY Typed DEF Row
<1>3. row[p].generation <= row[p].generation
  BY <1>2, GenerationBound
<1>4. /\ n \in Request /\ n.kind = "status" /\ n.pc = "load" /\ n.publication = p
      /\ n.generation = row[p].generation /\ ~n.ledgerFresh /\ ~n.manifestFresh
      /\ n.version = 0
  BY <1>2, SendTyped
<1> HIDE DEF n
<1> QED
  BY <1>1, <1>3, <1>4, BeginKeeps

\* A stage that is held has an operation.
LEMMA HeldOperation ==
  ASSUME WorkerInv, NEW p \in Publications, row[p].operation # 0
  PROVE  row[p].operation \in Nat /\ row[p].operation >= 1
BY Typed DEF Row

\* SendCommit names the operation that holds the stage.
LEMMA SendCommitKeeps ==
  ASSUME WorkerInv, NEW r \in Slots, NEW p \in Publications, SendCommit(r, p),
         crashes' \in 0..MaxCrashes
  PROVE  Kept
<1> DEFINE m == Send(r, p, "commit", row[p].generation)
           n == [m EXCEPT !.operation = row[p].operation, !.previousAccess = accessVersion]
<1>1. RowsFit /\ Become(r, n) /\ row[p].operation # 0
  BY StillFits DEF SendCommit
<1>2. row[p].generation \in 0..MaxGeneration /\ accessVersion \in Nat
  BY Typed DEF Row
<1>3. row[p].generation <= row[p].generation
  BY <1>2, GenerationBound
<1>4. /\ m \in Request /\ m.kind = "commit" /\ m.pc = "load" /\ m.publication = p
      /\ m.generation = row[p].generation /\ ~m.ledgerFresh /\ ~m.manifestFresh
      /\ m.version = 0
  BY <1>2, SendTyped
<1> HIDE DEF m
<1>5. /\ n \in Request /\ n.kind = "commit" /\ n.pc = "load" /\ n.publication = p
      /\ n.generation = row[p].generation /\ ~n.ledgerFresh /\ ~n.manifestFresh
      /\ n.version = 0 /\ n.operation = row[p].operation
  BY <1>1, <1>2, <1>4, HeldOperation DEF Request
<1> HIDE DEF n
<1> QED
  BY <1>1, <1>3, <1>5, HeldOperation, BeginKeeps

\* SendActivate names the operation that holds the stage.
LEMMA SendActivateKeeps ==
  ASSUME WorkerInv, NEW r \in Slots, NEW p \in Publications, SendActivate(r, p),
         crashes' \in 0..MaxCrashes
  PROVE  Kept
<1> DEFINE m == Send(r, p, "activate", row[p].generation)
           n == [m EXCEPT !.operation = row[p].operation,
                          !.previousAccess = row[p].committedAccess,
                          !.targetAccess = row[p].targetAccess]
<1>1. RowsFit /\ Become(r, n) /\ row[p].operation # 0
  BY StillFits DEF SendActivate
<1>2. /\ row[p].generation \in 0..MaxGeneration /\ row[p].committedAccess \in Nat
      /\ row[p].targetAccess \in Nat
  BY Typed DEF Row
<1>3. row[p].generation <= row[p].generation
  BY <1>2, GenerationBound
<1>4. /\ m \in Request /\ m.kind = "activate" /\ m.pc = "load" /\ m.publication = p
      /\ m.generation = row[p].generation /\ ~m.ledgerFresh /\ ~m.manifestFresh
      /\ m.version = 0
  BY <1>2, SendTyped
<1> HIDE DEF m
<1>5. /\ n \in Request /\ n.kind = "activate" /\ n.pc = "load" /\ n.publication = p
      /\ n.generation = row[p].generation /\ ~n.ledgerFresh /\ ~n.manifestFresh
      /\ n.version = 0 /\ n.operation = row[p].operation
  BY <1>1, <1>2, <1>4, HeldOperation DEF Request
<1> HIDE DEF n
<1> QED
  BY <1>1, <1>3, <1>5, HeldOperation, BeginKeeps

\* ReadForAbort remembers what it read of the row.
LEMMA ReadForAbortKeeps ==
  ASSUME WorkerInv, NEW r \in Slots, NEW p \in Publications, ReadForAbort(r, p),
         crashes' \in 0..MaxCrashes
  PROVE  Kept
<1> DEFINE t == IF row[p].targetAccess # 0 THEN row[p].targetAccess
                                           ELSE accessVersion + 1
           m == Send(r, p, "abort", row[p].generation)
           n == [m EXCEPT !.previousAccess = row[p].committedAccess, !.targetAccess = t]
<1>1. RowsFit /\ Become(r, n)
  BY StillFits DEF ReadForAbort
<1>2. /\ row[p].generation \in 0..MaxGeneration /\ row[p].committedAccess \in Nat
      /\ t \in Nat
  BY Typed DEF Row
<1>3. row[p].generation <= row[p].generation
  BY <1>2, GenerationBound
<1>4. /\ m \in Request /\ m.kind = "abort" /\ m.pc = "load" /\ m.publication = p
      /\ m.generation = row[p].generation /\ ~m.ledgerFresh /\ ~m.manifestFresh
      /\ m.version = 0
  BY <1>2, SendTyped
<1> HIDE DEF m, t
<1>5. /\ n \in Request /\ n.kind = "abort" /\ n.pc = "load" /\ n.publication = p
      /\ n.generation = row[p].generation /\ ~n.ledgerFresh /\ ~n.manifestFresh
      /\ n.version = 0
  BY <1>2, <1>4 DEF Request
<1> HIDE DEF n
<1> QED
  BY <1>1, <1>3, <1>5, BeginKeeps

\* AbortRow discards the row and may go on as a rollback ticket.
LEMMA AbortRowKeeps ==
  ASSUME WorkerInv, NEW r \in Slots, AbortRow(r), crashes' \in 0..MaxCrashes
  PROVE  Kept
<1> DEFINE p == Slot(r)
           q == request[r]
           n == [q EXCEPT !.kind = "rollback"]
<1>0. q.kind = "abort" /\ q.pc = "load" /\ q.kind # "idle"
  BY DEF AbortRow, At
<1>1. /\ q \in Request /\ p \in Publications /\ row[p] \in Row
      /\ Knows(q, row[p], ledger[p], object[p], manifest.version)
      /\ Addressed(q, row[p], manifest.version) /\ ~q.ledgerFresh /\ ~q.manifestFresh
  BY <1>0, Running DEF Knows
<1>2. Abort(p) \/ UNCHANGED dbVars
  BY DEF AbortRow, Slot
<1>3. RowsFit
  <2>1. PlainStep
    BY <1>1, <1>2 DEF PlainStep
  <2> QED
    BY <2>1, PlainFits
<1>4. Become(r, n) \/ Finish(r)
  BY DEF AbortRow
<1>5. /\ n \in Request /\ n.kind = "rollback" /\ n.pc = "load" /\ n.publication = p
      /\ n.generation = q.generation /\ n.version = q.version
      /\ n.operation = q.operation /\ ~n.ledgerFresh /\ ~n.manifestFresh
  BY <1>0, <1>1 DEF Request, Slot
<1> HIDE DEF n
<1>6. CASE Become(r, n)
  <2>1. /\ row'[p] \in Row /\ row[p].generation <= row'[p].generation
    BY <1>1, <1>3 DEF RowsFit, RecordsTypeOK
  <2>2. Addressed(n, row'[p], manifest.version)
    BY <1>1, <1>5, <2>1 DEF Addressed, Request, Row
  <2>3. Changing(n, ledger[p], object[p])
    BY <1>5 DEF Changing
  <2>4. Knows(n, row'[p], ledger[p], object[p], manifest.version)
    BY <1>5, <2>2, <2>3 DEF Knows
  <2>5. \A o \in Publications : ~Adds(n, o) /\ ~PastRemoval(n, o)
    BY <1>5 DEF Adds, PastRemoval
  <2> QED
    BY <1>3, <1>5, <1>6, <2>4, <2>5, MoveKeeps
<1> QED
  BY <1>3, <1>4, <1>6, FinishKeeps

\* A receipt names an operation and a manifest version that exist.
LEMMA ReceiptNames ==
  ASSUME WorkerInv, NEW r \in Slots, request[r].pc = "done",
         request[r].kind \in {"commit", "activate"}
  PROVE  /\ Slot(r) \in Publications /\ request[r].operation \in Nat
         /\ request[r].operation >= 1 /\ request[r].version \in 1..MaxManifestVersion
         /\ request[r].previousAccess \in Nat /\ request[r].targetAccess \in Nat
<1>1. request[r].kind \in Ticketed
  BY DEF Ticketed
<1>2. /\ request[r] \in Request /\ Slot(r) \in Publications
      /\ Knows(request[r], row[Slot(r)], ledger[Slot(r)], object[Slot(r)],
               manifest.version)
      /\ Changing(request[r], ledger[Slot(r)], object[Slot(r)])
      /\ request[r].version <= manifest.version
  BY <1>1, TicketFinds
<1>3. Addressed(request[r], row[Slot(r)], manifest.version)
  BY <1>1, <1>2 DEF Knows, Ticketed
<1>4. request[r].version >= 1 /\ request[r].operation >= 1
  BY <1>2, <1>3 DEF Changing, Addressed
<1>5. /\ request[r].operation \in Nat /\ request[r].version \in Nat
      /\ request[r].previousAccess \in Nat /\ request[r].targetAccess \in Nat
  BY <1>2 DEF Request
<1>6. manifest.version \in Nat /\ manifest.version <= MaxManifestVersion
      /\ MaxManifestVersion \in Nat
  BY Typed, ManifestBound
<1> QED
  BY <1>2, <1>4, <1>5, <1>6

\* UseReceipt hands the database a receipt, which it may refuse.
LEMMA UseReceiptKeeps ==
  ASSUME WorkerInv, NEW r \in Slots, UseReceipt(r), crashes' \in 0..MaxCrashes
  PROVE  Kept
<1> DEFINE q == request[r]
<1>1. q.pc = "done" /\ Finish(r)
  BY DEF UseReceipt
<1>2. PlainStep
  <2>1. CASE UNCHANGED dbVars
    BY <2>1 DEF PlainStep
  <2>2. CASE q.kind = "commit"
             /\ CompleteCommit(q.publication, q.operation, q.version, q.previousAccess)
    <3>1. /\ Slot(r) \in Publications /\ q.operation \in Nat /\ q.version \in Nat
          /\ q.previousAccess \in Nat
          /\ CompleteCommit(Slot(r), q.operation, q.version, q.previousAccess)
      BY <1>1, <2>2, ReceiptNames DEF Slot
    <3> QED
      BY <3>1 DEF PlainStep
  <2>3. CASE q.kind = "activate"
             /\ CompleteActivation(q.publication, q.operation, q.version, q.targetAccess)
    <3>1. /\ Slot(r) \in Publications /\ q.operation \in Nat /\ q.version \in Nat
          /\ q.targetAccess \in Nat
          /\ CompleteActivation(Slot(r), q.operation, q.version, q.targetAccess)
      BY <1>1, <2>3, ReceiptNames DEF Slot
    <3> QED
      BY <3>1 DEF PlainStep
  <2> QED
    BY <2>1, <2>2, <2>3 DEF UseReceipt
<1> QED
  BY <1>1, <1>2, PlainFits, FinishKeeps

-----------------------------------------------------------------------------
(* Steps no invocation takes.                                                *)

\* An RPC of the database alone, or an instant that passes there.
LEMMA QuietKeeps ==
  ASSUME WorkerInv, RowsFit, UNCHANGED <<storeVars, request>>,
         crashes' \in 0..MaxCrashes
  PROVE  Kept
<1>0. ledger' = ledger /\ manifest' = manifest /\ object' = object /\ request' = request
  BY DEF storeVars
<1>1. /\ RecordsTypeOK' /\ request \in [Slots -> Request] /\ manifest.version \in Nat
      /\ row \in [Publications -> Row] /\ row' \in [Publications -> Row]
      /\ ledger \in [Publications -> Ledger]
  BY Typed DEF RowsFit, RecordsTypeOK
<1>2. TypeOK' /\ ManifestSound'
  BY <1>0, <1>1 DEF TypeOK, ManifestSound, WorkerInv
<1>3. LedgersSound'
  <2> SUFFICES ASSUME NEW p \in Publications
               PROVE  RowSound(row'[p])
                      /\ LedgerSound(ledger[p], row'[p], object[p], manifest.version)
    BY <1>0 DEF LedgersSound
  <2>1. /\ LedgerSound(ledger[p], row[p], object[p], manifest.version)
        /\ row[p].generation \in Nat /\ row'[p].generation \in Nat
        /\ ledger[p].generation \in Nat
    BY <1>1 DEF WorkerInv, LedgersSound, Row, Ledger
  <2> QED
    BY <2>1 DEF LedgerSound, RowsFit, Closed
<1>4. RemovalSound'
  BY <1>0 DEF WorkerInv, RemovalSound, Unlisted, Closed
<1>5. ASSUME NEW s \in Slots
      PROVE  SlotSound(s)'
  <2> DEFINE q == request[s]
             p == q.publication
  <2>1. q \in Request /\ Knows(q, row[p], ledger[p], object[p], manifest.version)
    BY <1>1 DEF WorkerInv, SlotSound
  <2>2. Knows(q, row'[p], ledger[p], object[p], manifest.version)
    <3>1. CASE q.kind = "idle"
      BY <2>1, <3>1 DEF Knows, Ticketed
    <3>2. CASE q.kind # "idle"
      <4>1. p \in Publications
        BY <2>1, <3>2 DEF Knows, Addressed
      <4>2. /\ row[p] \in Row /\ row'[p] \in Row
            /\ row[p].generation <= row'[p].generation
            /\ row[p].state \in Terminal => row'[p].state \in Terminal
            /\ manifest.version <= manifest.version
        BY <1>1, <4>1 DEF RowsFit
      <4> QED
        BY <1>1, <2>1, <4>2, KnownOnward
    <3> QED
      BY <3>1, <3>2
  <2> QED
    BY <1>0, <2>2 DEF SlotSound
<1>6. StoreForward
  <2> SUFFICES ASSUME NEW p \in Publications
               PROVE  /\ ledger[p].generation >= ledger[p].generation
                      /\ Closed(p) => manifest.documents[p] = "absent"
    BY <1>0 DEF StoreForward
  <2>1. ledger[p].generation \in Nat
    BY <1>1 DEF Ledger
  <2> QED
    BY <2>1 DEF WorkerInv, RemovalSound, Unlisted
<1> QED
  BY <1>2, <1>3, <1>4, <1>5, <1>6 DEF Kept, WorkerInv

\* A ledger that is only marked as settled is known as before.
LEMMA KnownSettled ==
  ASSUME NEW q, NEW r, NEW l, NEW m, NEW o, NEW v, Knows(q, r, l, o, v),
         l.status = "cleanup_pending", m.status = l.status,
         m.generation = l.generation
  PROVE  Knows(q, r, m, o, v)
<1>1. l.status \notin Activatable \cup {"absent", "receiving"}
  BY DEF Activatable
<1>2. Uploading(q, l, o) => Uploading(q, m, o)
  BY <1>1 DEF Uploading
<1>3. Changing(q, l, o) => Changing(q, m, o)
  BY <1>1 DEF Changing
<1>4. Cleaning(q, l, o) => Cleaning(q, m, o)
  BY DEF Cleaning
<1> QED
  BY <1>2, <1>3, <1>4 DEF Knows

\* QuiescencePasses: nobody relies on a ledger that waits for its ten minutes.
LEMMA QuiescenceKeeps ==
  ASSUME WorkerInv, NEW p \in Publications, QuiescencePasses(p),
         crashes' \in 0..MaxCrashes
  PROVE  Kept
<1> DEFINE l == ledger[p]
           m == [l EXCEPT !.settled = TRUE]
<1>0. /\ row' = row /\ accessVersion' = accessVersion /\ lectureOpen' = lectureOpen
      /\ manifest' = manifest /\ object' = object /\ request' = request
      /\ l.status = "cleanup_pending"
  BY DEF QuiescencePasses, dbVars
<1>1. /\ RecordsTypeOK /\ ledger \in [Publications -> Ledger] /\ l \in Ledger
      /\ request \in [Slots -> Request]
  BY Typed
<1>2. /\ m \in Ledger /\ m.status = l.status /\ m.generation = l.generation
      /\ m.version = l.version
  BY <1>1 DEF Ledger
<1>3. ledger' = [ledger EXCEPT ![p] = m]
  BY DEF QuiescencePasses
<1> HIDE DEF m
<1>4. /\ ledger' \in [Publications -> Ledger]
      /\ \A o \in Publications : ledger'[o] = IF o = p THEN m ELSE ledger[o]
  BY <1>1, <1>2, <1>3
<1>5. TypeOK' /\ ManifestSound'
  BY <1>0, <1>1, <1>4 DEF TypeOK, RecordsTypeOK, ManifestSound, WorkerInv
<1>6. LedgersSound'
  <2> SUFFICES ASSUME NEW o \in Publications
               PROVE  RowSound(row[o])
                      /\ LedgerSound(ledger'[o], row[o], object[o], manifest.version)
    BY <1>0 DEF LedgersSound
  <2>1. RowSound(row[o]) /\ LedgerSound(ledger[o], row[o], object[o], manifest.version)
    BY DEF WorkerInv, LedgersSound
  <2> QED
    BY <1>0, <1>2, <1>4, <2>1 DEF LedgerSound
<1>7. \A o \in Publications : Closed(o)' <=> Closed(o)
  BY <1>0, <1>2, <1>4 DEF Closed
<1>8. RemovalSound'
  BY <1>0, <1>7 DEF WorkerInv, RemovalSound, Unlisted
<1>9. ASSUME NEW s \in Slots
      PROVE  SlotSound(s)'
  <2> DEFINE q == request[s]
             o == q.publication
  <2>1. Knows(q, row[o], ledger[o], object[o], manifest.version)
    BY DEF WorkerInv, SlotSound
  <2>2. Knows(q, row[o], ledger'[o], object[o], manifest.version)
    <3>1. CASE q.kind = "idle"
      BY <2>1, <3>1 DEF Knows, Ticketed
    <3>2. CASE q.kind # "idle" /\ o # p
      <4>1. o \in Publications
        BY <2>1, <3>2 DEF Knows, Addressed
      <4> QED
        BY <1>4, <2>1, <3>2, <4>1
    <3>3. CASE o = p
      <4>1. ledger'[o] = m
        BY <1>4, <3>3
      <4> QED
        BY <1>0, <1>2, <2>1, <3>3, <4>1, KnownSettled
    <3> QED
      BY <3>1, <3>2, <3>3
  <2> QED
    BY <1>0, <2>2 DEF SlotSound
<1>10. StoreForward
  <2> SUFFICES ASSUME NEW o \in Publications
               PROVE  /\ ledger'[o].generation >= ledger[o].generation
                      /\ Closed(o) => ledger'[o] = ledger[o]
                                      /\ manifest.documents[o] = "absent"
    BY <1>0 DEF StoreForward
  <2>1. ledger[o].generation \in Nat
    BY <1>1 DEF Ledger
  <2> QED
    BY <1>0, <1>2, <1>4, <2>1 DEF WorkerInv, RemovalSound, Unlisted, Closed
<1> QED
  BY <1>5, <1>6, <1>8, <1>9, <1>10 DEF Kept, WorkerInv

-----------------------------------------------------------------------------
(* The whole system.                                                         *)

\* The invariant holds initially.
LEMMA WorkerInit ==
  ASSUME Init
  PROVE  WorkerInv
<1>0. /\ row = [p \in Publications |-> NoRow] /\ accessVersion = 1 /\ lectureOpen = TRUE
      /\ ledger = [p \in Publications |-> NoLedger]
      /\ object = [p \in Publications |-> "absent"]
      /\ request = [s \in Slots |-> Idle] /\ crashes = 0
      /\ manifest = [exists |-> FALSE, access |-> 0, version |-> 0,
                     documents |-> [p \in Publications |-> "absent"]]
  BY DEF Init, DBInit, StoreInit, Slots
<1>1. RecordsTypeOK
  BY InitTyped DEF Init
<1>2. manifest \in Manifest
  <2>1. 0 \in 0..MaxManifestVersion /\ 0 \in Nat
    BY ManifestBound
  <2> QED
    BY <1>0, <2>1 DEF Manifest
<1>3. crashes \in 0..MaxCrashes
  BY <1>0, CrashBound
<1>4. TypeOK
  BY <1>0, <1>1, <1>2, <1>3, NoLedgerTyped, IdleTyped DEF TypeOK, Slots
<1>5. ManifestSound
  BY <1>0 DEF ManifestSound
<1>6. LedgersSound
  <2> SUFFICES ASSUME NEW p \in Publications
               PROVE  RowSound(row[p])
                      /\ LedgerSound(ledger[p], row[p], object[p], manifest.version)
    BY DEF LedgersSound
  <2>1. row[p] = NoRow /\ ledger[p] = NoLedger /\ object[p] = "absent"
        /\ manifest.version = 0
    BY <1>0
  <2>2. RowSound(NoRow)
    BY OperationBound, RecordedStates DEF RowSound, NoRow
  <2>3. LedgerSound(NoLedger, NoRow, "absent", 0)
    BY RecordedStates DEF LedgerSound, NoLedger, NoRow, Activatable
  <2> QED
    BY <2>1, <2>2, <2>3
<1>7. ASSUME NEW s \in Slots
      PROVE  request[s] = Idle /\ SlotSound(s)
  BY <1>0, <1>7, IdleTyped DEF SlotSound, Knows, Ticketed
<1>8. RemovalSound
  <2> SUFFICES ASSUME NEW p \in Publications
               PROVE  ~Closed(p) /\ \A s \in Slots : ~PastRemoval(request[s], p)
    BY DEF RemovalSound
  <2>1. ~Closed(p)
    BY <1>0 DEF Closed, NoLedger
  <2> QED
    BY <1>7, <2>1, IdleTyped DEF PastRemoval
<1> QED
  BY <1>4, <1>5, <1>6, <1>7, <1>8 DEF WorkerInv

\* Every step of an upload or status request.
LEMMA UploadStepKeeps ==
  ASSUME WorkerInv, NEW r \in Slots, UploadStep(r), crashes' \in 0..MaxCrashes
  PROVE  Kept
BY UploadLoadKeeps, UploadClaimKeeps, UploadOpenKeeps, RecoverKeeps, UploadBodyKeeps,
   UploadStoredKeeps, StatusLoadKeeps, RecordReceiptKeeps
   DEF UploadStep

\* Every step of a commit, activate or rollback ticket.
LEMMA ManifestStepKeeps ==
  ASSUME WorkerInv, NEW r \in Slots, ManifestStep(r), crashes' \in 0..MaxCrashes
  PROVE  Kept
BY ManifestTicketLoadKeeps, FenceKeeps, CommitDecideKeeps, CommitRecoverKeeps,
   CommitPutKeeps, CommitLedgerKeeps, ActivateDecideKeeps, ActivateRecoverKeeps,
   ActivatePrepareKeeps, ActivatePutKeeps, ActivateLedgerKeeps, RollbackDecideKeeps,
   RollbackPutKeeps, RollbackLedgerKeeps
   DEF ManifestStep

\* Every step of a cleanup pass.
LEMMA CleanupStepKeeps ==
  ASSUME WorkerInv, NEW c \in Cleaners, CleanupStep(c), crashes' \in 0..MaxCrashes
  PROVE  Kept
<1>1. c \in Slots
  BY DEF Slots
<1> QED
  BY <1>1, CleanupLoadKeeps, CleanupQuiesceKeeps, CleanupSentinelKeeps,
     CleanupRollbackKeeps, CleanupRestoreKeeps, CleanupMarkKeeps,
     CleanupRemoveLoadKeeps, CleanupRemoveKeeps, CleanupRecheckKeeps,
     CleanupTombstoneKeeps, CleanupCloseKeeps, CleanupReportKeeps
     DEF CleanupStep

\* Every request that arrives.
LEMMA ArrivalKeeps ==
  ASSUME WorkerInv, NEW r \in Slots, NEW p \in Publications, Arrival(r, p),
         crashes' \in 0..MaxCrashes
  PROVE  Kept
BY SendUploadKeeps, SendStatusKeeps, SendCommitKeeps, SendActivateKeeps,
   ReadForAbortKeeps
   DEF Arrival

\* The RPCs no invocation takes part in are plain.
LEMMA RecordStepPlain ==
  ASSUME NEW p \in Publications, RecordStep(p)
  PROVE  PlainStep
BY DEF RecordStep, PlainStep

\* Every step of the system keeps the invariant and undoes nothing.
LEMMA WorkerStep ==
  ASSUME WorkerInv, [Next]_vars
  PROVE  Kept
<1>0. crashes \in 0..MaxCrashes /\ crashes \in Nat
  BY CrashBound DEF WorkerInv, TypeOK
<1>1. ASSUME NEW r \in Requests, RequestStep(r) \/ \E p \in Publications : Arrival(r, p),
             UNCHANGED crashes
      PROVE  Kept
  <2>1. r \in Slots /\ crashes' \in 0..MaxCrashes
    BY <1>0, <1>1 DEF Slots
  <2>2. CASE UploadStep(r)
    BY <2>1, <2>2, UploadStepKeeps
  <2>3. CASE ManifestStep(r)
    BY <2>1, <2>3, ManifestStepKeeps
  <2>4. CASE EdgeStep(r)
    BY <2>1, <2>4, UseReceiptKeeps, AbortRowKeeps DEF EdgeStep
  <2>5. CASE \E p \in Publications : Arrival(r, p)
    BY <2>1, <2>5, ArrivalKeeps
  <2> QED
    BY <1>1, <2>2, <2>3, <2>4, <2>5 DEF RequestStep
<1>2. ASSUME NEW c \in Cleaners,
             CleanupStep(c) \/ \E p \in Publications : CleanupClaim(c, p),
             UNCHANGED crashes
      PROVE  Kept
  BY <1>0, <1>2, CleanupStepKeeps, CleanupClaimKeeps
<1>3. ASSUME NEW p \in Publications, RecordStep(p),
             UNCHANGED <<storeVars, request, crashes>>
      PROVE  Kept
  BY <1>0, <1>3, RecordStepPlain, PlainFits, QuietKeeps
<1>4. ASSUME NEW p \in Publications, QuiescencePasses(p), UNCHANGED crashes
      PROVE  Kept
  BY <1>0, <1>4, QuiescenceKeeps
<1>5. CASE CloseLecture /\ UNCHANGED <<storeVars, request, crashes>>
  <2>1. PlainStep
    BY <1>5 DEF PlainStep
  <2> QED
    BY <1>0, <1>5, <2>1, PlainFits, QuietKeeps
<1>6. ASSUME NEW r \in Slots, Crash(r)
      PROVE  Kept
  <2>1. UNCHANGED dbVars /\ Finish(r) /\ crashes' = crashes + 1 /\ crashes < MaxCrashes
    BY <1>6 DEF Crash
  <2>2. crashes' \in 0..MaxCrashes
    BY <1>0, <2>1, CrashBound
  <2> QED
    BY <2>1, <2>2, StillFits, FinishKeeps
<1>7. CASE UNCHANGED vars
  <2>1. UNCHANGED dbVars /\ UNCHANGED <<storeVars, request>> /\ crashes' = crashes
    BY <1>7 DEF vars
  <2> QED
    BY <1>0, <2>1, StillFits, QuietKeeps
<1> QED
  BY <1>1, <1>2, <1>3, <1>4, <1>5, <1>6, <1>7 DEF Next, Slots

\* The inductive invariant holds of every reachable state.
THEOREM Guaranteed == Spec => []WorkerInv
<1>1. Init => WorkerInv
  BY WorkerInit
<1>2. WorkerInv /\ [Next]_vars => WorkerInv'
  BY WorkerStep DEF Kept
<1> QED
  BY <1>1, <1>2, PTL DEF Spec

-----------------------------------------------------------------------------
(* The guarantees.                                                           *)

\* TypeOK: no handler, reply or crash leaves a stored record malformed.
THEOREM WorkerTyped == Spec => []TypeOK
<1>1. WorkerInv => TypeOK
  BY DEF WorkerInv
<1> QED
  BY <1>1, Guaranteed, PTL

\* UploadSound: what a row says was uploaded is in the bucket, under a ledger of
\* the row's own ticket generation, and the generation's nonce was used.
THEOREM UploadHeld == Spec => []UploadSound
<1>1. ASSUME WorkerInv PROVE UploadSound
  <2> SUFFICES ASSUME NEW p \in Publications, row[p].state \in Recorded
               PROVE  /\ object[p] = "pdf" /\ ledger[p].generation = row[p].generation
                      /\ row[p].attempt = row[p].generation
    BY DEF UploadSound, RecordedStored, ReceiptOfGeneration, Recorded
  <2> QED
    BY <1>1 DEF WorkerInv, LedgersSound, LedgerSound, RowSound
<1> QED
  BY <1>1, Guaranteed, PTL

\* CleanupSound: a cleanup the database counts as done left no manifest entry, no
\* bytes and no ledger an old ticket could go on with.
THEOREM CleanupHeld == Spec => []CleanupSound
<1>1. ASSUME WorkerInv PROVE CleanupSound
  <2> SUFFICES ASSUME NEW p \in Publications, row[p].cleanup = "done"
               PROVE  /\ ledger[p].status = "cleanup_complete"
                      /\ object[p] = "tombstone"
                      /\ manifest.documents[p] = "absent"
    BY DEF CleanupSound
  <2>1. ledger[p].status = "cleanup_complete" /\ object[p] = "tombstone"
    BY <1>1 DEF WorkerInv, LedgersSound, LedgerSound
  <2> QED
    BY <1>1, <2>1 DEF WorkerInv, RemovalSound, Unlisted, Closed
<1> QED
  BY <1>1, Guaranteed, PTL

\* GenerationsForward: no invocation takes a ledger back to an older ticket.
THEOREM GenerationsHeld == Spec => GenerationsForward
<1>1. WorkerInv /\ [Next]_vars =>
        [\A p \in Publications : ledger'[p].generation >= ledger[p].generation]_vars
  BY WorkerStep DEF Kept, StoreForward
<1> QED
  BY <1>1, Guaranteed, PTL DEF Spec, GenerationsForward

\* SentinelsStay: a tombstone and a closed ledger are never overwritten, and a
\* closed publication is never listed again.
THEOREM SentinelsHeld == Spec => SentinelsStay
<1>1. WorkerInv /\ [Next]_vars =>
        [\A p \in Publications :
           /\ object[p] = "tombstone" => object'[p] = "tombstone"
           /\ ledger[p].status = "cleanup_complete" => ledger'[p] = ledger[p]
           /\ ledger[p].status = "cleanup_complete" =>
                manifest'.documents[p] = "absent"]_vars
  BY WorkerStep DEF Kept, StoreForward, Closed
<1> QED
  BY <1>1, Guaranteed, PTL DEF Spec, SentinelsStay

-----------------------------------------------------------------------------
(* The database's part of every step is a step of PublicationRecords.        *)

\* Uploads claim nonces and record receipts.
LEMMA UploadRecords ==
  ASSUME WorkerInv, NEW r \in Slots, UploadStep(r)
  PROVE  DBNext \/ UNCHANGED dbVars
<1>1. CASE UploadClaim(r)
  <2> DEFINE p == Slot(r)
             g == request[r].generation
  <2>1. request[r].kind = "upload" /\ request[r].kind # "idle"
    BY <1>1 DEF UploadClaim, At
  <2>2. p \in Publications /\ g \in 1..MaxGeneration
    <3>1. p \in Publications /\ request[r] \in Request
          /\ Addressed(request[r], row[p], manifest.version)
      BY <2>1, Running
    <3> QED
      BY <2>1, <3>1, GenerationBound DEF Addressed, Request
  <2>3. ClaimNonce(p, g) \/ UNCHANGED dbVars
    BY <1>1 DEF UploadClaim, Slot
  <2> QED
    BY <2>2, <2>3 DEF DBNext
<1>2. CASE RecordReceipt(r)
  <2> DEFINE p == Slot(r)
             g == request[r].generation
  <2>1. request[r].kind # "idle"
    BY <1>2 DEF RecordReceipt
  <2>2. p \in Publications /\ g \in 0..MaxGeneration
    BY <2>1, Running DEF Request
  <2>3. UNCHANGED dbVars \/ (RecordUploaded(p, g) /\ g # 0)
    BY <1>2 DEF RecordReceipt, RecordUploaded, ReceiptExpected, Slot
  <2>4. g # 0 => g \in 1..MaxGeneration
    BY <2>2, GenerationBound
  <2> QED
    BY <2>2, <2>3, <2>4 DEF DBNext
<1>3. CASE ~UploadClaim(r) /\ ~RecordReceipt(r)
  BY <1>3 DEF UploadStep, UploadLoad, UploadOpen, Recover, UploadBody, UploadStored,
              StatusLoad
<1> QED
  BY <1>1, <1>2, <1>3

\* Tickets that change the manifest leave the database alone.
LEMMA ManifestRecords ==
  ASSUME NEW r, ManifestStep(r)
  PROVE  UNCHANGED dbVars
BY DEF ManifestStep, ManifestTicketLoad, Fence, CommitDecide, CommitRecover, CommitPut,
       CommitLedger, ActivateDecide, ActivateRecover, ActivatePrepare, ActivatePut,
       ActivateLedger, RollbackDecide, RollbackPut, RollbackLedger

\* Cleanup passes report to the database.
LEMMA CleanupRecords ==
  ASSUME WorkerInv, NEW c \in Cleaners, CleanupStep(c)
  PROVE  DBNext \/ UNCHANGED dbVars
<1>1. CASE CleanupReport(c)
  <2>1. c \in Slots /\ request[c].kind = "cleanup"
    BY <1>1 DEF CleanupReport, Slots
  <2>2. Slot(c) \in Publications
    BY <2>1, CleanupFinds
  <2>3. (request[c].pc = "succeeded") \in BOOLEAN
    OBVIOUS
  <2>4. \/ UNCHANGED dbVars
        \/ CompleteCleanup(Slot(c), c, request[c].pc = "succeeded")
    BY <1>1 DEF CleanupReport, Slot
  <2> QED
    BY <2>2, <2>3, <2>4 DEF DBNext
<1>2. CASE ~CleanupReport(c)
  BY <1>2 DEF CleanupStep, CleanupLoad, CleanupQuiesce, CleanupSentinel, CleanupRollback,
              CleanupRestore, CleanupMark, CleanupRemoveLoad, CleanupRemove,
              CleanupRecheck, CleanupTombstone, CleanupClose
<1> QED
  BY <1>1, <1>2

\* A receipt the database accepts is one of those PublicationRecords allows for.
LEMMA ReceiptRecords ==
  ASSUME WorkerInv, NEW r \in Slots, UseReceipt(r)
  PROVE  DBNext \/ UNCHANGED dbVars
<1> DEFINE q == request[r]
           p == Slot(r)
<1>0. q.pc = "done"
  BY DEF UseReceipt
<1>1. CASE UNCHANGED dbVars
  BY <1>1
<1>2. ASSUME q.kind \in {"commit", "activate"}, row[p].operation = q.operation
      PROVE  /\ p \in Publications /\ q.operation \in 1..MaxOperations
             /\ q.version \in ManifestVersions
  <2>1. /\ p \in Publications /\ q.operation \in Nat /\ q.operation >= 1
        /\ q.version \in 1..MaxManifestVersion
    BY <1>0, <1>2, ReceiptNames
  <2>2. q.operation <= MaxOperations
    BY <1>2, <2>1 DEF WorkerInv, LedgersSound, RowSound
  <2> QED
    BY <2>1, <2>2, OperationBound, ManifestBound
<1>3. CASE q.kind = "commit"
           /\ CompleteCommit(q.publication, q.operation, q.version, q.previousAccess)
  <2>1. /\ CompleteCommit(p, q.operation, q.version, q.previousAccess)
        /\ row[p].operation = q.operation /\ q.previousAccess = accessVersion
    BY <1>3 DEF CompleteCommit, Slot
  <2>2. Receipts(p) /\ p \in Publications
    BY <1>2, <1>3, <2>1 DEF Receipts
  <2> QED
    BY <2>2 DEF DBNext
<1>4. CASE q.kind = "activate"
           /\ CompleteActivation(q.publication, q.operation, q.version, q.targetAccess)
  <2>1. /\ CompleteActivation(p, q.operation, q.version, q.targetAccess)
        /\ row[p].operation = q.operation /\ q.targetAccess = accessVersion + 1
    BY <1>4 DEF CompleteActivation, ActivationDue, Slot
  <2>2. Receipts(p) /\ p \in Publications
    BY <1>2, <1>4, <2>1 DEF Receipts
  <2> QED
    BY <2>2 DEF DBNext
<1> QED
  BY <1>1, <1>3, <1>4 DEF UseReceipt

\* An abort is the RPC of that name, or nothing.
LEMMA AbortRecords ==
  ASSUME WorkerInv, NEW r \in Slots, AbortRow(r)
  PROVE  DBNext \/ UNCHANGED dbVars
<1>1. request[r].kind # "idle"
  BY DEF AbortRow, At
<1>2. Slot(r) \in Publications
  BY <1>1, Running
<1>3. Abort(Slot(r)) \/ UNCHANGED dbVars
  BY DEF AbortRow, Slot
<1> QED
  BY <1>2, <1>3 DEF DBNext

\* Arriving changes nothing in the database.
LEMMA ArrivalRecords ==
  ASSUME NEW r, NEW p, Arrival(r, p)
  PROVE  UNCHANGED dbVars
BY DEF Arrival, SendUpload, SendStatus, SendCommit, SendActivate, ReadForAbort

\* Every step is one of the database's own specification, or leaves it alone.
LEMMA RecordsStep ==
  ASSUME WorkerInv, [Next]_vars
  PROVE  [DBNext]_dbVars
<1>1. ASSUME NEW r \in Requests, RequestStep(r) \/ \E p \in Publications : Arrival(r, p)
      PROVE  DBNext \/ UNCHANGED dbVars
  <2>1. r \in Slots
    BY DEF Slots
  <2> QED
    BY <1>1, <2>1, UploadRecords, ManifestRecords, ReceiptRecords, AbortRecords,
       ArrivalRecords
       DEF RequestStep, EdgeStep
<1>2. ASSUME NEW c \in Cleaners,
             CleanupStep(c) \/ \E p \in Publications : CleanupClaim(c, p)
      PROVE  DBNext \/ UNCHANGED dbVars
  <2>1. CASE CleanupStep(c)
    BY <2>1, CleanupRecords
  <2>2. ASSUME NEW p \in Publications, CleanupClaim(c, p)
        PROVE  DBNext
    BY <2>2 DEF CleanupClaim, DBNext
  <2> QED
    BY <1>2, <2>1, <2>2
<1>3. ASSUME NEW p \in Publications, RecordStep(p)
      PROVE  DBNext
  BY <1>3 DEF RecordStep, DBNext
<1>4. ASSUME NEW p \in Publications, QuiescencePasses(p)
      PROVE  UNCHANGED dbVars
  BY <1>4 DEF QuiescencePasses
<1>5. CASE CloseLecture
  BY <1>5 DEF DBNext
<1>6. ASSUME NEW r \in Requests \cup Cleaners, Crash(r)
      PROVE  UNCHANGED dbVars
  BY <1>6 DEF Crash
<1>7. CASE UNCHANGED vars
  BY <1>7 DEF vars
<1> QED
  BY <1>1, <1>2, <1>3, <1>4, <1>5, <1>6, <1>7 DEF Next

\* ImplementsRecords: with the Worker and the Edge function around it, the database
\* goes through steps of PublicationRecords only.
THEOREM RecordsImplemented == Spec => ImplementsRecords
<1>1. Init => DBInit
  BY DEF Init
<1> QED
  BY <1>1, RecordsStep, Guaranteed, PTL DEF Spec, DBSpec, ImplementsRecords

\* ActivationFence holds of the whole system.
THEOREM FenceComposed == Spec => []ActivationFence
BY RecordsImplemented, FenceHeld, PTL DEF ImplementsRecords

\* AccessHistory holds of the whole system.
THEOREM HistoryComposed == Spec => []AccessHistory
BY RecordsImplemented, HistoryHeld, PTL DEF ImplementsRecords

\* NewestIsActive holds of the whole system.
THEOREM NewestComposed == Spec => []NewestIsActive
BY RecordsImplemented, NewestHeld, PTL DEF ImplementsRecords

\* ForwardOnly holds of the whole system.
THEOREM ForwardComposed == Spec => ForwardOnly
BY RecordsImplemented, ForwardHeld, PTL DEF ImplementsRecords
=============================================================================
