----------------------- MODULE PublicationRecords_proofs -----------------------
(***************************************************************************)
(* What the database alone guarantees, for any number of publications,      *)
(* documents, cleaners and finalizers.                                      *)
(***************************************************************************)
EXTENDS PublicationRecords, TLAPS

-----------------------------------------------------------------------------
(* The shape of the rows.                                                   *)

\* The states one by one.
LEMMA StatesListed ==
  /\ States = {"none", "active", "pending", "uploaded", "committed",
               "aborted", "expired", "retired"}
  /\ Discarded = {"aborted", "expired"}
  /\ Inflight = {"pending", "uploaded", "committed"}
  /\ Terminal = {"aborted", "expired", "retired"}
  /\ Published = {"active", "retired"}
BY DEF States, Inflight, Terminal, Discarded, Published

\* Which names are states.
LEMMA StateNames ==
  /\ "pending" \in States /\ "uploaded" \in States /\ "committed" \in States
  /\ "active" \in States /\ "retired" \in States
BY StatesListed

\* A generation that is moved on or remembered stays a generation.
LEMMA Generations ==
  ASSUME NEW r \in Row
  PROVE  /\ 0 \in 0..MaxGeneration
         /\ 1 \in 0..MaxGeneration
         /\ NextGeneration(r.generation) \in 0..MaxGeneration
         /\ CaptureCleanupBinding(r) \in 0..MaxGeneration
BY GenerationBound DEF Row, NextGeneration, CaptureCleanupBinding

\* Discarding a row makes a row.
LEMMA DiscardedRow ==
  ASSUME NEW r \in Row, NEW s \in Discarded
  PROVE  Discard(r, s) \in Row
<1>1. s \in States
  BY StatesListed
<1> QED
  BY <1>1, Generations DEF Discard, Row

\* So does the expiry that precedes a cleanup claim.
LEMMA ExpiredRow ==
  ASSUME NEW r \in Row
  PROVE  Expired(r) \in Row
BY DiscardedRow, StatesListed DEF Expired

\* Writing one well-formed row keeps the table well formed.
LEMMA UpdateTyped ==
  ASSUME RecordsTypeOK, NEW p \in Publications, NEW new \in Row,
         Update(p, new)
  PROVE  RecordsTypeOK'
BY DEF RecordsTypeOK, Update

\* The initial rows are well formed.
LEMMA InitTyped == DBInit => RecordsTypeOK
<1>1. NoRow \in Row
  BY GenerationBound, StatesListed DEF NoRow, Row
<1> QED
  BY <1>1 DEF DBInit, RecordsTypeOK

\* Every RPC writes well-formed rows.
LEMMA StepTyped == RecordsTypeOK /\ [DBNext]_dbVars => RecordsTypeOK'
<1> SUFFICES ASSUME RecordsTypeOK, [DBNext]_dbVars
             PROVE  RecordsTypeOK'
  OBVIOUS
<1>0. /\ row \in [Publications -> Row]
      /\ lectureOpen \in BOOLEAN
      /\ accessVersion \in Nat \ {0}
  BY DEF RecordsTypeOK
<1>1. CASE CloseLecture
  <2>1. \A p \in Publications :
          row[p].state \in Inflight => Discard(row[p], "aborted") \in Row
    BY <1>0, DiscardedRow, StatesListed
  <2> QED
    BY <1>0, <1>1, <2>1 DEF CloseLecture, RecordsTypeOK
<1>2. ASSUME NEW p \in Publications, Create(p)
      PROVE  RecordsTypeOK'
  <2>1. ASSUME NEW r \in Row
        PROVE  [r EXCEPT !.state = "pending", !.generation = 1] \in Row
    BY Generations, StateNames DEF Row
  <2>2. [row[p] EXCEPT !.state = "pending", !.generation = 1] \in Row
    BY <1>0, <2>1
  <2> QED
    BY <1>2, <2>2, UpdateTyped DEF Create
<1>3. ASSUME NEW p \in Publications, Reissue(p)
      PROVE  RecordsTypeOK'
  <2>1. row[p].generation + 1 \in 0..MaxGeneration
    BY <1>0, <1>3, GenerationBound DEF Reissue, Row
  <2>2. ASSUME NEW r \in Row, NEW g \in 0..MaxGeneration
        PROVE  [r EXCEPT !.generation = g, !.attempt = 0, !.lease = "none"] \in Row
    BY Generations DEF Row
  <2>3. [row[p] EXCEPT !.generation = @ + 1, !.attempt = 0, !.lease = "none"]
          \in Row
    BY <1>0, <2>1, <2>2
  <2> QED
    BY <1>3, <2>3, UpdateTyped DEF Reissue
<1>4. ASSUME NEW p \in Publications, NEW g \in 1..MaxGeneration,
             ClaimNonce(p, g)
      PROVE  RecordsTypeOK'
  <2>1. g \in 0..MaxGeneration
    BY GenerationBound
  <2>2. ASSUME NEW r \in Row
        PROVE  [r EXCEPT !.attempt = g, !.lease = "live"] \in Row
    BY <2>1 DEF Row
  <2>3. [row[p] EXCEPT !.attempt = g, !.lease = "live"] \in Row
    BY <1>0, <2>2
  <2> QED
    BY <1>4, <2>3, UpdateTyped DEF ClaimNonce
<1>5. ASSUME NEW p \in Publications, NEW g \in 1..MaxGeneration,
             RecordUploaded(p, g)
      PROVE  RecordsTypeOK'
  <2>1. ASSUME NEW r \in Row
        PROVE  [r EXCEPT !.state = "uploaded", !.uploaded = TRUE, !.lease = "none"] \in Row
    BY StateNames DEF Row
  <2>2. ASSUME NEW r \in Row, NEW s \in States, NEW b \in 0..MaxGeneration
        PROVE  [r EXCEPT !.state = s, !.uploaded = TRUE, !.lease = "none",
                         !.cleanupGeneration = b,
                         !.cleanup = "due", !.cleaner = NoCleaner] \in Row
    BY DEF Row
  <2>3. CaptureCleanupBinding(row[p]) \in 0..MaxGeneration
    BY <1>0, Generations
  <2>4. [row[p] EXCEPT !.state = "uploaded", !.uploaded = TRUE, !.lease = "none"] \in Row
    BY <1>0, <2>1
  <2>5. ASSUME NEW s \in Discarded
        PROVE  [row[p] EXCEPT !.state = s, !.uploaded = TRUE,
                  !.lease = "none",
                  !.cleanupGeneration = CaptureCleanupBinding(row[p]),
                  !.cleanup = "due", !.cleaner = NoCleaner] \in Row
    BY <1>0, <2>2, <2>3, StatesListed
  <2> QED
    BY <1>5, <2>4, <2>5, UpdateTyped, StatesListed DEF RecordUploaded
<1>6. ASSUME NEW p \in Publications, PrepareCommit(p)
      PROVE  RecordsTypeOK'
  <2>1. row[p].operation + 1 \in Nat
    BY <1>0 DEF Row
  <2>2. ASSUME NEW r \in Row, NEW n \in Nat
        PROVE  [r EXCEPT !.operation = n, !.lease = "live"] \in Row
    BY DEF Row
  <2>3. [row[p] EXCEPT !.operation = @ + 1, !.lease = "live"] \in Row
    BY <1>0, <2>1, <2>2
  <2> QED
    BY <1>6, <2>3, UpdateTyped DEF PrepareCommit
<1>7. ASSUME NEW p \in Publications, PrepareActivation(p)
      PROVE  RecordsTypeOK'
  <2>1. row[p].operation + 1 \in Nat /\ accessVersion + 1 \in Nat
    BY <1>0 DEF Row
  <2>2. ASSUME NEW r \in Row, NEW n \in Nat, NEW a \in Nat
        PROVE  [r EXCEPT !.operation = n, !.lease = "live", !.targetAccess = a] \in Row
    BY DEF Row
  <2>3. [row[p] EXCEPT !.operation = @ + 1, !.lease = "live",
                       !.targetAccess = accessVersion + 1] \in Row
    BY <1>0, <2>1, <2>2
  <2> QED
    BY <1>7, <2>3, UpdateTyped DEF PrepareActivation
<1>8. ASSUME NEW p \in Publications, Receipts(p)
      PROVE  RecordsTypeOK'
  <2>1. PICK operation \in 1..MaxOperations, version \in ManifestVersions :
          \/ \E access \in {accessVersion, accessVersion + 1} :
               CompleteCommit(p, operation, version, access)
          \/ \E access \in {row[p].targetAccess, accessVersion + 1} :
               CompleteActivation(p, operation, version, access)
    BY <1>8 DEF Receipts
  <2>2. version \in Nat
    BY ReceiptVersions
  <2>3. ASSUME NEW access, CompleteCommit(p, operation, version, access)
        PROVE  RecordsTypeOK'
    <3>1. access \in Nat
      BY <1>0, <2>3 DEF CompleteCommit
    <3>2. ASSUME NEW r \in Row
          PROVE  [r EXCEPT !.state = "committed", !.committedVersion = version,
                           !.committedAccess = access, !.operation = 0,
                           !.lease = "none"] \in Row
      BY <2>2, <3>1, StateNames DEF Row
    <3>3. [row[p] EXCEPT !.state = "committed", !.committedVersion = version,
                         !.committedAccess = access, !.operation = 0,
                         !.lease = "none"] \in Row
      BY <1>0, <3>2
    <3> QED
      BY <2>3, <3>3, UpdateTyped DEF CompleteCommit
  <2>4. ASSUME NEW access, CompleteActivation(p, operation, version, access)
        PROVE  RecordsTypeOK'
    <3>1. accessVersion' \in Nat \ {0} /\ lectureOpen' \in BOOLEAN
      <4>1. /\ accessVersion' = access /\ lectureOpen' = lectureOpen
            /\ access = accessVersion + 1
        BY <2>4, Zenon
           DEF CompleteActivation, ActivationDue, Activated, Replaced
      <4> QED
        BY <1>0, <4>1
    <3>2. ASSUME NEW r \in Row
          PROVE  [r EXCEPT !.state = "active", !.activatedVersion = version,
                           !.lease = "none"] \in Row
      BY <2>2, StateNames DEF Row
    <3>3. ASSUME NEW r \in Row, NEW g \in 0..MaxGeneration
          PROVE  [r EXCEPT !.state = "retired", !.cleanup = "due",
                           !.cleanupGeneration = g] \in Row
      BY StateNames DEF Row
    <3>4. [row[p] EXCEPT !.state = "active", !.activatedVersion = version,
                         !.lease = "none"] \in Row
      BY <1>0, <3>2
    <3>5. ASSUME NEW q \in Publications
          PROVE  [row[q] EXCEPT !.state = "retired", !.cleanup = "due",
                    !.cleanupGeneration = CaptureCleanupBinding(row[q])]
                   \in Row
      BY <1>0, <3>3, Generations
    <3> QED
      BY <1>0, <2>4, <3>1, <3>4, <3>5
         DEF CompleteActivation, ActivationDue, Activated, Replaced, RecordsTypeOK
  <2> QED
    BY <2>1, <2>3, <2>4
<1>9. ASSUME NEW p \in Publications, Abort(p)
      PROVE  RecordsTypeOK'
  BY <1>0, <1>9, DiscardedRow, UpdateTyped, StatesListed DEF Abort
<1>10. ASSUME NEW p \in Publications, NEW c \in Cleaners, ClaimCleanup(p, c)
       PROVE  RecordsTypeOK'
  <2>1. ASSUME NEW r \in Row
        PROVE  [r EXCEPT !.cleanup = "claimed", !.cleaner = c] \in Row
    BY DEF Row
  <2> QED
    BY <1>0, <1>10, <2>1, ExpiredRow, UpdateTyped DEF ClaimCleanup
<1>11. ASSUME NEW p \in Publications, NEW c \in Cleaners,
              NEW succeeded \in BOOLEAN, CompleteCleanup(p, c, succeeded)
       PROVE  RecordsTypeOK'
  <2>1. ASSUME NEW r \in Row
        PROVE  /\ [r EXCEPT !.cleanup = "done"] \in Row
               /\ [r EXCEPT !.cleanup = "due", !.cleaner = NoCleaner] \in Row
    BY DEF Row
  <2>2. /\ [row[p] EXCEPT !.cleanup = "done"] \in Row
        /\ [row[p] EXCEPT !.cleanup = "due", !.cleaner = NoCleaner] \in Row
    BY <1>0, <2>1
  <2> QED
    BY <1>0, <1>11, <2>2, UpdateTyped DEF CompleteCleanup, dbVars, RecordsTypeOK
<1>12. ASSUME NEW p \in Publications,
              LeaseLapses(p) \/ OperationDeadline(p) \/ CleanupLeaseLapses(p)
       PROVE  RecordsTypeOK'
  <2>1. ASSUME NEW r \in Row
        PROVE  /\ [r EXCEPT !.lease = "lapsed"] \in Row
               /\ [r EXCEPT !.overdue = TRUE] \in Row
               /\ [r EXCEPT !.cleanup = "lapsed"] \in Row
    BY DEF Row
  <2>2. /\ [row[p] EXCEPT !.lease = "lapsed"] \in Row
        /\ [row[p] EXCEPT !.overdue = TRUE] \in Row
        /\ [row[p] EXCEPT !.cleanup = "lapsed"] \in Row
    BY <1>0, <2>1
  <2> QED
    BY <1>12, <2>2, UpdateTyped
       DEF LeaseLapses, OperationDeadline, CleanupLeaseLapses
<1>13. CASE UNCHANGED dbVars
  BY <1>13 DEF dbVars, RecordsTypeOK
<1> QED
  BY <1>1, <1>2, <1>3, <1>4, <1>5, <1>6, <1>7, <1>8, <1>9, <1>10, <1>11,
     <1>12, <1>13 DEF DBNext

\* Every RPC keeps the shape of the rows.
THEOREM RecordsTyped == DBSpec => []RecordsTypeOK
BY InitTyped, StepTyped, PTL DEF DBSpec

-----------------------------------------------------------------------------
(* What a step other than a creation or an activation may do to one row.    *)

Unreserved == {"none", "pending", "uploaded"}

\* Nothing of the publication has been committed or asked to be.
Early == {"none", "pending"}

RowStep(r, s) ==
  /\ s.state \in Early => r.state \in Early
  /\ \/ s.committedAccess = r.committedAccess
     \/ r.state = "uploaded" /\ s.state = "committed"
        /\ s.committedAccess = accessVersion
  /\ \/ s.targetAccess = r.targetAccess
     \/ r.state = "committed" /\ s.state = "committed"
        /\ s.targetAccess = accessVersion + 1
  /\ r.state \in Published \/ s.state \in Published =>
       s.state = r.state /\ s.targetAccess = r.targetAccess
  /\ r.state \in Discarded => s.state \in Discarded
  /\ s.state \in Inflight => r.state \in Inflight
  /\ s.state = "committed" /\ s.operation # 0 =>
       s.targetAccess # 0 \/ (r.state = "committed" /\ r.operation # 0)
  /\ s.state \in Unreserved =>
       r.state \in Unreserved /\ s.targetAccess = r.targetAccess
  /\ s.state = "committed" =>
       \/ /\ r.state = "committed"
          /\ s.committedAccess = r.committedAccess
          /\ s.targetAccess \in {r.targetAccess, accessVersion + 1}
       \/ /\ r.state = "uploaded"
          /\ s.committedAccess = accessVersion
          /\ s.targetAccess = r.targetAccess

QuietStep ==
  /\ accessVersion' = accessVersion
  /\ \A p \in Publications : RowStep(row[p], row'[p])

\* A step of one row that leaves its state and its access versions alone, and
\* the finalizer too once there is something to activate.
LEMMA RowKept ==
  ASSUME NEW r, NEW s, s.state = r.state, s.targetAccess = r.targetAccess,
         s.committedAccess = r.committedAccess,
         s.operation = r.operation \/ r.state # "committed"
  PROVE  RowStep(r, s)
BY StatesListed DEF RowStep, Unreserved, Early

\* A row in flight, or discarded already, that is discarded.
LEMMA RowDiscarded ==
  ASSUME NEW r, NEW s, r.state \in Inflight \cup Discarded,
         s.state \in Discarded, s.targetAccess = r.targetAccess,
         s.committedAccess = r.committedAccess
  PROVE  RowStep(r, s)
BY StatesListed DEF RowStep, Unreserved, Early

\* Writing one row is a quiet step when the row's own change is.
LEMMA UpdateQuiet ==
  ASSUME RecordsTypeOK, NEW p \in Publications, NEW new, Update(p, new),
         RowStep(row[p], new)
  PROVE  QuietStep
<1>1. row \in [Publications -> Row]
  BY DEF RecordsTypeOK
<1>2. \A q \in Publications : row'[q] = IF q = p THEN new ELSE row[q]
  BY <1>1 DEF Update
<1>3. ASSUME NEW q \in Publications
      PROVE  RowStep(row[q], row[q])
  BY RowKept
<1> QED
  BY <1>2, <1>3 DEF Update, QuietStep

\* A cleanup claim discards an overdue row and otherwise keeps its state.
LEMMA ExpiredStep ==
  ASSUME NEW r \in Row, NEW c
  PROVE  RowStep(r, [Expired(r) EXCEPT !.cleanup = "claimed", !.cleaner = c])
<1> DEFINE s == [Expired(r) EXCEPT !.cleanup = "claimed", !.cleaner = c]
<1>1. Expired(r) \in Row
  BY ExpiredRow
<1>2. /\ s.state = Expired(r).state
      /\ s.targetAccess = Expired(r).targetAccess
      /\ s.committedAccess = Expired(r).committedAccess
      /\ s.operation = Expired(r).operation
  BY <1>1 DEF Row
<1>3. CASE r.state \in Inflight /\ r.overdue
  <2>1. /\ Expired(r).state \in Discarded
        /\ Expired(r).targetAccess = r.targetAccess
        /\ Expired(r).committedAccess = r.committedAccess
    BY <1>3, StatesListed DEF Expired, Discard, Row
  <2> QED
    BY <1>2, <1>3, <2>1, RowDiscarded
<1>4. CASE ~(r.state \in Inflight /\ r.overdue)
  <2>1. Expired(r) = r
    BY <1>4 DEF Expired
  <2> QED
    BY <1>2, <2>1, RowKept
<1> QED
  BY <1>3, <1>4

\* The RPCs and instants that commit nothing, and those that neither create a
\* publication nor activate one.
UncommittingAction ==
  \/ CloseLecture
  \/ \E p \in Publications :
       \/ Reissue(p) \/ PrepareCommit(p) \/ PrepareActivation(p) \/ Abort(p)
       \/ \E g : ClaimNonce(p, g) \/ RecordUploaded(p, g)
       \/ \E c : ClaimCleanup(p, c) \/ \E succeeded : CompleteCleanup(p, c, succeeded)
       \/ LeaseLapses(p) \/ OperationDeadline(p) \/ CleanupLeaseLapses(p)

QuietAction ==
  \/ UncommittingAction
  \/ \E p \in Publications : \E operation, version, access :
       CompleteCommit(p, operation, version, access)
  \/ UNCHANGED dbVars

\* They are quiet steps.
LEMMA QuietActions ==
  ASSUME RecordsTypeOK, QuietAction
  PROVE  QuietStep
<1>0. row \in [Publications -> Row] /\ accessVersion \in Nat \ {0}
  BY DEF RecordsTypeOK
<1>1. CASE CloseLecture
  <2>1. ASSUME NEW p \in Publications
        PROVE  RowStep(row[p], row'[p])
    <3>1. CASE row[p].state \in Inflight
      <4>1. row'[p] = Discard(row[p], "aborted")
        BY <1>1, <3>1 DEF CloseLecture
      <4>2. /\ row'[p].state = "aborted"
            /\ row'[p].targetAccess = row[p].targetAccess
            /\ row'[p].committedAccess = row[p].committedAccess
        BY <1>0, <4>1 DEF Discard, Row
      <4> QED
        BY <3>1, <4>2, RowDiscarded, StatesListed
    <3>2. CASE row[p].state \notin Inflight
      <4>1. row'[p] = row[p]
        BY <1>1, <3>2 DEF CloseLecture
      <4> QED
        BY <4>1, RowKept
    <3> QED
      BY <3>1, <3>2
  <2> QED
    BY <1>1, <2>1 DEF CloseLecture, QuietStep
<1>2. ASSUME NEW p \in Publications, Reissue(p)
      PROVE  QuietStep
  <2> DEFINE new == [row[p] EXCEPT !.generation = @ + 1, !.attempt = 0,
                                   !.lease = "none"]
  <2>1. RowStep(row[p], new)
    <3>1. /\ new.state = row[p].state
          /\ new.targetAccess = row[p].targetAccess
          /\ new.committedAccess = row[p].committedAccess
          /\ new.operation = row[p].operation
      BY <1>0 DEF Row
    <3> QED
      BY <3>1, RowKept
  <2> QED
    BY <1>2, <2>1, UpdateQuiet DEF Reissue
<1>3. ASSUME NEW p \in Publications, NEW g, ClaimNonce(p, g)
      PROVE  QuietStep
  <2> DEFINE new == [row[p] EXCEPT !.attempt = g, !.lease = "live"]
  <2>1. RowStep(row[p], new)
    <3>1. /\ new.state = row[p].state
          /\ new.targetAccess = row[p].targetAccess
          /\ new.committedAccess = row[p].committedAccess
          /\ new.operation = row[p].operation
      BY <1>0 DEF Row
    <3> QED
      BY <3>1, RowKept
  <2> QED
    BY <1>3, <2>1, UpdateQuiet DEF ClaimNonce, NonceFree
<1>4. ASSUME NEW p \in Publications, NEW g, RecordUploaded(p, g)
      PROVE  QuietStep
  <2> DEFINE late(s) == [row[p] EXCEPT !.state = s, !.uploaded = TRUE,
                           !.lease = "none",
                           !.cleanupGeneration = CaptureCleanupBinding(row[p]),
                           !.cleanup = "due", !.cleaner = NoCleaner]
             new == [row[p] EXCEPT !.state = "uploaded", !.uploaded = TRUE,
                                   !.lease = "none"]
  <2>1. row[p].state = "pending" => RowStep(row[p], new)
    <3>1. /\ new.state = "uploaded" /\ new.targetAccess = row[p].targetAccess
          /\ new.committedAccess = row[p].committedAccess
      BY <1>0 DEF Row
    <3> QED
      BY <3>1, StatesListed DEF RowStep, Unreserved, Early
  <2>2. ASSUME NEW s \in Discarded
        PROVE  row[p].state \in Discarded \cup {"pending"}
                 => RowStep(row[p], late(s))
    <3>1. /\ late(s).state = s /\ late(s).targetAccess = row[p].targetAccess
          /\ late(s).committedAccess = row[p].committedAccess
      BY <1>0 DEF Row
    <3> QED
      BY <3>1, RowDiscarded, StatesListed
  <2>3. CASE Update(p, new) /\ row[p].state = "pending"
    BY <2>1, <2>3, UpdateQuiet
  <2>4. CASE \E s \in Discarded : Update(p, late(s))
    BY <1>4, <2>2, <2>4, UpdateQuiet DEF RecordUploaded, ReceiptExpected
  <2>5. \/ Update(p, new) /\ row[p].state = "pending"
        \/ \E s \in Discarded : Update(p, late(s))
    BY <1>4, StatesListed DEF RecordUploaded
  <2> QED
    BY <2>3, <2>4, <2>5
<1>5. ASSUME NEW p \in Publications, PrepareCommit(p)
      PROVE  QuietStep
  <2> DEFINE new == [row[p] EXCEPT !.operation = @ + 1, !.lease = "live"]
  <2>1. RowStep(row[p], new)
    <3>1. /\ new.state = row[p].state
          /\ new.targetAccess = row[p].targetAccess
          /\ new.committedAccess = row[p].committedAccess
      BY <1>0 DEF Row
    <3>2. row[p].state # "committed"
      BY <1>5 DEF PrepareCommit
    <3> QED
      BY <3>1, <3>2, RowKept
  <2> QED
    BY <1>5, <2>1, UpdateQuiet DEF PrepareCommit
<1>6. ASSUME NEW p \in Publications, PrepareActivation(p)
      PROVE  QuietStep
  <2> DEFINE new == [row[p] EXCEPT !.operation = @ + 1, !.lease = "live",
                                   !.targetAccess = accessVersion + 1]
  <2>1. /\ new.state = row[p].state
        /\ new.committedAccess = row[p].committedAccess
        /\ new.targetAccess = accessVersion + 1
    BY <1>0 DEF Row
  <2>2. row[p].state = "committed"
    BY <1>6 DEF PrepareActivation
  <2> HIDE DEF new
  <2>3. RowStep(row[p], new)
    BY <1>0, <2>1, <2>2, StatesListed DEF RowStep, Unreserved, Early
  <2> QED
    BY <1>6, <2>3, UpdateQuiet DEF PrepareActivation, new
<1>7. ASSUME NEW p \in Publications, NEW operation, NEW version, NEW access,
             CompleteCommit(p, operation, version, access)
      PROVE  QuietStep
  <2> DEFINE new == [row[p] EXCEPT !.state = "committed",
                       !.committedVersion = version,
                       !.committedAccess = access,
                       !.operation = 0, !.lease = "none"]
  <2>1. /\ new.state = "committed"
        /\ new.committedAccess = access
        /\ new.targetAccess = row[p].targetAccess
    BY <1>0 DEF Row
  <2>2. row[p].state = "uploaded" /\ access = accessVersion
    BY <1>7 DEF CompleteCommit
  <2>3. RowStep(row[p], new)
    BY <2>1, <2>2, StatesListed DEF RowStep, Unreserved, Early
  <2> QED
    BY <1>7, <2>3, UpdateQuiet DEF CompleteCommit
<1>8. ASSUME NEW p \in Publications, Abort(p)
      PROVE  QuietStep
  <2>1. /\ Discard(row[p], "aborted").state = "aborted"
        /\ Discard(row[p], "aborted").targetAccess = row[p].targetAccess
        /\ Discard(row[p], "aborted").committedAccess = row[p].committedAccess
    BY <1>0 DEF Discard, Row
  <2>2. RowStep(row[p], Discard(row[p], "aborted"))
    BY <1>8, <2>1, RowDiscarded, StatesListed DEF Abort
  <2> QED
    BY <1>8, <2>2, UpdateQuiet DEF Abort
<1>9. ASSUME NEW p \in Publications, NEW c, ClaimCleanup(p, c)
      PROVE  QuietStep
  BY <1>0, <1>9, ExpiredStep, UpdateQuiet DEF ClaimCleanup
<1>10. ASSUME NEW p \in Publications, NEW c, NEW succeeded,
              CompleteCleanup(p, c, succeeded)
       PROVE  QuietStep
  <2>1. ASSUME NEW new \in {[row[p] EXCEPT !.cleanup = "done"],
                            [row[p] EXCEPT !.cleanup = "due",
                                           !.cleaner = NoCleaner]}
        PROVE  RowStep(row[p], new)
    <3>1. /\ new.state = row[p].state
          /\ new.targetAccess = row[p].targetAccess
          /\ new.committedAccess = row[p].committedAccess
          /\ new.operation = row[p].operation
      BY <1>0 DEF Row
    <3> QED
      BY <3>1, RowKept
  <2> QED
    BY <1>10, <2>1, RowKept, UpdateQuiet DEF CompleteCleanup, dbVars, QuietStep
<1>11. ASSUME NEW p \in Publications,
              LeaseLapses(p) \/ OperationDeadline(p) \/ CleanupLeaseLapses(p)
       PROVE  QuietStep
  <2>1. ASSUME NEW new \in {[row[p] EXCEPT !.lease = "lapsed"],
                            [row[p] EXCEPT !.overdue = TRUE],
                            [row[p] EXCEPT !.cleanup = "lapsed"]}
        PROVE  RowStep(row[p], new)
    <3>1. /\ new.state = row[p].state
          /\ new.targetAccess = row[p].targetAccess
          /\ new.committedAccess = row[p].committedAccess
          /\ new.operation = row[p].operation
      BY <1>0 DEF Row
    <3> QED
      BY <3>1, RowKept
  <2> QED
    BY <1>11, <2>1, UpdateQuiet
       DEF LeaseLapses, OperationDeadline, CleanupLeaseLapses
<1>12. CASE UNCHANGED dbVars
  BY <1>12, RowKept DEF dbVars, QuietStep
<1> QED
  BY <1>1, <1>2, <1>3, <1>4, <1>5, <1>6, <1>7, <1>8, <1>9, <1>10, <1>11,
     <1>12 DEF QuietAction, UncommittingAction

\* What becomes of a row that is not committed.
LEMMA Uncommitted ==
  ASSUME RecordsTypeOK, UncommittingAction
  PROVE  \A q \in Publications :
           row'[q].state = "committed" => row[q].state = "committed"
<1>0. row \in [Publications -> Row]
  BY DEF RecordsTypeOK
<1>1. ASSUME NEW p \in Publications, NEW new, Update(p, new)
      PROVE  row'[p] = new /\ \A q \in Publications \ {p} : row'[q] = row[q]
  BY <1>0, <1>1 DEF Update
<1>2. CASE CloseLecture
  <2>1. ASSUME NEW p \in Publications
        PROVE  Discard(row[p], "aborted").state = "aborted"
    BY <1>0 DEF Discard, Row
  <2> QED
    BY <1>2, <2>1 DEF CloseLecture
<1>3. ASSUME NEW p \in Publications, Reissue(p) \/ PrepareCommit(p)
      PROVE  row'[p].state = row[p].state
             /\ \A q \in Publications \ {p} : row'[q] = row[q]
  BY <1>0, <1>3 DEF Update, Reissue, PrepareCommit, Row
<1>4. ASSUME NEW p \in Publications, NEW g, ClaimNonce(p, g)
      PROVE  row'[p].state = row[p].state
             /\ \A q \in Publications \ {p} : row'[q] = row[q]
  BY <1>0, <1>4 DEF Update, ClaimNonce, Row
<1>5. ASSUME NEW p \in Publications,
             LeaseLapses(p) \/ OperationDeadline(p) \/ CleanupLeaseLapses(p)
      PROVE  row'[p].state = row[p].state
             /\ \A q \in Publications \ {p} : row'[q] = row[q]
  BY <1>0, <1>5 DEF Update, LeaseLapses, OperationDeadline, CleanupLeaseLapses, Row
<1>6. ASSUME NEW p \in Publications, NEW c, NEW succeeded,
             CompleteCleanup(p, c, succeeded)
      PROVE  row'[p].state = row[p].state
             /\ \A q \in Publications \ {p} : row'[q] = row[q]
  <2>1. CASE UNCHANGED dbVars
    BY <2>1 DEF dbVars
  <2>2. ASSUME NEW new \in {[row[p] EXCEPT !.cleanup = "done"],
                            [row[p] EXCEPT !.cleanup = "due", !.cleaner = NoCleaner]},
               Update(p, new)
        PROVE  row'[p].state = row[p].state
               /\ \A q \in Publications \ {p} : row'[q] = row[q]
    BY <1>0, <2>2 DEF Update, Row
  <2> QED
    BY <1>6, <2>1, <2>2 DEF CompleteCleanup
<1>7. ASSUME NEW p \in Publications, PrepareActivation(p)
      PROVE  row[p].state = "committed"
             /\ \A q \in Publications \ {p} : row'[q] = row[q]
  BY <1>1, <1>7 DEF PrepareActivation
<1>8. ASSUME NEW p \in Publications, Abort(p)
      PROVE  row'[p].state = "aborted"
             /\ \A q \in Publications \ {p} : row'[q] = row[q]
  <2>1. Discard(row[p], "aborted").state = "aborted"
    BY <1>0 DEF Discard, Row
  <2> QED
    BY <1>1, <1>8, <2>1 DEF Abort
<1>9. ASSUME NEW p \in Publications, NEW g, RecordUploaded(p, g)
      PROVE  row'[p].state \in {"uploaded", "aborted", "expired"}
             /\ \A q \in Publications \ {p} : row'[q] = row[q]
  <2>1. ASSUME NEW t, Update(p, [row[p] EXCEPT !.state = t, !.uploaded = TRUE,
                                  !.lease = "none",
                                  !.cleanupGeneration = CaptureCleanupBinding(row[p]),
                                  !.cleanup = "due", !.cleaner = NoCleaner])
        PROVE  row'[p].state = t /\ \A q \in Publications \ {p} : row'[q] = row[q]
    BY <1>0, <2>1 DEF Update, Row
  <2>2. ASSUME Update(p, [row[p] EXCEPT !.state = "uploaded", !.uploaded = TRUE,
                                  !.lease = "none"])
        PROVE  row'[p].state = "uploaded"
               /\ \A q \in Publications \ {p} : row'[q] = row[q]
    BY <1>0, <2>2 DEF Update, Row
  <2> QED
    BY <1>9, <2>1, <2>2 DEF RecordUploaded
<1>10. ASSUME NEW p \in Publications, NEW c, ClaimCleanup(p, c)
       PROVE  row'[p].state \in Terminal
              /\ \A q \in Publications \ {p} : row'[q] = row[q]
  <2>1. Expired(row[p]) \in Row
    BY <1>0, ExpiredRow
  <2> QED
    BY <1>0, <1>10, <2>1 DEF ClaimCleanup, Update, Row
<1> QED
  BY <1>2, <1>3, <1>4, <1>5, <1>6, <1>7, <1>8, <1>9, <1>10, StatesListed
     DEF UncommittingAction

\* A step creates a publication, activates one, or is quiet.
LEMMA StepEffects ==
  ASSUME RecordsTypeOK, [DBNext]_dbVars
  PROVE  \/ \E p \in Publications : Create(p)
         \/ \E p \in Publications : \E operation, version, access :
              CompleteActivation(p, operation, version, access)
         \/ QuietStep
<1>1. \/ \E p \in Publications : Create(p)
      \/ \E p \in Publications : \E operation, version, access :
           CompleteActivation(p, operation, version, access)
      \/ QuietAction
  BY Zenon DEF DBNext, Receipts, QuietAction, UncommittingAction
<1> QED
  BY <1>1, QuietActions

-----------------------------------------------------------------------------
(* The inductive invariant.                                                 *)

\* At most one publication of the lecture is in flight (the unique index).
OneInflight ==
  \A p, q \in Publications :
    row[p].state \in Inflight /\ row[q].state \in Inflight => p = q

\* Nothing is reserved before the commit.
NothingReserved ==
  \A p \in Publications : row[p].state \in Unreserved => row[p].targetAccess = 0

FenceInv == RecordsTypeOK /\ OneInflight /\ NothingReserved /\ ActivationFence

\* The values a creation leaves.
LEMMA CreateEffect ==
  ASSUME RecordsTypeOK, NEW p \in Publications, Create(p)
  PROVE  /\ accessVersion' = accessVersion
         /\ row[p].state = "none"
         /\ \A q \in Publications : row[q].state \notin Inflight
         /\ row'[p].state = "pending"
         /\ row'[p].targetAccess = row[p].targetAccess
         /\ row'[p].committedAccess = row[p].committedAccess
         /\ \A q \in Publications \ {p} : row'[q] = row[q]
<1>1. row \in [Publications -> Row]
  BY DEF RecordsTypeOK
<1>2. /\ row' = [row EXCEPT ![p] = [row[p] EXCEPT !.state = "pending",
                                                  !.generation = 1]]
      /\ accessVersion' = accessVersion
      /\ row[p].state = "none"
      /\ \A q \in Publications : row[q].state \notin Inflight
  BY DEF Create, Update
<1>3. row'[p] = [row[p] EXCEPT !.state = "pending", !.generation = 1]
  BY <1>1, <1>2
<1>4. /\ row'[p].state = "pending" /\ row'[p].targetAccess = row[p].targetAccess
      /\ row'[p].committedAccess = row[p].committedAccess
  BY <1>1, <1>3 DEF Row
<1> QED
  BY <1>1, <1>2, <1>4

\* The values an activation leaves.
LEMMA ActivationEffect ==
  ASSUME RecordsTypeOK, NEW p \in Publications,
         NEW operation, NEW version, NEW access,
         CompleteActivation(p, operation, version, access)
  PROVE  /\ accessVersion' = accessVersion + 1
         /\ row[p].state = "committed"
         /\ row'[p].state = "active"
         /\ row'[p].targetAccess = accessVersion + 1
         /\ row[p].targetAccess = accessVersion + 1
         /\ \A q \in Publications : row'[q].committedAccess = row[q].committedAccess
         /\ \A q \in Publications \ {p} :
              /\ row'[q].targetAccess = row[q].targetAccess
              /\ row'[q].state =
                   IF row[q].state = "active" /\ DocumentOf[q] = DocumentOf[p]
                   THEN "retired" ELSE row[q].state
              /\ row[q].state # "active" => row'[q] = row[q]
<1>1. row \in [Publications -> Row]
  BY DEF RecordsTypeOK
<1>2. /\ accessVersion' = access
      /\ access = accessVersion + 1 /\ access = row[p].targetAccess
      /\ row[p].state = "committed"
  BY Zenon DEF CompleteActivation, ActivationDue, Activated, Replaced
<1>3. row'[p] = [row[p] EXCEPT !.state = "active", !.activatedVersion = version,
                               !.lease = "none"]
  BY DEF CompleteActivation, ActivationDue, Activated, Replaced
<1>4. /\ row'[p].state = "active" /\ row'[p].targetAccess = row[p].targetAccess
      /\ row'[p].committedAccess = row[p].committedAccess
  BY <1>1, <1>3 DEF Row
<1>5. ASSUME NEW q \in Publications \ {p}
      PROVE  /\ row'[q].targetAccess = row[q].targetAccess
             /\ row'[q].committedAccess = row[q].committedAccess
             /\ row'[q].state =
                  IF row[q].state = "active" /\ DocumentOf[q] = DocumentOf[p]
                  THEN "retired" ELSE row[q].state
             /\ row[q].state # "active" => row'[q] = row[q]
  <2> DEFINE old == [row[q] EXCEPT !.state = "retired", !.cleanup = "due",
                       !.cleanupGeneration = CaptureCleanupBinding(row[q])]
  <2>1. row'[q] = IF row[q].state = "active" /\ DocumentOf[q] = DocumentOf[p]
                  THEN old ELSE row[q]
    BY <1>5, Zenon DEF CompleteActivation, ActivationDue, Activated, Replaced
  <2>2. /\ old.state = "retired" /\ old.targetAccess = row[q].targetAccess
        /\ old.committedAccess = row[q].committedAccess
    BY <1>1, <1>5 DEF Row
  <2> QED
    BY <2>1, <2>2
<1> QED
  BY <1>2, <1>4, <1>5

\* FenceInv holds initially.
LEMMA FenceInit == DBInit => FenceInv
<1> SUFFICES ASSUME DBInit PROVE FenceInv
  OBVIOUS
<1>1. \A p \in Publications : row[p].state = "none" /\ row[p].targetAccess = 0
  BY DEF DBInit, NoRow
<1> QED
  BY <1>1, InitTyped, StatesListed
     DEF FenceInv, OneInflight, NothingReserved, ActivationFence

\* Every step keeps FenceInv.
LEMMA FenceStep == FenceInv /\ [DBNext]_dbVars => FenceInv'
<1> SUFFICES ASSUME FenceInv, [DBNext]_dbVars PROVE FenceInv'
  OBVIOUS
<1>0. /\ RecordsTypeOK /\ RecordsTypeOK'
      /\ row \in [Publications -> Row] /\ accessVersion \in Nat
  BY StepTyped DEF FenceInv, RecordsTypeOK
<1>1. ASSUME NEW p \in Publications, Create(p)
      PROVE  FenceInv'
  <2> USE CreateEffect, <1>0, <1>1
  <2>1. OneInflight'
    BY DEF OneInflight
  <2>2. NothingReserved'
    BY DEF FenceInv, NothingReserved, Unreserved
  <2>3. ActivationFence'
    BY DEF FenceInv, ActivationFence
  <2> QED
    BY <2>1, <2>2, <2>3 DEF FenceInv
<1>2. ASSUME NEW p \in Publications, NEW operation, NEW version, NEW access,
             CompleteActivation(p, operation, version, access)
      PROVE  FenceInv'
  <2> USE ActivationEffect, StatesListed, <1>0, <1>2
  <2>1. \A q \in Publications \ {p} : row'[q].state \notin Inflight
    BY DEF FenceInv, OneInflight
  <2>2. OneInflight'
    BY <2>1 DEF OneInflight
  <2>3. NothingReserved'
    BY DEF FenceInv, NothingReserved, Unreserved
  <2>4. ActivationFence'
    BY <2>1 DEF ActivationFence
  <2> QED
    BY <2>2, <2>3, <2>4, <1>0 DEF FenceInv
<1>3. CASE QuietStep
  <2>1. /\ accessVersion' = accessVersion
        /\ \A p \in Publications : RowStep(row[p], row'[p])
    BY <1>3 DEF QuietStep
  <2>2. OneInflight'
    BY <2>1 DEF FenceInv, OneInflight, RowStep
  <2>3. NothingReserved'
    BY <2>1 DEF FenceInv, NothingReserved, RowStep
  <2>4. ASSUME NEW p \in Publications, row'[p].state = "committed"
        PROVE  /\ row'[p].committedAccess = accessVersion
               /\ row'[p].targetAccess \in {0, accessVersion + 1}
    <3>1. CASE row[p].state = "committed"
      BY <2>1, <2>4, <3>1 DEF FenceInv, ActivationFence, RowStep
    <3>2. CASE row[p].state = "uploaded"
      BY <2>1, <2>4, <3>2
         DEF FenceInv, NothingReserved, Unreserved, RowStep
    <3> QED
      BY <2>1, <2>4, <3>1, <3>2 DEF RowStep
  <2> QED
    BY <1>0, <2>1, <2>2, <2>3, <2>4 DEF FenceInv, ActivationFence
<1> QED
  BY <1>0, <1>1, <1>2, <1>3, StepEffects

\* The fence holds whatever the number of publications and finalizers.
THEOREM FenceHeld == DBSpec => []ActivationFence
<1>1. FenceInv => ActivationFence
  BY DEF FenceInv
<1> QED
  BY <1>1, FenceInit, FenceStep, PTL DEF DBSpec

-----------------------------------------------------------------------------
(* The history of access versions.                                          *)

HistoryInv == RecordsTypeOK /\ AccessHistory /\ NewestIsActive

\* HistoryInv holds initially.
LEMMA HistoryInit == DBInit => HistoryInv
<1> SUFFICES ASSUME DBInit PROVE HistoryInv
  OBVIOUS
<1>1. /\ accessVersion = 1
      /\ \A p \in Publications : row[p].state \notin Published
  BY StatesListed DEF DBInit, NoRow
<1>2. AccessHistory
  BY <1>1 DEF AccessHistory
<1>3. NewestIsActive
  BY <1>1 DEF NewestIsActive
<1> QED
  BY <1>2, <1>3, InitTyped DEF HistoryInv

\* A step that changes no published row keeps the history.
LEMMA HistoryKept ==
  ASSUME HistoryInv, RecordsTypeOK', accessVersion' = accessVersion,
         \A p \in Publications :
           row[p].state \in Published \/ row'[p].state \in Published =>
             /\ row'[p].state = row[p].state
             /\ row'[p].targetAccess = row[p].targetAccess
  PROVE  HistoryInv'
<1>1. AccessHistory'
  <2>1. \A p \in Publications : row'[p].state \in Published =>
          row'[p].targetAccess \in 2..accessVersion
    BY DEF HistoryInv, AccessHistory
  <2>2. \A p, q \in Publications :
          /\ row'[p].state \in Published /\ row'[q].state \in Published
          /\ row'[p].targetAccess = row'[q].targetAccess
          => p = q
    BY DEF HistoryInv, AccessHistory
  <2>3. \A v \in 2..accessVersion : \E p \in Publications :
          row'[p].state \in Published /\ row'[p].targetAccess = v
    BY DEF HistoryInv, AccessHistory
  <2> QED
    BY <2>1, <2>2, <2>3 DEF AccessHistory
<1>2. NewestIsActive'
  <2> SUFFICES ASSUME NEW p \in Publications, row'[p].state \in Published
               PROVE  \E q \in Publications :
                        /\ DocumentOf[q] = DocumentOf[p]
                        /\ row'[q].state = "active"
                        /\ row'[p].targetAccess <= row'[q].targetAccess
                        /\ \A o \in Publications :
                             /\ row'[o].state = "active"
                             /\ DocumentOf[o] = DocumentOf[p]
                             => o = q
    BY DEF NewestIsActive
  <2>1. PICK q \in Publications :
          /\ DocumentOf[q] = DocumentOf[p] /\ row[q].state = "active"
          /\ row[p].targetAccess <= row[q].targetAccess
          /\ \A o \in Publications :
               row[o].state = "active" /\ DocumentOf[o] = DocumentOf[p] => o = q
    BY DEF HistoryInv, NewestIsActive
  <2> QED
    BY <2>1, StatesListed
<1> QED
  BY <1>1, <1>2 DEF HistoryInv

\* An activation adds the next version and makes it the newest.
LEMMA HistoryActivated ==
  ASSUME HistoryInv, RecordsTypeOK', NEW p \in Publications,
         NEW operation, NEW version, NEW access,
         CompleteActivation(p, operation, version, access)
  PROVE  HistoryInv'
<1>0. accessVersion \in Nat \ {0}
  BY DEF HistoryInv, RecordsTypeOK
<1>1. /\ accessVersion' = accessVersion + 1
      /\ row[p].state \notin Published
      /\ row'[p].state = "active"
      /\ row'[p].targetAccess = accessVersion + 1
  BY ActivationEffect, StatesListed DEF HistoryInv
<1>2. \A q \in Publications \ {p} :
        /\ row'[q].targetAccess = row[q].targetAccess
        /\ row'[q].state \in Published <=> row[q].state \in Published
        /\ row'[q].state = "active" <=>
             row[q].state = "active" /\ DocumentOf[q] # DocumentOf[p]
  BY ActivationEffect, StatesListed DEF HistoryInv
<1>3. \A q \in Publications : row[q].state \in Published =>
        row[q].targetAccess \in 2..accessVersion
  BY DEF HistoryInv, AccessHistory
<1>4. \A q \in Publications \ {p} : row'[q].state \in Published =>
        row'[q].targetAccess \in 2..accessVersion
  BY <1>2, <1>3
<1>5. AccessHistory'
  <2>1. \A q \in Publications : row'[q].state \in Published =>
          row'[q].targetAccess \in 2..accessVersion'
    BY <1>0, <1>1, <1>4
  <2>2. ASSUME NEW q \in Publications, NEW o \in Publications,
               row'[q].state \in Published, row'[o].state \in Published,
               row'[q].targetAccess = row'[o].targetAccess
        PROVE  q = o
    <3>1. CASE q = p \/ o = p
      BY <2>2, <3>1, <1>0, <1>1, <1>4
    <3>2. CASE q # p /\ o # p
      BY <2>2, <3>2, <1>2 DEF HistoryInv, AccessHistory
    <3> QED
      BY <3>1, <3>2
  <2>3. ASSUME NEW v \in 2..accessVersion'
        PROVE  \E q \in Publications :
                 row'[q].state \in Published /\ row'[q].targetAccess = v
    <3>1. CASE v = accessVersion + 1
      BY <3>1, <1>1, StatesListed
    <3>2. CASE v # accessVersion + 1
      <4>1. v \in 2..accessVersion
        BY <2>3, <3>2, <1>0, <1>1
      <4>2. PICK q \in Publications :
              row[q].state \in Published /\ row[q].targetAccess = v
        BY <4>1 DEF HistoryInv, AccessHistory
      <4> QED
        BY <4>2, <1>1, <1>2
    <3> QED
      BY <3>1, <3>2
  <2> QED
    BY <2>1, <2>2, <2>3 DEF AccessHistory
<1>6. NewestIsActive'
  <2> DEFINE Newest(q, o) ==
        /\ DocumentOf[o] = DocumentOf[q] /\ row'[o].state = "active"
        /\ row'[q].targetAccess <= row'[o].targetAccess
        /\ \A n \in Publications :
             row'[n].state = "active" /\ DocumentOf[n] = DocumentOf[q] => n = o
  <2>1. ASSUME NEW q \in Publications, row'[q].state \in Published,
               DocumentOf[q] = DocumentOf[p]
        PROVE  Newest(q, p)
    <3>1. row'[q].targetAccess <= accessVersion + 1
      BY <2>1, <1>0, <1>1, <1>4
    <3> QED
      BY <2>1, <3>1, <1>1, <1>2
  <2>2. ASSUME NEW q \in Publications, row'[q].state \in Published,
               DocumentOf[q] # DocumentOf[p]
        PROVE  \E o \in Publications : Newest(q, o)
    <3>1. row[q].state \in Published
      BY <2>2, <1>2
    <3>2. PICK o \in Publications :
            /\ DocumentOf[o] = DocumentOf[q] /\ row[o].state = "active"
            /\ row[q].targetAccess <= row[o].targetAccess
            /\ \A n \in Publications :
                 row[n].state = "active" /\ DocumentOf[n] = DocumentOf[q] => n = o
      BY <3>1 DEF HistoryInv, NewestIsActive
    <3>3. o # p /\ q # p
      BY <2>2, <3>2
    <3>4. /\ row'[o].state = "active"
          /\ row'[o].targetAccess = row[o].targetAccess
          /\ row'[q].targetAccess = row[q].targetAccess
      BY <2>2, <3>2, <3>3, <1>2
    <3>5. \A n \in Publications :
            row'[n].state = "active" /\ DocumentOf[n] = DocumentOf[q] => n = o
      BY <2>2, <3>2, <1>2
    <3> QED
      BY <3>2, <3>4, <3>5
  <2> QED
    BY <2>1, <2>2 DEF NewestIsActive
<1> QED
  BY <1>5, <1>6 DEF HistoryInv

\* Every step keeps HistoryInv.
LEMMA HistoryStep == HistoryInv /\ [DBNext]_dbVars => HistoryInv'
<1> SUFFICES ASSUME HistoryInv, [DBNext]_dbVars PROVE HistoryInv'
  OBVIOUS
<1>0. RecordsTypeOK /\ RecordsTypeOK'
  BY StepTyped DEF HistoryInv
<1>1. ASSUME NEW p \in Publications, Create(p)
      PROVE  HistoryInv'
  <2>1. \A q \in Publications :
          row[q].state \in Published \/ row'[q].state \in Published =>
            /\ row'[q].state = row[q].state
            /\ row'[q].targetAccess = row[q].targetAccess
    BY <1>0, <1>1, CreateEffect, StatesListed
  <2> QED
    BY <1>0, <1>1, <2>1, CreateEffect, HistoryKept
<1>2. ASSUME NEW p \in Publications, NEW operation, NEW version, NEW access,
             CompleteActivation(p, operation, version, access)
      PROVE  HistoryInv'
  BY <1>0, <1>2, HistoryActivated
<1>3. CASE QuietStep
  <2>1. /\ accessVersion' = accessVersion
        /\ \A q \in Publications :
             row[q].state \in Published \/ row'[q].state \in Published =>
               /\ row'[q].state = row[q].state
               /\ row'[q].targetAccess = row[q].targetAccess
    BY <1>3 DEF QuietStep, RowStep
  <2> QED
    BY <1>0, <2>1, HistoryKept
<1> QED
  BY <1>0, <1>1, <1>2, <1>3, StepEffects

\* Access versions are published once each, and none is skipped.
THEOREM HistoryHeld == DBSpec => []AccessHistory
<1>1. HistoryInv => AccessHistory
  BY DEF HistoryInv
<1> QED
  BY <1>1, HistoryInit, HistoryStep, PTL DEF DBSpec

\* Each published document has one active publication, its latest.
THEOREM NewestHeld == DBSpec => []NewestIsActive
<1>1. HistoryInv => NewestIsActive
  BY DEF HistoryInv
<1> QED
  BY <1>1, HistoryInit, HistoryStep, PTL DEF DBSpec

\* A discarded publication never comes back; a published one only retires.
THEOREM ForwardHeld == DBSpec => ForwardOnly
<1>1. RecordsTypeOK /\ [DBNext]_dbVars => [TransitionsForward]_dbVars
  <2> SUFFICES ASSUME RecordsTypeOK, [DBNext]_dbVars
               PROVE  TransitionsForward
    OBVIOUS
  <2>1. ASSUME NEW p \in Publications, Create(p)
        PROVE  TransitionsForward
    BY <2>1, CreateEffect, StatesListed DEF TransitionsForward
  <2>2. ASSUME NEW p \in Publications, NEW operation, NEW version, NEW access,
               CompleteActivation(p, operation, version, access)
        PROVE  TransitionsForward
    BY <2>2, ActivationEffect, StatesListed DEF TransitionsForward
  <2>3. CASE QuietStep
    BY <2>3, StatesListed DEF QuietStep, RowStep, TransitionsForward
  <2> QED
    BY <2>1, <2>2, <2>3, StepEffects
<1> QED
  BY <1>1, InitTyped, StepTyped, PTL DEF DBSpec, ForwardOnly

=============================================================================
