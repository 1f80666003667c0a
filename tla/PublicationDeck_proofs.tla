----------------------- MODULE PublicationDeck_proofs -----------------------
(***************************************************************************)
(* The manifest and the database, and with them what students are given, for *)
(* any number of publications, requests and cleanup passes.                  *)
(*                                                                          *)
(* While a publication is in flight the access version stands still, so all  *)
(* its tickets, its row and its ledgers name one and the same version "a",   *)
(* its base, and the activation it may reserve is a + 1.                     *)
(***************************************************************************)
EXTENDS PdfPublication_proofs

-----------------------------------------------------------------------------
(* The inductive invariant.                                                  *)

\* The versions p replaces, as the database has them now.
Before(p) ==
  {VersionOf[q] : q \in {q \in Publications :
     /\ SameDocument(p, q) /\ VersionOf[q] # VersionOf[p]
     /\ row[q].state = "active"}}

\* The row r of a publication with the base a.
RowAt(r, a) ==
  /\ r.state \in Inflight => a = accessVersion
  /\ r.committedAccess \in {0, a} /\ r.targetAccess \in {0, a + 1}
  /\ r.targetAccess # 0 => r.committedAccess # 0
  /\ r.state \in Unreserved => r.committedAccess = 0
  /\ r.state = "committed" => r.committedAccess # 0
  /\ r.state = "committed" /\ r.operation # 0 => r.targetAccess # 0
  /\ r.state \in Published => r.targetAccess # 0 /\ r.targetAccess <= accessVersion

\* A ledger of p, stored or loaded by somebody: as long as nobody else has been
\* activated, the prior versions it names are the ones p replaces.
Told(l, p, a) ==
  /\ l.previousAccess \in {0, a}
  /\ l.previousAccess = accessVersion => l.prior = Before(p)
  /\ row[p].state \in Early => l.previousAccess = 0

LedgerAt(l, p, a) ==
  /\ Told(l, p, a)
  /\ l.status \in Activatable \/ l.version # 0 => l.previousAccess # 0

\* The access versions an invocation q was sent with are those of the row r.
Named(q, r, a) ==
  /\ q.kind = "commit" => q.previousAccess = a /\ r.state \notin Early
  /\ q.kind = "activate" =>
       q.previousAccess = a /\ q.targetAccess = a + 1 /\ r.targetAccess = a + 1
  /\ q.kind \in {"abort", "rollback"} /\ q.previousAccess # 0 =>
       q.previousAccess = r.committedAccess
  /\ q.kind = "rollback" => q.previousAccess # 0 /\ r.state \in Discarded
  /\ q.kind = "cleanup" =>
       /\ q.databaseAccess \in 1..accessVersion
       /\ q.pc \in {"rollback", "restore"} => r.state \in Discarded
       /\ q.pc \in {"restore", "mark"} =>
            q.seen.previousAccess = r.committedAccess /\ r.targetAccess # 0

\* The prior versions it is about to write down, or to show again.
Remembers(q, p, a) ==
  /\ /\ \/ q.kind = "commit" /\ q.pc \in {"recover", "fence", "put", "ledger"}
        \/ q.kind = "activate" /\ q.pc = "prepare"
     /\ a = accessVersion
     => q.prior = Before(p)
  /\ \/ q.kind = "rollback" /\ q.pc \in {"fence", "put"}
     \/ q.kind = "cleanup" /\ q.pc = "restore"
     => q.prior = q.seen.prior

\* What the manifest it is about to replace looks like.
Sees(q, p) ==
  q.manifestFresh =>
  /\ q.kind = "commit" /\ q.pc \in {"fence", "put"} =>
       /\ manifest.documents[p] = "absent" /\ ~HashCollision(p)
       /\ manifest.exists => manifest.access = q.previousAccess
  /\ q.kind = "activate" /\ q.pc \in {"prepare", "fence", "put"} =>
       manifest.exists /\ manifest.access = q.previousAccess /\ Hidden(p)
  /\ q.kind = "rollback" /\ q.pc \in {"fence", "put"} =>
       /\ manifest.exists
       /\ \/ manifest.access = q.previousAccess /\ Hidden(p)
          \/ /\ PriorReplaced(p, q.seen.prior)
             /\ q.seen.previousAccess = q.previousAccess
  /\ q.kind = "cleanup" /\ q.pc = "restore" =>
       manifest.exists /\ PriorReplaced(p, q.seen.prior)
  /\ q.kind = "cleanup" /\ q.pc = "removing" => ~Visible(p)

\* What the receipt it holds, or is about to get, stands for while the row r
\* still waits for it.
Did(q, r, p) ==
  /\ q.kind = "commit" /\ q.pc \in {"recover", "ledger", "done"} =>
       (r.state \in Inflight => manifest.documents[p] # "absent")
  /\ q.kind = "activate" /\ q.pc \in {"recover", "ledger", "done"} =>
       (r.state = "committed" =>
          manifest.exists /\ manifest.access = accessVersion + 1 /\ Visible(p))

\* What it knows of the ledger l it may still replace.
Holds(q, l) ==
  q.ledgerFresh =>
  /\ q.kind \in {"activate", "rollback"} => l.previousAccess # 0
  /\ q.kind = "cleanup" /\ q.pc \in {"rollback", "restore", "mark"} =>
       l.previousAccess = q.seen.previousAccess

SlotAt(q, p, a, l) ==
  /\ Told(q.seen, p, a) /\ Named(q, row[p], a) /\ Remembers(q, p, a)
  /\ Sees(q, p) /\ Did(q, row[p], p) /\ Holds(q, l)

Based(p, a) ==
  /\ RowAt(row[p], a) /\ LedgerAt(ledger[p], p, a)
  /\ \A s \in Slots : request[s].kind # "idle" /\ request[s].publication = p =>
       SlotAt(request[s], p, a, ledger[p])

\* The manifest shows what the database calls active, or is one activation
\* ahead of it, by a publication w that is not active.
Served ==
  /\ manifest.access = accessVersion
  /\ \A q \in Publications : Visible(q) <=> row[q].state = "active"

Ahead(w) ==
  /\ manifest.access = accessVersion + 1
  /\ row[w].targetAccess = manifest.access
  /\ row[w].state \in Discarded \cup {"committed"}
  /\ \A q \in Publications : Visible(q) <=>
       q = w \/ (row[q].state = "active" /\ ~SameDocument(w, q))

\* Nobody else's entry can stand for the version of a document that is listed.
ListedOnce ==
  \A p \in Publications : manifest.documents[p] # "absent" => ~HashCollision(p)

EntriesSound ==
  \A p \in Publications :
    /\ row[p].state \in {"active", "committed"} => manifest.documents[p] # "absent"
    /\ manifest.documents[p] = "retired" => row[p].state \in Published

DeckShown ==
  /\ ~manifest.exists => accessVersion = 1
  /\ manifest.exists => Served \/ \E w \in Publications : Ahead(w)

DeckInv ==
  /\ DeckShown /\ EntriesSound /\ ListedOnce
  /\ \A p \in Publications : \E a \in 1..accessVersion : Based(p, a)

SystemInv == WorkerInv /\ FenceInv /\ DeckInv

-----------------------------------------------------------------------------
(* What an invocation knows, when something else changes.                    *)

\* The database makes a quiet step: the active rows and the access version stay.
LEMMA QuietDeck ==
  ASSUME QuietStep
  PROVE  /\ accessVersion' = accessVersion
         /\ \A p \in Publications :
              row'[p].state = "active" <=> row[p].state = "active"
         /\ \A p : Before(p)' = Before(p)
<1>1. /\ accessVersion' = accessVersion
      /\ \A p \in Publications : RowStep(row[p], row'[p])
  BY DEF QuietStep
<1>2. \A p \in Publications : row'[p].state = "active" <=> row[p].state = "active"
  BY <1>1 DEF RowStep, Published
<1>3. ASSUME NEW p
      PROVE  Before(p)' = Before(p)
  BY <1>2 DEF Before, SameDocument
<1> QED
  BY <1>1, <1>2, <1>3

\* A quiet step keeps a row at its base.
LEMMA QuietRow ==
  ASSUME NEW r, NEW s, NEW a \in Nat, accessVersion \in Nat \ {0}, RowStep(r, s),
         RowAt(r, a), accessVersion' = accessVersion
  PROVE  RowAt(s, a)'
<1>1. s.state \in Inflight => a = accessVersion
  BY DEF RowStep, RowAt
<1>2. s.committedAccess \in {0, a}
  BY StatesListed DEF RowStep, RowAt
<1>3. s.targetAccess \in {0, a + 1}
  BY StatesListed DEF RowStep, RowAt
<1>4. s.targetAccess # 0 => s.committedAccess # 0
  BY StatesListed DEF RowStep, RowAt
<1>5. s.state \in Unreserved => s.committedAccess = 0
  BY StatesListed DEF RowStep, RowAt, Unreserved
<1>6. s.state = "committed" => s.committedAccess # 0
  BY StatesListed DEF RowStep, RowAt
<1>8. s.state = "committed" /\ s.operation # 0 => s.targetAccess # 0
  BY DEF RowStep, RowAt
<1>7. s.state \in Published => s.targetAccess # 0 /\ s.targetAccess <= accessVersion
  BY DEF RowStep, RowAt
<1> QED
  BY <1>1, <1>2, <1>3, <1>4, <1>5, <1>6, <1>7, <1>8 DEF RowAt

\* A ledger that was told right stays so.
LEMMA QuietTold ==
  ASSUME QuietStep, NEW l, NEW p \in Publications, NEW a, Told(l, p, a)
  PROVE  Told(l, p, a)'
<1>1. row'[p].state \in Early => row[p].state \in Early
  BY DEF QuietStep, RowStep
<1> QED
  BY <1>1, QuietDeck DEF Told

\* So does what an invocation was sent with, remembers, sees, did and holds.
LEMMA QuietNamed ==
  ASSUME NEW q, NEW r, NEW s, NEW a \in Nat, accessVersion \in Nat \ {0}, RowStep(r, s),
         RowAt(r, a), accessVersion' = accessVersion, Named(q, r, a)
  PROVE  Named(q, s, a)'
<1>1. q.kind = "commit" => q.previousAccess = a /\ s.state \notin Early
  BY DEF RowStep, Named
<1>2. r.committedAccess # 0 => s.committedAccess = r.committedAccess
  BY StatesListed DEF RowStep, RowAt, Unreserved
<1>3. r.targetAccess # 0 => s.targetAccess = r.targetAccess
  BY StatesListed DEF RowStep, RowAt
<1>4. r.state \in Discarded => s.state \in Discarded
  BY DEF RowStep
<1>5. r.targetAccess # 0 => r.committedAccess # 0
  BY DEF RowAt
<1>6. a + 1 # 0
  OBVIOUS
<1> QED
  BY <1>1, <1>2, <1>3, <1>4, <1>5, <1>6 DEF Named

LEMMA QuietDid ==
  ASSUME NEW q, NEW p, NEW r, NEW s, NEW a \in Nat, RowStep(r, s), RowAt(r, a),
         accessVersion' = accessVersion, manifest' = manifest,
         Named(q, r, a), Did(q, r, p)
  PROVE  Did(q, s, p)'
<1>1. s.state \in Inflight => r.state \in Inflight
  BY DEF RowStep
<1>2. q.kind = "activate" /\ s.state = "committed" => r.state = "committed"
  <2>1. q.kind = "activate" => r.targetAccess # 0
    BY DEF Named
  <2>2. s.state = "committed" /\ r.state # "committed" => r.state \in Unreserved
    BY StatesListed DEF RowStep, Unreserved
  <2> QED
    BY <2>1, <2>2 DEF RowAt
<1> QED
  BY <1>1, <1>2 DEF Did, Visible

LEMMA SeesStill ==
  ASSUME manifest' = manifest, NEW q, NEW p
  PROVE  Sees(q, p)' <=> Sees(q, p)
BY DEF Sees, HashCollision, Hidden, PriorReplaced, PriorListed, PriorEntries, Visible

LEMMA QuietSlot ==
  ASSUME QuietStep, manifest' = manifest, accessVersion \in Nat \ {0},
         NEW p \in Publications, NEW a \in Nat, RowAt(row[p], a),
         NEW q, NEW l, SlotAt(q, p, a, l)
  PROVE  SlotAt(q, p, a, l)'
<1>1. accessVersion' = accessVersion /\ RowStep(row[p], row'[p])
  BY DEF QuietStep
<1>2. Told(q.seen, p, a)'
  BY QuietTold DEF SlotAt
<1>3. PICK r, s : r = row[p] /\ s = row'[p]
  OBVIOUS
<1>4. Named(q, s, a)'
  BY <1>1, <1>3, QuietNamed DEF SlotAt
<1>5. Remembers(q, p, a)'
  BY <1>1, QuietDeck DEF SlotAt, Remembers
<1>6. Did(q, s, p)'
  BY <1>1, <1>3, QuietDid DEF SlotAt
<1>7. Sees(q, p)' /\ Holds(q, l)'
  BY SeesStill DEF SlotAt, Holds
<1> QED
  BY <1>2, <1>3, <1>4, <1>5, <1>6, <1>7 DEF SlotAt

-----------------------------------------------------------------------------
(* The three ways a step changes what the invariant speaks of.               *)

\* The numbers and the shapes the proofs need.
LEMMA DeckTypes ==
  ASSUME WorkerInv
  PROVE  /\ accessVersion \in Nat \ {0} /\ manifest.access \in Nat
         /\ 1..accessVersion \subseteq Nat
         /\ ledger \in [Publications -> Ledger] /\ request \in [Slots -> Request]
         /\ row \in [Publications -> Row]
BY Typed

LEMMA QuietShown ==
  ASSUME WorkerInv, DeckShown, QuietStep, RecordsTypeOK', manifest' = manifest
  PROVE  DeckShown'
<1>1. /\ accessVersion' = accessVersion
      /\ \A p \in Publications : row'[p].state = "active" <=> row[p].state = "active"
  BY QuietDeck
<1>2. Served => Served'
  BY <1>1 DEF Served, Visible
<1>3. ASSUME NEW w \in Publications, Ahead(w)
      PROVE  Ahead(w)'
  <2>1. RowStep(row[w], row'[w]) /\ row'[w] \in Row
    BY DEF QuietStep, RecordsTypeOK
  <2>2. row'[w].targetAccess = manifest.access
    BY <1>3, <2>1 DEF RowStep, Ahead
  <2>3. row'[w].state \in Discarded \cup {"committed"}
    <3>1. row[w].state \in Discarded \cup {"committed"} /\ row'[w].state \in States
      BY <1>3, <2>1 DEF Ahead, Row
    <3> QED
      BY <2>1, <3>1, StatesListed DEF RowStep, Unreserved
  <2> QED
    BY <1>1, <1>3, <2>2, <2>3 DEF Ahead, Visible
<1> QED
  BY <1>1, <1>2, <1>3 DEF DeckShown

\* The database makes a quiet step and the slot r, if any, goes on as n.
LEMMA QuietKeepsDeck ==
  ASSUME WorkerInv, DeckInv, QuietStep, RecordsTypeOK', ledger' = ledger,
         manifest' = manifest, NEW r, NEW n,
         request' = request \/ request' = [request EXCEPT ![r] = n],
         \A p \in Publications : row'[p].state = "committed" =>
           row[p].state = "committed" \/ manifest.documents[p] # "absent",
         \A l : \A p \in Publications, a \in 1..accessVersion :
           Based(p, a) /\ l = ledger[p] /\ n.kind # "idle" /\ n.publication = p =>
             SlotAt(n, p, a, l)'
  PROVE  DeckInv'
<1>0. accessVersion \in Nat \ {0} /\ accessVersion' = accessVersion
      /\ request \in [Slots -> Request]
  BY DeckTypes, QuietDeck
<1>1. DeckShown'
  BY QuietShown DEF DeckInv
<1>2. EntriesSound'
  <2> SUFFICES ASSUME NEW p \in Publications
               PROVE  /\ row'[p].state \in {"active", "committed"} =>
                           manifest.documents[p] # "absent"
                      /\ manifest.documents[p] = "retired" => row'[p].state \in Published
    BY DEF EntriesSound
  <2>1. /\ row[p].state \in {"active", "committed"} => manifest.documents[p] # "absent"
        /\ manifest.documents[p] = "retired" => row[p].state \in Published
    BY DEF DeckInv, EntriesSound
  <2>2. RowStep(row[p], row'[p])
    BY DEF QuietStep
  <2> QED
    BY <2>1, <2>2 DEF RowStep, Published
<1>3. ListedOnce'
  BY DEF DeckInv, ListedOnce, HashCollision
<1>4. ASSUME NEW p \in Publications, NEW a \in 1..accessVersion, Based(p, a)
      PROVE  Based(p, a)'
  <2>0. a \in Nat
    BY <1>0, <1>4
  <2>1. PICK x, y, l : x = row[p] /\ y = row'[p] /\ l = ledger[p]
    OBVIOUS
  <2>2. RowStep(x, y) /\ RowAt(x, a)
    BY <1>4, <2>1 DEF QuietStep, Based
  <2>3. RowAt(y, a)'
    BY <1>0, <2>0, <2>2, QuietRow
  <2>4. LedgerAt(l, p, a)'
    BY <1>4, <2>1, QuietTold DEF Based, LedgerAt
  <2>5. ASSUME NEW s \in Slots, NEW q, q = request'[s], q.kind # "idle",
               q.publication = p
        PROVE  SlotAt(q, p, a, l)'
    <3>1. CASE q = request[s]
      <4>1. SlotAt(q, p, a, l)
        BY <1>4, <2>1, <2>5, <3>1 DEF Based
      <4> QED
        BY <1>0, <2>0, <2>1, <2>2, <4>1, QuietSlot
    <3>2. CASE q = n
      BY <1>4, <2>0, <2>1, <2>5, <3>2
    <3>3. q = request[s] \/ q = n
      BY <1>0, <2>5
    <3> QED
      BY <3>1, <3>2, <3>3
  <2> QED
    BY <2>1, <2>3, <2>4, <2>5 DEF Based
<1> QED
  BY <1>0, <1>1, <1>2, <1>3, <1>4 DEF DeckInv

\* An invocation goes on as n and the database is left alone.
LEMMA MoveDeck ==
  ASSUME WorkerInv, DeckInv, UNCHANGED dbVars, ledger' = ledger, manifest' = manifest,
         NEW r, NEW n, request' = [request EXCEPT ![r] = n],
         \A p \in Publications, a \in 1..accessVersion :
           Based(p, a) /\ n.kind # "idle" /\ n.publication = p =>
             SlotAt(n, p, a, ledger[p])
  PROVE  DeckInv'
<1>1. QuietStep /\ row' = row
  BY RowKept DEF QuietStep, dbVars
<1>2. RecordsTypeOK'
  BY Typed DEF RecordsTypeOK, dbVars
<1>3. ASSUME NEW p \in Publications, NEW a \in 1..accessVersion, NEW l, Based(p, a), l = ledger[p],
             n.kind # "idle", n.publication = p
      PROVE  SlotAt(n, p, a, l)'
  <2>1. SlotAt(n, p, a, l) /\ RowAt(row[p], a)
    BY <1>3 DEF Based
  <2> QED
    BY <1>1, <2>1, DeckTypes, QuietSlot
<1> QED
  BY <1>1, <1>2, <1>3, QuietKeepsDeck

\* Somebody else's write makes what an invocation holds stale.
LEMMA SlotStale ==
  ASSUME NEW q \in Request, NEW p, NEW a, NEW l, NEW m, SlotAt(q, p, a, l)
  PROVE  /\ SlotAt([q EXCEPT !.ledgerFresh = FALSE], p, a, m)
         /\ Told(q.seen, p, a)
<1>1. PICK n : n = [q EXCEPT !.ledgerFresh = FALSE]
  OBVIOUS
<1>2. /\ n.kind = q.kind /\ n.pc = q.pc /\ n.previousAccess = q.previousAccess
      /\ n.targetAccess = q.targetAccess /\ n.databaseAccess = q.databaseAccess
      /\ n.seen = q.seen /\ ~n.ledgerFresh /\ n.manifestFresh = q.manifestFresh
      /\ n.prior = q.prior
  BY <1>1 DEF Request
<1>3. Told(n.seen, p, a) /\ Told(q.seen, p, a)
  BY <1>2 DEF SlotAt
<1>4. Named(n, row[p], a)
  BY <1>2 DEF SlotAt, Named
<1>5. Remembers(n, p, a)
  BY <1>2 DEF SlotAt, Remembers
<1>6. Sees(n, p)
  BY <1>2 DEF SlotAt, Sees
<1>7. Did(n, row[p], p)
  BY <1>2 DEF SlotAt, Did
<1>8. Holds(n, m)
  BY <1>2 DEF Holds
<1> QED
  BY <1>1, <1>3, <1>4, <1>5, <1>6, <1>7, <1>8 DEF SlotAt

\* An invocation writes the ledger m of its publication and goes on as n.
LEMMA LedgerDeck ==
  ASSUME WorkerInv, DeckInv, UNCHANGED dbVars, NEW r \in Slots, NEW p \in Publications,
         NEW m, NEW n, LedgerPut(r, p, m, n),
         \A a \in 1..accessVersion : Based(p, a) =>
           /\ LedgerAt(m, p, a)
           /\ n.kind # "idle" => n.publication = p /\ SlotAt(n, p, a, m)
  PROVE  DeckInv'
<1>0. /\ ledger' = [ledger EXCEPT ![p] = m] /\ manifest' = manifest
      /\ ledger \in [Publications -> Ledger] /\ request \in [Slots -> Request]
      /\ accessVersion \in Nat \ {0} /\ accessVersion' = accessVersion /\ row' = row
  BY DeckTypes DEF LedgerPut, dbVars
<1>1. QuietStep /\ RecordsTypeOK'
  BY <1>0, Typed, RowKept DEF QuietStep, dbVars, RecordsTypeOK
<1>2. DeckShown' /\ EntriesSound' /\ ListedOnce'
  <2>1. DeckShown'
    BY <1>0, <1>1, QuietShown DEF DeckInv
  <2>2. EntriesSound' /\ ListedOnce'
    BY <1>0 DEF DeckInv, EntriesSound, ListedOnce, HashCollision
  <2> QED
    BY <2>1, <2>2
<1>3. \A s \in Slots : request'[s] =
        IF s = r THEN n
        ELSE IF request[s].publication = p THEN [request[s] EXCEPT !.ledgerFresh = FALSE]
        ELSE request[s]
  BY <1>0 DEF LedgerPut
<1>4. ASSUME NEW o \in Publications, NEW a \in 1..accessVersion, Based(o, a)
      PROVE  Based(o, a)'
  <2>0. a \in Nat /\ RowAt(row[o], a)
    BY <1>0, <1>4 DEF Based
  <2>1. PICK x, l : x = row[o] /\ l = ledger'[o] /\ x = row'[o]
    BY <1>0
  <2>2. RowAt(x, a)'
    BY <1>0, <2>0, <2>1, QuietRow, RowKept
  <2>3. LedgerAt(l, o, a)
    BY <1>0, <1>4, <2>0, <2>1 DEF Based
  <2>4. LedgerAt(l, o, a)'
    BY <1>1, <2>3, QuietTold DEF LedgerAt
  <2>5. ASSUME NEW s \in Slots, NEW q, q = request'[s], q.kind # "idle",
               q.publication = o
        PROVE  SlotAt(q, o, a, l)'
    <3>1. SlotAt(q, o, a, l)
      <4>1. CASE s = r
        <5>1. q = n
          BY <1>3, <2>5, <4>1
        <5>2. n.publication = p
          <6>1. PICK b \in 1..accessVersion : Based(p, b)
            BY DEF DeckInv
          <6> QED
            BY <1>0, <2>5, <5>1, <6>1
        <5>3. o = p /\ l = m
          BY <1>0, <2>1, <2>5, <5>1, <5>2
        <5> QED
          BY <1>4, <2>0, <2>5, <5>1, <5>3
      <4>2. CASE s # r /\ request[s].publication = p
        <5>0. PICK k : k = request[s]
          OBVIOUS
        <5>1. /\ q = [k EXCEPT !.ledgerFresh = FALSE] /\ k \in Request
          BY <1>0, <1>3, <2>5, <4>2, <5>0
        <5>2. k.publication = o /\ k.kind # "idle"
          BY <2>5, <5>1 DEF Request
        <5>3. SlotAt(k, o, a, ledger[o])
          BY <1>4, <5>0, <5>2 DEF Based
        <5>4. PICK v : v = ledger[o]
          OBVIOUS
        <5> QED
          BY <5>1, <5>3, <5>4, SlotStale
      <4>3. CASE s # r /\ request[s].publication # p
        <5>1. q = request[s] /\ o # p
          BY <1>3, <2>5, <4>3
        <5>2. l = ledger[o]
          BY <1>0, <2>1, <5>1
        <5> QED
          BY <1>4, <2>5, <5>1, <5>2 DEF Based
      <4> QED
        BY <4>1, <4>2, <4>3
    <3> QED
      BY <1>0, <1>1, <2>0, <3>1, QuietSlot
  <2> QED
    BY <2>1, <2>2, <2>4, <2>5 DEF Based
<1> QED
  BY <1>0, <1>2, <1>4 DEF DeckInv

-----------------------------------------------------------------------------
(* Writing the manifest.                                                     *)

\* The access version and the entries that are about to be written fit the
\* database, and take nothing from a publication that still counts on them.
Fits(access, docs) ==
  /\ \/ /\ access = accessVersion
        /\ \A q \in Publications : docs[q] = "visible" <=> row[q].state = "active"
     \/ /\ access = accessVersion + 1
        /\ \E w \in Publications :
             /\ row[w].targetAccess = access
             /\ row[w].state \in Discarded \cup {"committed"}
             /\ \A q \in Publications : docs[q] = "visible" <=>
                  q = w \/ (row[q].state = "active" /\ ~SameDocument(w, q))
  /\ \A p \in Publications :
       /\ row[p].state \in {"active", "committed"} => docs[p] # "absent"
       /\ docs[p] = "retired" => row[p].state \in Published
       /\ row[p].state \in Inflight /\ docs[p] = "absent" =>
            manifest.documents[p] = "absent"
       /\ row[p].state = "committed" /\ manifest.exists /\ Visible(p)
            /\ manifest.access = accessVersion + 1
          => access = accessVersion + 1 /\ docs[p] = "visible"
  /\ \A p, q \in Publications :
       p # q /\ SameDocument(p, q) /\ docs[p] # "absent" /\ docs[q] # "absent"
         => VersionOf[p] # VersionOf[q]

\* An invocation writes a manifest that fits and goes on as n.
LEMMA ManifestDeck ==
  ASSUME WorkerInv, DeckInv, UNCHANGED dbVars, NEW r \in Slots, NEW access, NEW docs,
         NEW n, ManifestPut(r, access, docs, n), Fits(access, docs),
         \A p \in Publications, a \in 1..accessVersion :
           Based(p, a) /\ n.kind # "idle" /\ n.publication = p =>
             SlotAt(n, p, a, ledger[p])'
  PROVE  DeckInv'
<1>0. /\ manifest'.exists /\ manifest'.access = access /\ manifest'.documents = docs
      /\ ledger' = ledger /\ accessVersion' = accessVersion /\ row' = row
      /\ accessVersion \in Nat \ {0}
      /\ ledger \in [Publications -> Ledger] /\ request \in [Slots -> Request]
  BY DeckTypes DEF ManifestPut, dbVars
<1>1. DeckShown'
  <2>1. CASE access = accessVersion /\
             \A q \in Publications : docs[q] = "visible" <=> row[q].state = "active"
    BY <1>0, <2>1 DEF DeckShown, Served, Visible
  <2>2. ASSUME NEW w \in Publications, access = accessVersion + 1,
               row[w].targetAccess = access, row[w].state \in Discarded \cup {"committed"},
               \A q \in Publications : docs[q] = "visible" <=>
                  q = w \/ (row[q].state = "active" /\ ~SameDocument(w, q))
        PROVE  DeckShown'
    <3>1. Ahead(w)'
      BY <1>0, <2>2 DEF Ahead, Visible, SameDocument
    <3> QED
      BY <1>0, <3>1 DEF DeckShown
  <2> QED
    BY <2>1, <2>2 DEF Fits
<1>2. EntriesSound'
  BY <1>0 DEF EntriesSound, Fits
<1>3. ListedOnce'
  BY <1>0 DEF ListedOnce, HashCollision, Fits, SameDocument
<1>4. \A s \in Slots : request'[s] =
        IF s = r THEN n ELSE [request[s] EXCEPT !.manifestFresh = FALSE]
  BY <1>0 DEF ManifestPut
<1>5. ASSUME NEW p \in Publications, NEW a \in 1..accessVersion, Based(p, a)
      PROVE  Based(p, a)'
  <2>0. a \in Nat
    BY <1>0, <1>5
  <2>1. RowAt(row[p], a)' /\ LedgerAt(ledger[p], p, a)'
    <3>1. RowAt(row[p], a) /\ LedgerAt(ledger[p], p, a)
      BY <1>5 DEF Based
    <3>2. PICK x, l : x = row[p] /\ l = ledger[p]
      OBVIOUS
    <3>3. Before(p)' = Before(p)
      BY <1>0 DEF Before, SameDocument
    <3> QED
      BY <1>0, <3>1, <3>3 DEF RowAt, LedgerAt, Told
  <2>2. ASSUME NEW s \in Slots, NEW q, q = request'[s], q.kind # "idle",
               q.publication = p
        PROVE  SlotAt(q, p, a, ledger[p])'
    <3>1. CASE s = r
      BY <1>4, <1>5, <2>0, <2>2, <3>1
    <3>2. CASE s # r
      <4>0. PICK k : k = request[s]
        OBVIOUS
      <4>1. /\ q.kind = k.kind /\ q.pc = k.pc /\ q.previousAccess = k.previousAccess
            /\ q.targetAccess = k.targetAccess /\ q.databaseAccess = k.databaseAccess
            /\ q.seen = k.seen /\ q.ledgerFresh = k.ledgerFresh /\ ~q.manifestFresh
            /\ q.prior = k.prior /\ q.publication = k.publication
        <5>1. q = [k EXCEPT !.manifestFresh = FALSE] /\ k \in Request
          BY <1>0, <1>4, <2>2, <3>2, <4>0
        <5> QED
          BY <5>1 DEF Request
      <4>2. SlotAt(k, p, a, ledger[p])
        BY <1>5, <2>2, <4>0, <4>1 DEF Based
      <4>3. Told(q.seen, p, a)' /\ Remembers(q, p, a)'
        <5>1. Told(k.seen, p, a) /\ Remembers(k, p, a)
          BY <4>2 DEF SlotAt
        <5>2. Before(p)' = Before(p)
          BY <1>0 DEF Before, SameDocument
        <5> QED
          BY <1>0, <4>1, <5>1, <5>2 DEF Told, Remembers
      <4>4. Named(q, row[p], a)'
        BY <1>0, <4>1, <4>2 DEF SlotAt, Named
      <4>5. Sees(q, p)'
        BY <4>1 DEF Sees
      <4>6. Did(q, row[p], p)'
        <5>1. Did(k, row[p], p)
          BY <4>2 DEF SlotAt
        <5>2. row[p].state \in Inflight /\ docs[p] = "absent" =>
                manifest.documents[p] = "absent"
          BY DEF Fits
        <5>3. row[p].state = "committed" /\ manifest.exists /\ Visible(p)
                /\ manifest.access = accessVersion + 1
              => access = accessVersion + 1 /\ docs[p] = "visible"
          BY DEF Fits
        <5> QED
          BY <1>0, <4>1, <5>1, <5>2, <5>3 DEF Did, Visible
      <4>7. Holds(q, ledger[p])'
        BY <1>0, <4>1, <4>2 DEF SlotAt, Holds
      <4> QED
        BY <4>3, <4>4, <4>5, <4>6, <4>7 DEF SlotAt
    <3> QED
      BY <3>1, <3>2
  <2> QED
    BY <1>0, <2>1, <2>2 DEF Based
<1> QED
  BY <1>0, <1>1, <1>2, <1>3, <1>5 DEF DeckInv

-----------------------------------------------------------------------------
(* The five manifests that are written.                                      *)

\* A manifest that is not ahead is the database's, and a discarded publication
\* is visible only while the manifest is ahead by it.
LEMMA DeckStands ==
  ASSUME WorkerInv, DeckInv
  PROVE  /\ \A a \in 1..accessVersion : manifest.exists /\ manifest.access = a =>
              Served /\ a = accessVersion
         /\ \A p \in Publications : row[p].state \in Discarded /\ Visible(p) => Ahead(p)
         /\ ~manifest.exists =>
              /\ accessVersion = 1
              /\ \A p \in Publications : manifest.documents[p] = "absent"
         /\ \A p \in Publications : Visible(p) => manifest.exists
<1>1. manifest.exists => Served \/ \E w \in Publications : Ahead(w)
  BY DEF DeckInv, DeckShown
<1>2. accessVersion \in Nat \ {0}
  BY DeckTypes
<1>3. \A a \in 1..accessVersion : manifest.exists /\ manifest.access = a =>
              Served /\ a = accessVersion
  BY <1>1, <1>2 DEF Served, Ahead
<1>4. \A p \in Publications : manifest.documents[p] # "absent" => manifest.exists
  BY DEF WorkerInv, ManifestSound
<1>5. ASSUME NEW p \in Publications, row[p].state \in Discarded, Visible(p)
      PROVE  Ahead(p)
  <2>1. row[p].state # "active" /\ manifest.exists
    BY <1>4, <1>5, StatesListed DEF Visible
  <2>2. ~Served
    BY <1>5, <2>1 DEF Served
  <2>3. PICK w \in Publications : Ahead(w)
    BY <1>1, <2>1, <2>2
  <2>4. p = w
    BY <1>5, <2>1, <2>3 DEF Ahead
  <2> QED
    BY <2>3, <2>4
<1> QED
  BY <1>3, <1>4, <1>5 DEF DeckInv, DeckShown, Visible

\* What is listed, whichever way the manifest stands.
LEMMA EntriesStand ==
  ASSUME WorkerInv, DeckInv
  PROVE  /\ \A p \in Publications :
              /\ row[p].state \in {"active", "committed"} =>
                   manifest.documents[p] # "absent"
              /\ manifest.documents[p] = "retired" => row[p].state \in Published
              /\ manifest.documents[p]
                   \in {"absent", "staged", "visible", "retired"}
         /\ \A p, q \in Publications :
              /\ p # q /\ SameDocument(p, q)
              /\ manifest.documents[p] # "absent" /\ manifest.documents[q] # "absent"
              => VersionOf[p] # VersionOf[q]
<1>1. \A p \in Publications :
              /\ row[p].state \in {"active", "committed"} =>
                   manifest.documents[p] # "absent"
              /\ manifest.documents[p] = "retired" => row[p].state \in Published
  BY DEF DeckInv, EntriesSound
<1>2. \A p \in Publications :
        manifest.documents[p] \in {"absent", "staged", "visible", "retired"}
  BY Typed
<1>3. \A p, q \in Publications :
              /\ p # q /\ SameDocument(p, q)
              /\ manifest.documents[p] # "absent" /\ manifest.documents[q] # "absent"
              => VersionOf[p] # VersionOf[q]
  BY DEF DeckInv, ListedOnce, HashCollision
<1> QED
  BY <1>1, <1>2, <1>3

\* A commit lists the document, hidden.
LEMMA CommitFits ==
  ASSUME WorkerInv, DeckInv, NEW p \in Publications, NEW a \in 1..accessVersion,
         manifest.documents[p] = "absent", ~HashCollision(p),
         manifest.exists => manifest.access = a
  PROVE  Fits(a, [manifest.documents EXCEPT ![p] = "staged"])
<1> DEFINE docs == [manifest.documents EXCEPT ![p] = "staged"]
<1>1. \A q \in Publications :
        docs[q] = IF q = p THEN "staged" ELSE manifest.documents[q]
  BY Typed
<1> HIDE DEF docs
<1>2. a = accessVersion /\ \A q \in Publications : Visible(q) <=> row[q].state = "active"
  <2>1. CASE manifest.exists
    BY <2>1, DeckStands DEF Served
  <2>2. CASE ~manifest.exists
    BY <2>2, DeckStands, EntriesStand DEF Visible
  <2> QED
    BY <2>1, <2>2
<1>3. \A q \in Publications : docs[q] = "visible" <=> row[q].state = "active"
  BY <1>1, <1>2 DEF Visible
<1>4. accessVersion \in Nat
  BY DeckTypes
<1>5. ASSUME NEW q \in Publications
      PROVE  /\ row[q].state \in {"active", "committed"} => docs[q] # "absent"
             /\ docs[q] = "retired" => row[q].state \in Published
             /\ row[q].state \in Inflight /\ docs[q] = "absent" =>
                  manifest.documents[q] = "absent"
             /\ ~(manifest.exists /\ manifest.access = accessVersion + 1)
  BY <1>1, <1>2, <1>4, EntriesStand
<1>6. ASSUME NEW o \in Publications, NEW q \in Publications,
             o # q, SameDocument(o, q), docs[o] # "absent", docs[q] # "absent"
      PROVE  VersionOf[o] # VersionOf[q]
  BY <1>1, <1>6, EntriesStand DEF HashCollision, SameDocument
<1>7. Fits(a, docs)
  BY <1>2, <1>3, <1>5, <1>6 DEF Fits
<1> QED
  BY <1>7 DEF docs

\* An activation shows it in place of the others of its document.
LEMMA ActivateFits ==
  ASSUME WorkerInv, DeckInv, NEW p \in Publications, NEW a \in 1..accessVersion,
         RowAt(row[p], a), row[p].targetAccess = a + 1,
         manifest.exists, manifest.access = a, Hidden(p)
  PROVE  /\ Fits(a + 1, ActivatedDocuments(p)) /\ a = accessVersion
         /\ ActivatedDocuments(p)[p] = "visible"
<1>1. a = accessVersion /\ Served /\ accessVersion \in Nat \ {0}
  BY DeckStands, DeckTypes
<1>2. row[p].state \in Discarded \cup {"committed"}
  <2>1. row[p].state \notin Published /\ row[p].state \notin Unreserved
    BY <1>1 DEF RowAt
  <2>2. row[p].state \in States
    BY Typed DEF Row
  <2> QED
    BY <2>1, <2>2, StatesListed DEF Unreserved
<1>3. PICK docs : docs = ActivatedDocuments(p)
  OBVIOUS
<1>4. \A q \in Publications :
        docs[q] = IF q = p THEN "visible"
                  ELSE IF SameDocument(p, q) /\ manifest.documents[q] = "visible"
                  THEN "retired" ELSE manifest.documents[q]
  BY <1>3 DEF ActivatedDocuments
<1>5. \A q \in Publications :
        manifest.documents[q] = "visible" <=> row[q].state = "active"
  BY <1>1 DEF Served, Visible
<1>6. \A q \in Publications : docs[q] = "visible" <=>
         q = p \/ (row[q].state = "active" /\ ~SameDocument(p, q))
  BY <1>4, <1>5
<1>7. ASSUME NEW q \in Publications
      PROVE  /\ row[q].state \in {"active", "committed"} => docs[q] # "absent"
             /\ docs[q] = "retired" => row[q].state \in Published
             /\ row[q].state \in Inflight /\ docs[q] = "absent" =>
                  manifest.documents[q] = "absent"
             /\ manifest.access # accessVersion + 1
  BY <1>1, <1>4, <1>5, EntriesStand, StatesListed
<1>8. ASSUME NEW o \in Publications, NEW q \in Publications,
             o # q, SameDocument(o, q), docs[o] # "absent", docs[q] # "absent"
      PROVE  VersionOf[o] # VersionOf[q]
  <2>1. manifest.documents[o] # "absent" /\ manifest.documents[q] # "absent"
    BY <1>4, <1>8 DEF Hidden
  <2> QED
    BY <1>8, <2>1, EntriesStand
<1>9. Fits(a + 1, docs)
  <2>1. /\ a + 1 = accessVersion + 1
        /\ \E w \in Publications :
             /\ row[w].targetAccess = a + 1
             /\ row[w].state \in Discarded \cup {"committed"}
             /\ \A q \in Publications : docs[q] = "visible" <=>
                  q = w \/ (row[q].state = "active" /\ ~SameDocument(w, q))
    BY <1>1, <1>2, <1>6
  <2> QED
    BY <1>7, <1>8, <2>1 DEF Fits
<1> QED
  BY <1>1, <1>3, <1>4, <1>9

\* Taking out an entry that is not visible.
LEMMA RemoveFits ==
  ASSUME WorkerInv, DeckInv, NEW p \in Publications, row[p].state \in Terminal,
         ~Visible(p), NEW a \in 1..accessVersion,
         NEW access, access = IF manifest.exists THEN manifest.access ELSE a
  PROVE  Fits(access, WithoutDocument(p))
<1>0. accessVersion \in Nat \ {0}
  BY DeckTypes
<1>1. PICK docs : docs = WithoutDocument(p)
  OBVIOUS
<1>2. \A q \in Publications :
        docs[q] = IF q = p THEN "absent" ELSE manifest.documents[q]
  BY <1>1, Typed DEF WithoutDocument
<1>3. \A q \in Publications : docs[q] = "visible" <=> manifest.documents[q] = "visible"
  BY <1>2 DEF Visible
<1>4. \/ /\ access = accessVersion
         /\ \A q \in Publications : docs[q] = "visible" <=> row[q].state = "active"
      \/ /\ access = accessVersion + 1
         /\ \E w \in Publications :
              /\ row[w].targetAccess = access
              /\ row[w].state \in Discarded \cup {"committed"}
              /\ \A q \in Publications : docs[q] = "visible" <=>
                   q = w \/ (row[q].state = "active" /\ ~SameDocument(w, q))
  <2>1. CASE ~manifest.exists
    <3>1. access = accessVersion
      BY <1>0, <2>1, DeckStands
    <3> QED
      BY <1>3, <2>1, <3>1, DeckStands, EntriesStand
  <2>2. CASE manifest.exists /\ Served
    BY <1>3, <2>2 DEF Served, Visible
  <2>3. ASSUME manifest.exists, NEW w \in Publications, Ahead(w)
        PROVE  /\ access = accessVersion + 1 /\ row[w].targetAccess = access
               /\ row[w].state \in Discarded \cup {"committed"}
               /\ \A q \in Publications : docs[q] = "visible" <=>
                   q = w \/ (row[q].state = "active" /\ ~SameDocument(w, q))
    BY <1>3, <2>3 DEF Ahead, Visible
  <2> QED
    BY <2>1, <2>2, <2>3 DEF DeckInv, DeckShown
<1>5. row[p].state \notin Inflight /\ row[p].state # "active" /\ row[p].state # "committed"
  BY StatesListed
<1>6. ASSUME NEW q \in Publications
      PROVE  /\ row[q].state \in {"active", "committed"} => docs[q] # "absent"
             /\ docs[q] = "retired" => row[q].state \in Published
             /\ row[q].state \in Inflight /\ docs[q] = "absent" =>
                  manifest.documents[q] = "absent"
             /\ row[q].state = "committed" /\ manifest.exists /\ Visible(q)
                  /\ manifest.access = accessVersion + 1
                => access = accessVersion + 1 /\ docs[q] = "visible"
  BY <1>2, <1>3, <1>5, EntriesStand DEF Visible
<1>7. ASSUME NEW o \in Publications, NEW q \in Publications,
             o # q, SameDocument(o, q), docs[o] # "absent", docs[q] # "absent"
      PROVE  VersionOf[o] # VersionOf[q]
  BY <1>2, <1>7, EntriesStand
<1>8. Fits(access, docs)
  BY <1>4, <1>6, <1>7 DEF Fits
<1> QED
  BY <1>1, <1>8

\* Undoing the activation that the manifest shows and the database never made:
\* the entries of the prior versions are the active ones.
LEMMA RestoreFits ==
  ASSUME WorkerInv, DeckInv, NEW p \in Publications, row[p].state \in Discarded,
         NEW a \in 1..accessVersion, RowAt(row[p], a), NEW l, Told(l, p, a),
         l.previousAccess = a, PriorReplaced(p, l.prior)
  PROVE  Fits(a, RestoredDocuments(p, l.prior))
<1>1. Ahead(p) /\ accessVersion \in Nat \ {0} /\ manifest.exists /\ Visible(p)
  BY DeckStands, DeckTypes DEF PriorReplaced, Visible
<1>2. a = accessVersion /\ manifest.access = accessVersion + 1
  BY <1>1 DEF Ahead, RowAt
<1>3. PICK v : v = l.prior
  OBVIOUS
<1>4. v = Before(p)
  BY <1>2, <1>3 DEF Told
<1>5. PICK docs : docs = RestoredDocuments(p, v)
  OBVIOUS
<1>6. \A q \in Publications :
        docs[q] = IF q = p THEN "absent"
                  ELSE IF q \in PriorEntries(p, v) THEN "visible"
                  ELSE manifest.documents[q]
  BY <1>5 DEF RestoredDocuments
<1>7. ASSUME NEW q \in Publications, q # p, SameDocument(p, q)
      PROVE  q \in PriorEntries(p, v) <=> row[q].state = "active"
  <2>1. ASSUME row[q].state = "active"
        PROVE  q \in PriorEntries(p, v)
    <3>1. manifest.documents[q] # "absent" /\ manifest.documents[p] # "absent"
      BY <1>1, <2>1, EntriesStand DEF Visible
    <3>2. VersionOf[q] # VersionOf[p]
      BY <1>7, <3>1, EntriesStand
    <3>3. VersionOf[q] \in v
      BY <1>4, <1>7, <2>1, <3>2 DEF Before
    <3> QED
      BY <1>7, <3>1, <3>3 DEF PriorEntries
  <2>2. ASSUME q \in PriorEntries(p, v)
        PROVE  row[q].state = "active"
    <3>1. VersionOf[q] \in v /\ manifest.documents[q] # "absent"
      BY <2>2 DEF PriorEntries
    <3>2. PICK o \in Publications : /\ SameDocument(p, o) /\ row[o].state = "active"
                                    /\ VersionOf[o] = VersionOf[q]
      BY <1>4, <3>1 DEF Before
    <3>3. manifest.documents[o] # "absent" /\ SameDocument(o, q)
      BY <1>7, <3>2, EntriesStand DEF SameDocument
    <3>4. o = q
      BY <3>1, <3>2, <3>3, EntriesStand
    <3> QED
      BY <3>2, <3>4
  <2> QED
    BY <2>1, <2>2
<1>8. row[p].state # "active" /\ row[p].state # "committed" /\ row[p].state \notin Inflight
  BY StatesListed
<1>9. \A q \in Publications : manifest.documents[q] = "visible" <=>
        q = p \/ (row[q].state = "active" /\ ~SameDocument(p, q))
  BY <1>1 DEF Ahead, Visible
<1>10. \A q \in Publications : q \in PriorEntries(p, v) =>
         SameDocument(p, q) /\ manifest.documents[q] # "absent"
  BY DEF PriorEntries
<1>11. ASSUME NEW q \in Publications
       PROVE  docs[q] = "visible" <=> row[q].state = "active"
  BY <1>6, <1>7, <1>8, <1>9, <1>10
<1>12. ASSUME NEW q \in Publications
       PROVE  /\ row[q].state \in {"active", "committed"} => docs[q] # "absent"
              /\ docs[q] = "retired" => row[q].state \in Published
              /\ row[q].state \in Inflight /\ docs[q] = "absent" =>
                   manifest.documents[q] = "absent"
              /\ ~(row[q].state = "committed" /\ Visible(q))
  BY <1>6, <1>8, <1>9, <1>10, EntriesStand DEF Visible
<1>13. ASSUME NEW o \in Publications, NEW q \in Publications,
              o # q, SameDocument(o, q), docs[o] # "absent", docs[q] # "absent"
       PROVE  VersionOf[o] # VersionOf[q]
  BY <1>6, <1>10, <1>13, EntriesStand
<1>14. Fits(a, docs)
  BY <1>2, <1>11, <1>12, <1>13 DEF Fits
<1> QED
  BY <1>3, <1>5, <1>14

-----------------------------------------------------------------------------
(* An invocation that moves on and writes nothing.                           *)

\* What stays while an invocation q goes on as n.
Keeps(q, n) ==
  /\ n.kind = q.kind /\ n.publication = q.publication
  /\ n.previousAccess = q.previousAccess /\ n.targetAccess = q.targetAccess
  /\ n.databaseAccess = q.databaseAccess

Going(q, n, c) ==
  /\ Keeps(q, n) /\ n.pc = c /\ n.seen = q.seen /\ n.prior = q.prior
  /\ n.ledgerFresh = q.ledgerFresh /\ n.manifestFresh = q.manifestFresh

Loading(q, n, c, l) ==
  /\ Keeps(q, n) /\ n.pc = c /\ n.seen = l /\ n.prior = q.prior
  /\ n.ledgerFresh /\ n.manifestFresh = q.manifestFresh

Deciding(q, n, c, x) ==
  /\ Keeps(q, n) /\ n.pc = c /\ n.seen = q.seen /\ n.prior = x
  /\ n.ledgerFresh = q.ledgerFresh /\ n.manifestFresh

\* The running invocation, its publication and what the invariant says of them.
LEMMA Acting ==
  ASSUME WorkerInv, DeckInv, NEW r \in Slots, request[r].kind # "idle"
  PROVE  /\ request[r] \in Request /\ Slot(r) \in Publications
         /\ ledger[Slot(r)] \in Ledger /\ LedgerOf(r) = ledger[Slot(r)]
         /\ row[Slot(r)] \in Row /\ accessVersion \in Nat \ {0}
         /\ \A a : Based(Slot(r), a) =>
              /\ RowAt(row[Slot(r)], a) /\ LedgerAt(ledger[Slot(r)], Slot(r), a)
              /\ SlotAt(request[r], Slot(r), a, ledger[Slot(r)])
         /\ \E a \in 1..accessVersion : Based(Slot(r), a)
<1>1. /\ request[r] \in Request /\ Slot(r) \in Publications
      /\ row[Slot(r)] \in Row /\ ledger[Slot(r)] \in Ledger
      /\ accessVersion \in Nat \ {0}
  BY Running, DeckTypes
<1>2. LedgerOf(r) = ledger[Slot(r)]
  BY DEF LedgerOf, Slot
<1>3. \E a \in 1..accessVersion : Based(Slot(r), a)
  BY <1>1 DEF DeckInv
<1>4. \A a : Based(Slot(r), a) =>
              /\ RowAt(row[Slot(r)], a) /\ LedgerAt(ledger[Slot(r)], Slot(r), a)
              /\ SlotAt(request[r], Slot(r), a, ledger[Slot(r)])
  BY DEF Based, Slot
<1> QED
  BY <1>1, <1>2, <1>3, <1>4

\* An invocation ends.
LEMMA FinishDeck ==
  ASSUME WorkerInv, DeckInv, UNCHANGED dbVars, NEW r, Finish(r)
  PROVE  DeckInv'
<1>1. Idle.kind = "idle"
  BY DEF Idle
<1> QED
  BY <1>1, MoveDeck DEF Finish, Become, storeVars

\* An invocation r goes on as n.
LEMMA OnwardDeck ==
  ASSUME WorkerInv, DeckInv, UNCHANGED dbVars, ledger' = ledger, manifest' = manifest,
         NEW r \in Slots, request[r].kind # "idle",
         NEW n, request' = [request EXCEPT ![r] = n], Keeps(request[r], n),
         \A a \in 1..accessVersion :
           Based(Slot(r), a) => SlotAt(n, Slot(r), a, ledger[Slot(r)])
  PROVE  DeckInv'
<1>1. n.publication = Slot(r)
  BY DEF Keeps, Slot
<1> QED
  BY <1>1, MoveDeck

LEMMA GotoDeck ==
  ASSUME WorkerInv, DeckInv, UNCHANGED dbVars, NEW r \in Slots,
         request[r].kind # "idle", NEW c, Goto(r, c),
         \A n : \A a \in 1..accessVersion :
           Based(Slot(r), a) /\ Going(request[r], n, c) =>
             SlotAt(n, Slot(r), a, ledger[Slot(r)])
  PROVE  DeckInv'
<1>1. PICK q, n : q = request[r] /\ n = [q EXCEPT !.pc = c]
  OBVIOUS
<1>2. q \in Request
  BY <1>1, Acting
<1>3. Going(q, n, c)
  BY <1>1, <1>2 DEF Request, Going, Keeps
<1> QED
  BY <1>1, <1>3, OnwardDeck DEF Goto, Become, storeVars, Going

LEMMA LoadLedgerDeck ==
  ASSUME WorkerInv, DeckInv, UNCHANGED dbVars, NEW r \in Slots,
         request[r].kind # "idle", NEW c, LoadLedger(r, c),
         \A n : \A a \in 1..accessVersion :
           Based(Slot(r), a) /\ Loading(request[r], n, c, ledger[Slot(r)]) =>
             SlotAt(n, Slot(r), a, ledger[Slot(r)])
  PROVE  DeckInv'
<1>1. PICK q, n, l : /\ q = request[r] /\ l = ledger[Slot(r)]
                     /\ n = [q EXCEPT !.pc = c, !.ledgerFresh = TRUE, !.seen = l]
  OBVIOUS
<1>2. q \in Request /\ l = LedgerOf(r)
  BY <1>1, Acting
<1>3. Loading(q, n, c, l)
  BY <1>1, <1>2 DEF Request, Loading, Keeps
<1> QED
  BY <1>1, <1>2, <1>3, OnwardDeck DEF LoadLedger, Become, storeVars, Loading

LEMMA LoadManifestDeck ==
  ASSUME WorkerInv, DeckInv, UNCHANGED dbVars, NEW r \in Slots,
         request[r].kind # "idle", NEW c, NEW x, LoadManifest(r, c, x),
         \A n : \A a \in 1..accessVersion :
           Based(Slot(r), a) /\ Deciding(request[r], n, c, x) =>
             SlotAt(n, Slot(r), a, ledger[Slot(r)])
  PROVE  DeckInv'
<1>1. PICK q, n : /\ q = request[r]
                  /\ n = [q EXCEPT !.pc = c, !.manifestFresh = TRUE,
                                   !.version = manifest.version, !.prior = x]
  OBVIOUS
<1>2. q \in Request
  BY <1>1, Acting
<1>3. Deciding(q, n, c, x)
  BY <1>1, <1>2 DEF Request, Deciding, Keeps
<1> QED
  BY <1>1, <1>3, OnwardDeck DEF LoadManifest, Become, storeVars, Deciding

\* Uploads and status requests only have to be told right.
LEMMA UploadSlot ==
  ASSUME NEW q, NEW p, NEW a, NEW l, q.kind \in {"upload", "status"},
         Told(q.seen, p, a)
  PROVE  SlotAt(q, p, a, l)
BY DEF SlotAt, Named, Remembers, Sees, Did, Holds

-----------------------------------------------------------------------------
(* Uploads and status requests.                                              *)

\* The database moves on without committing anything, and the slot r, if any,
\* goes on as n.
LEMMA QuietOnwardDeck ==
  ASSUME WorkerInv, DeckInv, UncommittingAction \/ UNCHANGED dbVars, RecordsTypeOK',
         ledger' = ledger, manifest' = manifest, NEW r, NEW n,
         request' = request \/ request' = [request EXCEPT ![r] = n],
         \A l : \A p \in Publications, a \in 1..accessVersion :
           Based(p, a) /\ l = ledger[p] /\ n.kind # "idle" /\ n.publication = p =>
             SlotAt(n, p, a, l)'
  PROVE  DeckInv'
<1>1. RecordsTypeOK
  BY Typed
<1>2. QuietStep
  BY <1>1, QuietActions DEF QuietAction
<1>3. \A p \in Publications : row'[p].state = "committed" =>
        row[p].state = "committed" \/ manifest.documents[p] # "absent"
  BY <1>1, Uncommitted DEF dbVars
<1> QED
  BY <1>2, <1>3, QuietKeepsDeck

\* The invocation r, if any, ends.
LEMMA QuietFinishDeck ==
  ASSUME WorkerInv, DeckInv, UncommittingAction \/ UNCHANGED dbVars, RecordsTypeOK',
         NEW r, Finish(r)
  PROVE  DeckInv'
<1>1. Idle.kind = "idle"
  BY DEF Idle
<1> QED
  BY <1>1, QuietOnwardDeck DEF Finish, Become, storeVars

\* No invocation takes part.
LEMMA QuietAloneDeck ==
  ASSUME WorkerInv, DeckInv, UncommittingAction \/ UNCHANGED dbVars, RecordsTypeOK',
         UNCHANGED <<storeVars, request>>
  PROVE  DeckInv'
<1>1. Idle.kind = "idle"
  BY DEF Idle
<1> QED
  BY <1>1, QuietOnwardDeck DEF storeVars

LEMMA UploadLoadedDeck ==
  ASSUME WorkerInv, DeckInv, UNCHANGED dbVars, NEW r \in Slots,
         request[r].kind \in {"upload", "status"}, NEW c, LoadLedger(r, c)
  PROVE  DeckInv'
<1>1. PICK p, l : p = Slot(r) /\ l = ledger[p]
  OBVIOUS
<1>2. request[r].kind # "idle"
  OBVIOUS
<1>3. ASSUME NEW a \in 1..accessVersion, NEW n, Based(p, a), Loading(request[r], n, c, l)
      PROVE  SlotAt(n, p, a, l)
  <2>1. Told(l, p, a)
    BY <1>1, <1>2, <1>3, Acting DEF LedgerAt
  <2> QED
    BY <1>3, <2>1, UploadSlot DEF Loading, Keeps
<1> QED
  BY <1>1, <1>2, <1>3, LoadLedgerDeck

LEMMA UploadGotoDeck ==
  ASSUME WorkerInv, DeckInv, UNCHANGED dbVars, NEW r \in Slots,
         request[r].kind \in {"upload", "status"}, NEW c, Goto(r, c)
  PROVE  DeckInv'
<1>1. PICK p, l : p = Slot(r) /\ l = ledger[p]
  OBVIOUS
<1>2. request[r].kind # "idle"
  OBVIOUS
<1>3. ASSUME NEW a \in 1..accessVersion, NEW n, Based(p, a), Going(request[r], n, c)
      PROVE  SlotAt(n, p, a, l)
  <2>1. Told(request[r].seen, p, a)
    BY <1>1, <1>2, <1>3, Acting DEF SlotAt
  <2> QED
    BY <1>3, <2>1, UploadSlot DEF Going, Keeps
<1> QED
  BY <1>1, <1>2, <1>3, GotoDeck

LEMMA UploadPutDeck ==
  ASSUME WorkerInv, DeckInv, UNCHANGED dbVars, NEW r \in Slots,
         request[r].kind \in {"upload", "status"}, NEW m, NEW n,
         LedgerPut(r, Slot(r), m, n), Keeps(request[r], n), n.seen = request[r].seen,
         \A a \in 1..accessVersion : Based(Slot(r), a) => LedgerAt(m, Slot(r), a)
  PROVE  DeckInv'
<1>1. PICK p : p = Slot(r) /\ p \in Publications
  BY Acting
<1>2. request[r].kind # "idle"
  OBVIOUS
<1>3. ASSUME NEW a \in 1..accessVersion, Based(p, a)
      PROVE  n.publication = p /\ SlotAt(n, p, a, m) /\ LedgerAt(m, p, a)
  <2>1. Told(n.seen, p, a)
    BY <1>1, <1>2, <1>3, Acting DEF SlotAt
  <2>2. n.publication = p
    BY <1>1 DEF Keeps, Slot
  <2> QED
    BY <1>1, <1>3, <2>1, <2>2, UploadSlot DEF Keeps
<1> QED
  BY <1>1, <1>3, LedgerDeck

\* The ledger that says the bytes are there keeps what it was told.
LEMMA UploadedLedger ==
  ASSUME NEW l \in Ledger, NEW p, NEW a, LedgerAt(l, p, a)
  PROVE  LedgerAt([l EXCEPT !.status = "uploaded"], p, a)
<1>1. PICK m : m = [l EXCEPT !.status = "uploaded"]
  OBVIOUS
<1>2. /\ m.status = "uploaded" /\ m.previousAccess = l.previousAccess
      /\ m.prior = l.prior /\ m.version = l.version
  BY <1>1 DEF Ledger
<1>3. LedgerAt(m, p, a)
  BY <1>2 DEF LedgerAt, Told, Activatable
<1> QED
  BY <1>1, <1>3

LEMMA UploadedDeck ==
  ASSUME WorkerInv, DeckInv, UNCHANGED dbVars, NEW r \in Slots,
         request[r].kind \in {"upload", "status"},
         LedgerPut(r, Slot(r), [LedgerOf(r) EXCEPT !.status = "uploaded"],
                   [request[r] EXCEPT !.pc = "record"])
  PROVE  DeckInv'
<1>1. PICK q, n, l, m : /\ q = request[r] /\ n = [q EXCEPT !.pc = "record"]
                        /\ l = LedgerOf(r) /\ m = [l EXCEPT !.status = "uploaded"]
  OBVIOUS
<1>2. q \in Request /\ l = ledger[Slot(r)] /\ l \in Ledger
  BY <1>1, Acting
<1>3. Keeps(q, n) /\ n.seen = q.seen
  BY <1>1, <1>2 DEF Request, Keeps
<1>4. \A a \in 1..accessVersion : Based(Slot(r), a) => LedgerAt(m, Slot(r), a)
  BY <1>1, <1>2, Acting, UploadedLedger
<1> QED
  BY <1>1, <1>3, <1>4, UploadPutDeck

LEMMA UploadLoadDeck ==
  ASSUME WorkerInv, DeckInv, NEW r \in Slots, UploadLoad(r)
  PROVE  DeckInv'
<1>1. request[r].kind \in {"upload", "status"} /\ UNCHANGED dbVars
  BY Zenon DEF UploadLoad, At
<1>2. Finish(r) \/ \E c : LoadLedger(r, c)
  BY Zenon DEF UploadLoad
<1> QED
  BY <1>1, <1>2, FinishDeck, UploadLoadedDeck

LEMMA UploadClaimDeck ==
  ASSUME WorkerInv, DeckInv, NEW r \in Slots, UploadClaim(r), RecordsTypeOK'
  PROVE  DeckInv'
<1>1. request[r].kind \in {"upload", "status"} /\ request[r].kind # "idle"
  BY DEF UploadClaim, At
<1>2. Slot(r) \in Publications
  BY <1>1, Acting
<1>3. \/ Finish(r) /\ UNCHANGED dbVars
      \/ Goto(r, "open") /\ (UncommittingAction \/ UNCHANGED dbVars)
  <2>1. \/ Finish(r) /\ UNCHANGED dbVars
        \/ /\ Goto(r, "open")
           /\ ClaimNonce(Slot(r), request[r].generation) \/ UNCHANGED dbVars
    BY Zenon DEF UploadClaim, Slot
  <2> QED
    BY <1>2, <2>1 DEF UncommittingAction
<1>4. CASE Goto(r, "open") /\ (UncommittingAction \/ UNCHANGED dbVars)
  <2>1. PICK q, n : q = request[r] /\ n = [q EXCEPT !.pc = "open"]
    OBVIOUS
  <2>2. q \in Request
    BY <1>1, <2>1, Acting
  <2>3. n.kind = q.kind /\ n.publication = q.publication /\ n.seen = q.seen
    BY <2>1, <2>2 DEF Request
  <2>4. /\ request' = [request EXCEPT ![r] = n] /\ ledger' = ledger
        /\ manifest' = manifest
    BY <1>4, <2>1 DEF Goto, Become, storeVars
  <2>5. QuietStep
    BY <1>4, QuietActions, Typed DEF QuietAction
  <2>6. ASSUME NEW p \in Publications, NEW a \in 1..accessVersion, NEW l, Based(p, a),
               n.publication = p
        PROVE  SlotAt(n, p, a, l)'
    <3>1. Told(n.seen, p, a)
      BY <1>1, <2>1, <2>3, <2>6, Acting DEF SlotAt, Slot
    <3>2. Told(n.seen, p, a)'
      BY <2>5, <3>1, QuietTold
    <3> QED
      BY <1>1, <2>1, <2>3, <3>2 DEF SlotAt, Named, Remembers, Sees, Did, Holds
  <2> QED
    BY <1>4, <2>4, <2>6, QuietOnwardDeck
<1> QED
  BY <1>3, <1>4, FinishDeck

LEMMA UploadOpenDeck ==
  ASSUME WorkerInv, DeckInv, NEW r \in Slots, UploadOpen(r)
  PROVE  DeckInv'
<1>1. /\ request[r].kind \in {"upload", "status"} /\ request[r].kind # "idle"
      /\ UNCHANGED dbVars
  BY DEF UploadOpen, At
<1>2. ASSUME NEW s \in {"uploaded", "receiving"}, NEW c,
             LedgerPut(r, Slot(r),
               [NoLedger EXCEPT !.status = s, !.generation = request[r].generation],
               [request[r] EXCEPT !.pc = c, !.ledgerFresh = TRUE])
      PROVE  DeckInv'
  <2>1. PICK q, n, m : /\ q = request[r]
                       /\ n = [q EXCEPT !.pc = c, !.ledgerFresh = TRUE]
                       /\ m = [NoLedger EXCEPT !.status = s,
                                               !.generation = q.generation]
    OBVIOUS
  <2>2. q \in Request /\ accessVersion \in Nat \ {0}
    BY <1>1, <2>1, Acting
  <2>3. Keeps(q, n) /\ n.seen = q.seen
    BY <2>1, <2>2 DEF Request, Keeps
  <2>4. m.status = s /\ m.version = 0 /\ m.previousAccess = 0
    BY <2>1 DEF NoLedger
  <2>5. \A p, a : LedgerAt(m, p, a)
    BY <2>2, <2>4 DEF LedgerAt, Told, Activatable
  <2> QED
    BY <1>1, <1>2, <2>1, <2>3, <2>5, UploadPutDeck
<1>3. \/ Finish(r) \/ \E c : LoadLedger(r, c)
      \/ \E s \in {"uploaded", "receiving"} : \E c :
           LedgerPut(r, Slot(r),
             [NoLedger EXCEPT !.status = s, !.generation = request[r].generation],
             [request[r] EXCEPT !.pc = c, !.ledgerFresh = TRUE])
  BY DEF UploadOpen, Slot
<1> QED
  BY <1>1, <1>2, <1>3, FinishDeck, UploadLoadedDeck

LEMMA RecoverDeck ==
  ASSUME WorkerInv, DeckInv, NEW r \in Slots, Recover(r)
  PROVE  DeckInv'
<1>1. request[r].kind \in {"upload", "status"} /\ UNCHANGED dbVars
  BY Zenon DEF Recover
<1>2. \/ Finish(r) \/ Goto(r, "body") \/ (\E c : LoadLedger(r, c))
      \/ LedgerPut(r, Slot(r), [LedgerOf(r) EXCEPT !.status = "uploaded"],
                   [request[r] EXCEPT !.pc = "record"])
  BY Zenon DEF Recover, Slot
<1> QED
  BY <1>1, <1>2, FinishDeck, UploadGotoDeck, UploadLoadedDeck, UploadedDeck

LEMMA UploadBodyDeck ==
  ASSUME WorkerInv, DeckInv, NEW r \in Slots, UploadBody(r)
  PROVE  DeckInv'
<1>1. request[r].kind \in {"upload", "status"} /\ UNCHANGED dbVars
  BY Zenon DEF UploadBody, At
<1>2. CASE /\ request' = [request EXCEPT ![r].pc = "stored"]
           /\ UNCHANGED <<ledger, manifest>>
  <2>1. PICK q, n, p, l : /\ q = request[r] /\ n = [q EXCEPT !.pc = "stored"]
                          /\ p = Slot(r) /\ l = ledger[p]
    OBVIOUS
  <2>2. q \in Request
    BY <1>1, <2>1, Acting
  <2>3. Going(q, n, "stored")
    BY <2>1, <2>2 DEF Request, Going, Keeps
  <2>4. request' = [request EXCEPT ![r] = n]
    BY <1>2, <2>1
  <2>5. ASSUME NEW a \in 1..accessVersion, Based(p, a)
        PROVE  SlotAt(n, p, a, l)
    <3>1. Told(n.seen, p, a)
      BY <1>1, <2>1, <2>3, <2>5, Acting DEF SlotAt, Going
    <3>2. n.kind \in {"upload", "status"}
      BY <1>1, <2>1, <2>3 DEF Going, Keeps
    <3> QED
      BY <3>1, <3>2, UploadSlot
  <2> QED
    BY <1>1, <1>2, <2>1, <2>3, <2>4, <2>5, OnwardDeck DEF Going
<1> QED
  BY <1>1, <1>2, FinishDeck DEF UploadBody

LEMMA UploadStoredDeck ==
  ASSUME WorkerInv, DeckInv, NEW r \in Slots, UploadStored(r)
  PROVE  DeckInv'
<1>1. request[r].kind \in {"upload", "status"} /\ UNCHANGED dbVars
  BY Zenon DEF UploadStored, At
<1>2. \/ Finish(r)
      \/ LedgerPut(r, Slot(r), [LedgerOf(r) EXCEPT !.status = "uploaded"],
                   [request[r] EXCEPT !.pc = "record"])
  BY Zenon DEF UploadStored, Slot
<1> QED
  BY <1>1, <1>2, FinishDeck, UploadedDeck

LEMMA StatusLoadDeck ==
  ASSUME WorkerInv, DeckInv, NEW r \in Slots, StatusLoad(r)
  PROVE  DeckInv'
<1>1. request[r].kind \in {"upload", "status"} /\ UNCHANGED dbVars
  BY Zenon DEF StatusLoad, At
<1>2. Finish(r) \/ \E c : LoadLedger(r, c)
  BY Zenon DEF StatusLoad
<1> QED
  BY <1>1, <1>2, FinishDeck, UploadLoadedDeck

LEMMA RecordReceiptDeck ==
  ASSUME WorkerInv, DeckInv, NEW r \in Slots, RecordReceipt(r), RecordsTypeOK'
  PROVE  DeckInv'
<1>1. request[r].kind # "idle" /\ Finish(r)
  BY DEF RecordReceipt
<1>2. Slot(r) \in Publications
  BY <1>1, Acting
<1>3. RecordUploaded(Slot(r), request[r].generation) \/ UNCHANGED dbVars
  BY Zenon DEF RecordReceipt, Slot
<1>4. UncommittingAction \/ UNCHANGED dbVars
  BY <1>2, <1>3 DEF UncommittingAction
<1> QED
  BY <1>1, <1>4, QuietFinishDeck

LEMMA UploadStepDeck ==
  ASSUME WorkerInv, DeckInv, NEW r \in Slots, UploadStep(r), RecordsTypeOK'
  PROVE  DeckInv'
BY UploadLoadDeck, UploadClaimDeck, UploadOpenDeck, RecoverDeck, UploadBodyDeck,
   UploadStoredDeck, StatusLoadDeck, RecordReceiptDeck DEF UploadStep

-----------------------------------------------------------------------------
(* Commit, activate and rollback tickets.                                    *)

\* What a ticket that may write sees of its document is what the database calls
\* active.
LEMMA PriorIsBefore ==
  ASSUME WorkerInv, DeckInv, NEW p \in Publications,
         manifest.exists => manifest.access = accessVersion
  PROVE  VisibleVersions(p) = Before(p)
<1>1. accessVersion \in 1..accessVersion
  BY DeckTypes
<1>2. \A q \in Publications : Visible(q) <=> row[q].state = "active"
  <2>1. CASE manifest.exists
    BY <1>1, <2>1, DeckStands DEF Served
  <2>2. CASE ~manifest.exists
    BY <2>2, DeckStands, EntriesStand DEF Visible
  <2> QED
    BY <2>1, <2>2
<1> QED
  BY <1>2 DEF VisibleVersions, Before, Visible

LEMMA ManifestTicketLoadDeck ==
  ASSUME WorkerInv, DeckInv, NEW r \in Slots, ManifestTicketLoad(r)
  PROVE  DeckInv'
<1>1. PICK q, p, l : q = request[r] /\ p = Slot(r) /\ l = ledger[p]
  OBVIOUS
<1>2. /\ q.kind \in {"commit", "activate", "rollback"} /\ q.kind # "idle"
      /\ UNCHANGED dbVars
  BY <1>1 DEF ManifestTicketLoad
<1>3. \/ Finish(r)
      \/ /\ LoadLedger(r, "manifest")
         /\ q.kind \in {"activate", "rollback"} => l.status \in Activatable
  BY <1>1 DEF ManifestTicketLoad, LedgerOf, Slot
<1>4. ASSUME q.kind \in {"activate", "rollback"} => l.status \in Activatable,
             NEW a \in 1..accessVersion, NEW n, Based(p, a), Loading(q, n, "manifest", l)
      PROVE  SlotAt(n, p, a, l)
  <2>1. LedgerAt(l, p, a) /\ SlotAt(q, p, a, l)
    BY <1>1, <1>2, <1>4, Acting
  <2>2. Told(n.seen, p, a)
    BY <1>4, <2>1 DEF LedgerAt, Loading
  <2>3. Named(n, row[p], a)
    BY <1>2, <1>4, <2>1 DEF SlotAt, Named, Loading, Keeps
  <2>4. Holds(n, l)
    BY <1>2, <1>4, <2>1 DEF LedgerAt, Holds, Loading, Keeps
  <2>5. Remembers(n, p, a) /\ Sees(n, p) /\ Did(n, row[p], p)
    BY <1>2, <1>4 DEF Remembers, Sees, Did, Loading, Keeps
  <2> QED
    BY <2>2, <2>3, <2>4, <2>5 DEF SlotAt
<1> QED
  BY <1>1, <1>2, <1>3, <1>4, FinishDeck, LoadLedgerDeck

LEMMA FenceDeck ==
  ASSUME WorkerInv, DeckInv, NEW r \in Slots, Fence(r)
  PROVE  DeckInv'
<1>1. PICK q, p, l : q = request[r] /\ p = Slot(r) /\ l = ledger[p]
  OBVIOUS
<1>2. /\ q.kind \in {"commit", "activate", "rollback"} /\ q.kind # "idle"
      /\ q.pc = "fence" /\ UNCHANGED dbVars
  BY <1>1, Zenon DEF Fence
<1>3. Finish(r) \/ Goto(r, "put")
  BY Zenon DEF Fence
<1>4. ASSUME NEW a \in 1..accessVersion, NEW n, Based(p, a), Going(q, n, "put")
      PROVE  SlotAt(n, p, a, l)
  <2>1. SlotAt(q, p, a, l)
    BY <1>1, <1>2, <1>4, Acting
  <2>2. Told(n.seen, p, a) /\ Named(n, row[p], a) /\ Holds(n, l)
    BY <1>2, <1>4, <2>1 DEF SlotAt, Named, Holds, Going, Keeps
  <2>3. Remembers(n, p, a) /\ Sees(n, p) /\ Did(n, row[p], p)
    BY <1>2, <1>4, <2>1 DEF SlotAt, Remembers, Sees, Did, Going, Keeps
  <2> QED
    BY <2>2, <2>3 DEF SlotAt
<1> QED
  BY <1>1, <1>2, <1>3, <1>4, FinishDeck, GotoDeck

LEMMA CommitDecideDeck ==
  ASSUME WorkerInv, DeckInv, NEW r \in Slots, CommitDecide(r)
  PROVE  DeckInv'
<1>1. PICK q, p, l, x : /\ q = request[r] /\ p = Slot(r) /\ l = ledger[p]
                        /\ x = VisibleVersions(p)
  OBVIOUS
<1>2. q.kind = "commit" /\ q.kind # "idle" /\ UNCHANGED dbVars
  BY <1>1 DEF CommitDecide, At
<1>3. \/ Finish(r)
      \/ /\ manifest.exists => manifest.access = q.previousAccess
         /\ ~HashCollision(p)
         /\ \/ manifest.documents[p] = "absent" /\ LoadManifest(r, "fence", x)
            \/ /\ manifest.documents[p] = "staged"
               /\ \E c \in {"recover", "done"} : LoadManifest(r, c, x)
  BY <1>1 DEF CommitDecide, Slot
<1>4. ASSUME manifest.exists => manifest.access = q.previousAccess, ~HashCollision(p),
             NEW c \in {"fence", "recover", "done"},
             c = "fence" => manifest.documents[p] = "absent",
             c # "fence" => manifest.documents[p] = "staged",
             NEW a \in 1..accessVersion, NEW n, Based(p, a), Deciding(q, n, c, x)
      PROVE  SlotAt(n, p, a, l)
  <2>1. SlotAt(q, p, a, l) /\ p \in Publications
    BY <1>1, <1>2, <1>4, Acting
  <2>2. q.previousAccess = a
    BY <1>2, <2>1 DEF SlotAt, Named
  <2>3. Told(n.seen, p, a) /\ Named(n, row[p], a) /\ Holds(n, l)
    BY <1>2, <1>4, <2>1 DEF SlotAt, Named, Holds, Deciding, Keeps
  <2>4. a = accessVersion => x = Before(p)
    BY <1>1, <1>4, <2>1, <2>2, PriorIsBefore
  <2>5. Remembers(n, p, a)
    BY <1>2, <1>4, <2>4 DEF Remembers, Deciding, Keeps
  <2>6. Sees(n, p)
    BY <1>2, <1>4 DEF Sees, Deciding, Keeps
  <2>7. Did(n, row[p], p)
    BY <1>2, <1>4 DEF Did, Deciding, Keeps
  <2> QED
    BY <2>3, <2>5, <2>6, <2>7 DEF SlotAt
<1>5. ASSUME manifest.exists => manifest.access = q.previousAccess, ~HashCollision(p),
             NEW c \in {"fence", "recover", "done"}, LoadManifest(r, c, x),
             c = "fence" => manifest.documents[p] = "absent",
             c # "fence" => manifest.documents[p] = "staged"
      PROVE  DeckInv'
  BY <1>1, <1>2, <1>4, <1>5, LoadManifestDeck
<1> QED
  BY <1>2, <1>3, <1>5, FinishDeck

\* An invocation of a ticket has the ledger it wrote confirmed, its own or that
\* of another one, and holds the receipt.
LEMMA ReceiptSlot ==
  ASSUME NEW q, NEW n, NEW p, NEW a, NEW l, NEW m, SlotAt(q, p, a, l),
         q.kind \in {"commit", "activate"}, q.pc \in {"recover", "ledger"},
         Going(q, n, "done"), n.ledgerFresh /\ q.kind = "activate" => m.previousAccess # 0
  PROVE  SlotAt(n, p, a, m)
<1>1. Told(n.seen, p, a) /\ Named(n, row[p], a) /\ Holds(n, m)
  BY DEF SlotAt, Named, Holds, Going, Keeps
<1>2. Remembers(n, p, a) /\ Sees(n, p)
  BY DEF Remembers, Sees, Going, Keeps
<1>3. Did(n, row[p], p)
  BY DEF SlotAt, Did, Going, Keeps
<1> QED
  BY <1>1, <1>2, <1>3 DEF SlotAt

LEMMA AnswerGoing ==
  ASSUME NEW r, request[r] \in Request, NEW v
  PROVE  Going(request[r], Answer(r, v), "done")
<1>1. PICK q, n : q = request[r] /\ n = [q EXCEPT !.pc = "done", !.version = v]
  OBVIOUS
<1>2. Going(q, n, "done")
  BY <1>1 DEF Request, Going, Keeps
<1> QED
  BY <1>1, <1>2 DEF Answer

LEMMA AnswerDeck ==
  ASSUME WorkerInv, DeckInv, UNCHANGED dbVars, NEW r \in Slots,
         request[r].kind \in {"commit", "activate"}, request[r].pc \in {"recover", "ledger"},
         NEW v, Become(r, Answer(r, v))
  PROVE  DeckInv'
<1>1. PICK q, p, l, n : /\ q = request[r] /\ p = Slot(r) /\ l = ledger[p]
                        /\ n = Answer(r, v)
  OBVIOUS
<1>2. Going(q, n, "done") /\ q.kind # "idle"
  BY <1>1, Acting, AnswerGoing
<1>3. ASSUME NEW a \in 1..accessVersion, Based(p, a)
      PROVE  SlotAt(n, p, a, l)
  <2>1. SlotAt(q, p, a, l)
    BY <1>1, <1>2, <1>3, Acting
  <2>2. n.ledgerFresh /\ q.kind = "activate" => l.previousAccess # 0
    BY <1>2, <2>1 DEF SlotAt, Holds, Going
  <2> QED
    BY <1>1, <1>2, <2>1, <2>2, ReceiptSlot
<1> QED
  BY <1>1, <1>2, <1>3, OnwardDeck DEF Become, storeVars, Going

\* It writes its ledger.
LEMMA ReceiptPutDeck ==
  ASSUME WorkerInv, DeckInv, UNCHANGED dbVars, NEW r \in Slots,
         request[r].kind \in {"commit", "activate"}, request[r].pc \in {"recover", "ledger"},
         NEW v, NEW m, LedgerPut(r, Slot(r), m, Answer(r, v)),
         \A a \in 1..accessVersion : Based(Slot(r), a) =>
           LedgerAt(m, Slot(r), a) /\ m.previousAccess # 0
  PROVE  DeckInv'
<1>1. PICK q, p, l, n : /\ q = request[r] /\ p = Slot(r) /\ l = ledger[p]
                        /\ n = Answer(r, v)
  OBVIOUS
<1>2. Going(q, n, "done") /\ q.kind # "idle" /\ p \in Publications
  BY <1>1, Acting, AnswerGoing
<1>3. ASSUME NEW a \in 1..accessVersion, Based(p, a)
      PROVE  n.publication = p /\ SlotAt(n, p, a, m) /\ LedgerAt(m, p, a)
  <2>1. SlotAt(q, p, a, l)
    BY <1>1, <1>2, <1>3, Acting
  <2>2. LedgerAt(m, p, a) /\ m.previousAccess # 0
    BY <1>1, <1>3
  <2>3. SlotAt(n, p, a, m)
    BY <1>1, <1>2, <2>1, <2>2, ReceiptSlot
  <2>4. n.publication = p
    BY <1>1, <1>2 DEF Going, Keeps, Slot
  <2> QED
    BY <2>2, <2>3, <2>4
<1> QED
  BY <1>1, <1>2, <1>3, LedgerDeck

\* A commit writes down the access version it was sent with and the versions the
\* publication replaces.
LEMMA CommittedLedgerAt ==
  ASSUME WorkerInv, DeckInv, NEW r \in Slots, request[r].kind = "commit",
         NEW v, NEW x, NEW a \in 1..accessVersion, Based(Slot(r), a),
         a = accessVersion => x = Before(Slot(r))
  PROVE  /\ LedgerAt(CommittedLedger(r, v, x), Slot(r), a)
         /\ CommittedLedger(r, v, x).previousAccess # 0
<1>1. PICK q, p, l, m : /\ q = request[r] /\ p = Slot(r) /\ l = ledger[p]
                        /\ m = [l EXCEPT !.status = "committed", !.version = v,
                                         !.previousAccess = q.previousAccess,
                                         !.prior = x]
  OBVIOUS
<1>2. /\ l = LedgerOf(r) /\ l \in Ledger /\ SlotAt(q, p, a, l)
      /\ accessVersion \in Nat \ {0}
  BY <1>1, Acting
<1>3. m.previousAccess = q.previousAccess /\ m.prior = x
  BY <1>1, <1>2 DEF Ledger
<1>4. q.previousAccess = a /\ row[p].state \notin Early /\ a # 0
  BY <1>1, <1>2 DEF SlotAt, Named
<1>5. LedgerAt(m, p, a) /\ m.previousAccess # 0
  BY <1>1, <1>3, <1>4 DEF LedgerAt, Told
<1> QED
  BY <1>1, <1>2, <1>5 DEF CommittedLedger

LEMMA CommitRecoverDeck ==
  ASSUME WorkerInv, DeckInv, NEW r \in Slots, CommitRecover(r)
  PROVE  DeckInv'
<1>1. PICK q, p, l, x : /\ q = request[r] /\ p = Slot(r) /\ l = ledger[p]
                        /\ x = IF l.version = 0 THEN q.prior ELSE l.prior
  OBVIOUS
<1>2. /\ q.kind = "commit" /\ q.kind # "idle" /\ q.pc = "recover" /\ UNCHANGED dbVars
  BY <1>1 DEF CommitRecover, At
<1>3. LedgerOf(r) = l
  BY <1>1, <1>2, Acting
<1>4. \/ LedgerPut(r, p, CommittedLedger(r, q.version, x), Answer(r, q.version))
      \/ Finish(r) \/ Become(r, Answer(r, l.version))
  BY <1>1, <1>3 DEF CommitRecover, Slot
<1>5. ASSUME NEW a \in 1..accessVersion, Based(p, a), a = accessVersion
      PROVE  x = Before(p)
  <2>1. LedgerAt(l, p, a) /\ SlotAt(q, p, a, l)
    BY <1>1, <1>2, <1>5, Acting
  <2>2. q.prior = Before(p)
    BY <1>2, <1>5, <2>1 DEF SlotAt, Remembers
  <2>3. l.version # 0 => l.prior = Before(p)
    BY <1>5, <2>1 DEF LedgerAt, Told
  <2> QED
    BY <1>1, <2>2, <2>3
<1> QED
  BY <1>1, <1>2, <1>4, <1>5, CommittedLedgerAt, ReceiptPutDeck, AnswerDeck, FinishDeck

LEMMA CommitLedgerDeck ==
  ASSUME WorkerInv, DeckInv, NEW r \in Slots, CommitLedger(r)
  PROVE  DeckInv'
<1>1. PICK q, p, l : q = request[r] /\ p = Slot(r) /\ l = ledger[p]
  OBVIOUS
<1>2. /\ q.kind = "commit" /\ q.kind # "idle" /\ q.pc = "ledger" /\ UNCHANGED dbVars
  BY <1>1 DEF CommitLedger, At
<1>3. \/ LedgerPut(r, p, CommittedLedger(r, q.version, q.prior), Answer(r, q.version))
      \/ Finish(r)
  BY <1>1 DEF CommitLedger, Slot
<1>4. ASSUME NEW a \in 1..accessVersion, Based(p, a), a = accessVersion
      PROVE  q.prior = Before(p)
  <2>1. SlotAt(q, p, a, l)
    BY <1>1, <1>2, <1>4, Acting
  <2> QED
    BY <1>2, <1>4, <2>1 DEF SlotAt, Remembers
<1> QED
  BY <1>1, <1>2, <1>3, <1>4, CommittedLedgerAt, ReceiptPutDeck, FinishDeck

\* What an invocation knows right after it wrote the manifest.
LEMMA SlotWritten ==
  ASSUME UNCHANGED dbVars, NEW q, NEW n, NEW p, NEW a, NEW l, SlotAt(q, p, a, l),
         Keeps(q, n), n.seen = q.seen, n.prior = q.prior, n.ledgerFresh = q.ledgerFresh,
         \/ q.kind \in {"commit", "activate", "rollback"} /\ q.pc = "put" /\ n.pc = "ledger"
         \/ q.kind = "cleanup" /\ q.pc = "restore" /\ n.pc = "mark"
         \/ q.kind = "cleanup" /\ q.pc = "removing" /\ n.pc = "tombstone",
         Did(n, row[p], p)'
  PROVE  SlotAt(n, p, a, l)'
<1>1. accessVersion' = accessVersion /\ row' = row
  BY DEF dbVars
<1>2. Before(p)' = Before(p)
  BY <1>1 DEF Before, SameDocument
<1>3. Told(n.seen, p, a)'
  BY <1>1, <1>2 DEF SlotAt, Told
<1>4. Named(n, row[p], a)'
  BY <1>1 DEF SlotAt, Named, Keeps
<1>5. Remembers(n, p, a)'
  BY <1>1, <1>2 DEF SlotAt, Remembers, Keeps
<1>6. Sees(n, p)'
  BY DEF Sees, Keeps
<1>7. Holds(n, l)'
  BY DEF SlotAt, Holds, Keeps
<1> QED
  BY <1>3, <1>4, <1>5, <1>6, <1>7 DEF SlotAt

\* A ticket writes a manifest that fits.
LEMMA TicketWriteDeck ==
  ASSUME WorkerInv, DeckInv, UNCHANGED dbVars, NEW r \in Slots,
         request[r].kind \in {"commit", "activate", "rollback"}, request[r].pc = "put",
         NEW access, NEW docs, Fits(access, docs),
         ManifestPut(r, access, docs, [request[r] EXCEPT !.pc = "ledger", !.version = @ + 1]),
         request[r].kind = "commit" => docs[Slot(r)] # "absent",
         request[r].kind = "activate" =>
           docs[Slot(r)] = "visible" /\ access = accessVersion + 1
  PROVE  DeckInv'
<1>1. PICK q, p, l, n : /\ q = request[r] /\ p = Slot(r) /\ l = ledger[p]
                        /\ n = [q EXCEPT !.pc = "ledger", !.version = q.version + 1]
  OBVIOUS
<1>2. q \in Request /\ q.kind # "idle" /\ p \in Publications
  BY <1>1, Acting
<1>3. /\ Keeps(q, n) /\ n.seen = q.seen /\ n.prior = q.prior
      /\ n.ledgerFresh = q.ledgerFresh /\ n.pc = "ledger"
  BY <1>1, <1>2 DEF Request, Keeps
<1>4. ManifestPut(r, access, docs, n)
  BY <1>1
<1>5. /\ manifest'.documents = docs /\ manifest'.access = access /\ manifest'.exists
      /\ ledger' = ledger /\ accessVersion' = accessVersion
  BY <1>4 DEF ManifestPut, dbVars
<1>6. Did(n, row[p], p)'
  BY <1>1, <1>3, <1>5 DEF Did, Visible, Keeps
<1>7. ASSUME NEW o \in Publications, NEW a \in 1..accessVersion, Based(o, a),
             n.kind # "idle", n.publication = o
      PROVE  SlotAt(n, o, a, ledger[o])'
  <2>1. o = p
    BY <1>1, <1>3, <1>7 DEF Keeps, Slot
  <2>2. SlotAt(q, p, a, l)
    BY <1>1, <1>2, <1>7, <2>1, Acting
  <2>3. SlotAt(n, p, a, l)'
    BY <1>1, <1>3, <1>6, <2>2, SlotWritten
  <2> QED
    BY <1>1, <1>5, <2>1, <2>3
<1> QED
  BY <1>4, <1>7, ManifestDeck

LEMMA CommitPutDeck ==
  ASSUME WorkerInv, DeckInv, NEW r \in Slots, CommitPut(r)
  PROVE  DeckInv'
<1>1. PICK q, p, l : q = request[r] /\ p = Slot(r) /\ l = ledger[p]
  OBVIOUS
<1>2. q.kind = "commit" /\ q.kind # "idle" /\ q.pc = "put" /\ UNCHANGED dbVars
  BY <1>1 DEF CommitPut, At
<1>3. p \in Publications
  BY <1>1, <1>2, Acting
<1>4. PICK docs : docs = [manifest.documents EXCEPT ![p] = "staged"]
  OBVIOUS
<1>5. \/ Finish(r)
      \/ /\ q.manifestFresh
         /\ ManifestPut(r, q.previousAccess, docs,
                        [q EXCEPT !.pc = "ledger", !.version = @ + 1])
  BY <1>1, <1>4 DEF CommitPut, Slot
<1>6. PICK a \in 1..accessVersion : Based(p, a)
  BY <1>1, <1>2, Acting
<1>7. SlotAt(q, p, a, l)
  BY <1>1, <1>2, <1>6, Acting
<1>8. CASE q.manifestFresh
  <2>1. /\ q.previousAccess = a /\ manifest.documents[p] = "absent" /\ ~HashCollision(p)
        /\ manifest.exists => manifest.access = a
    BY <1>2, <1>7, <1>8 DEF SlotAt, Named, Sees
  <2>2. Fits(a, docs)
    BY <1>3, <1>4, <2>1, CommitFits
  <2>3. docs[p] = "staged"
    BY <1>3, <1>4, Typed
  <2> QED
    BY <1>1, <1>2, <1>5, <2>1, <2>2, <2>3, FinishDeck, TicketWriteDeck
<1> QED
  BY <1>2, <1>5, <1>8, FinishDeck

LEMMA ActivateDecideDeck ==
  ASSUME WorkerInv, DeckInv, NEW r \in Slots, ActivateDecide(r)
  PROVE  DeckInv'
<1>1. PICK q, p, l, x : /\ q = request[r] /\ p = Slot(r) /\ l = ledger[p]
                        /\ x = VisibleVersions(p)
  OBVIOUS
<1>2. q.kind = "activate" /\ q.kind # "idle" /\ UNCHANGED dbVars
  BY <1>1 DEF ActivateDecide, At
<1>3. \/ Finish(r)
      \/ /\ manifest.exists /\ manifest.access = q.targetAccess
         /\ manifest.documents[p] = "visible"
         /\ \E c \in {"recover", "done"} : LoadManifest(r, c, q.prior)
      \/ /\ manifest.exists /\ manifest.access = q.previousAccess /\ Hidden(p)
         /\ LoadManifest(r, "prepare", x)
  BY <1>1 DEF ActivateDecide, Slot
<1>4. ASSUME NEW a \in 1..accessVersion, NEW c, NEW y, NEW n, Based(p, a), Deciding(q, n, c, y)
      PROVE  /\ Told(n.seen, p, a) /\ Named(n, row[p], a) /\ Holds(n, l)
             /\ q.previousAccess = a /\ q.targetAccess = a + 1 /\ RowAt(row[p], a)
             /\ p \in Publications
  <2>1. SlotAt(q, p, a, l) /\ RowAt(row[p], a) /\ p \in Publications
    BY <1>1, <1>2, <1>4, Acting
  <2> QED
    BY <1>2, <1>4, <2>1 DEF SlotAt, Named, Holds, Deciding, Keeps
<1>5. ASSUME manifest.exists, manifest.access = q.targetAccess,
             manifest.documents[p] = "visible", NEW c \in {"recover", "done"},
             NEW a \in 1..accessVersion, NEW n, Based(p, a), Deciding(q, n, c, q.prior)
      PROVE  SlotAt(n, p, a, l)
  <2>1. row[p].state = "committed" => manifest.access = accessVersion + 1
    BY <1>4, <1>5, StatesListed DEF RowAt
  <2>2. Did(n, row[p], p)
    BY <1>5, <2>1 DEF Did, Visible, Deciding, Keeps
  <2>3. Remembers(n, p, a) /\ Sees(n, p)
    BY <1>2, <1>5 DEF Remembers, Sees, Deciding, Keeps
  <2> QED
    BY <1>4, <1>5, <2>2, <2>3 DEF SlotAt
<1>6. ASSUME manifest.exists, manifest.access = q.previousAccess, Hidden(p),
             NEW a \in 1..accessVersion, NEW n, Based(p, a), Deciding(q, n, "prepare", x)
      PROVE  SlotAt(n, p, a, l)
  <2>1. a = accessVersion => x = Before(p)
    BY <1>1, <1>4, <1>6, PriorIsBefore
  <2>2. Remembers(n, p, a)
    BY <1>2, <1>6, <2>1 DEF Remembers, Deciding, Keeps
  <2>3. Sees(n, p) /\ Did(n, row[p], p)
    BY <1>2, <1>6 DEF Sees, Did, Deciding, Keeps
  <2> QED
    BY <1>4, <1>6, <2>2, <2>3 DEF SlotAt
<1>7. CASE /\ manifest.exists /\ manifest.access = q.targetAccess
           /\ manifest.documents[p] = "visible"
           /\ \E c \in {"recover", "done"} : LoadManifest(r, c, q.prior)
  BY <1>1, <1>2, <1>5, <1>7, LoadManifestDeck
<1>8. CASE /\ manifest.exists /\ manifest.access = q.previousAccess /\ Hidden(p)
           /\ LoadManifest(r, "prepare", x)
  BY <1>1, <1>2, <1>6, <1>8, LoadManifestDeck
<1> QED
  BY <1>2, <1>3, <1>7, <1>8, FinishDeck

\* An activation writes down the versions it was sent with and keeps the prior
\* ones.
LEMMA ActiveLedgerAt ==
  ASSUME WorkerInv, DeckInv, NEW r \in Slots, request[r].kind = "activate",
         request[r].ledgerFresh, NEW a \in 1..accessVersion, Based(Slot(r), a)
  PROVE  LedgerAt(ActiveLedger(r), Slot(r), a) /\ ActiveLedger(r).previousAccess # 0
<1>1. PICK q, p, l, m : /\ q = request[r] /\ p = Slot(r) /\ l = ledger[p]
                        /\ m = [l EXCEPT !.status = "active", !.version = q.version,
                                         !.previousAccess = q.previousAccess,
                                         !.targetAccess = q.targetAccess]
  OBVIOUS
<1>2. /\ l = LedgerOf(r) /\ l \in Ledger /\ SlotAt(q, p, a, l) /\ LedgerAt(l, p, a)
      /\ accessVersion \in Nat \ {0} /\ RowAt(row[p], a)
  BY <1>1, Acting
<1>3. m.previousAccess = q.previousAccess /\ m.prior = l.prior
  BY <1>1, <1>2 DEF Ledger
<1>4. q.previousAccess = a /\ a # 0 /\ row[p].targetAccess = a + 1 /\ l.previousAccess # 0
  BY <1>1, <1>2 DEF SlotAt, Named, Holds
<1>5. l.previousAccess = a
  BY <1>2, <1>4 DEF LedgerAt, Told
<1>6. row[p].state \notin Early
  BY <1>2, <1>4 DEF RowAt, Unreserved, Early
<1>7. LedgerAt(m, p, a) /\ m.previousAccess # 0
  BY <1>2, <1>3, <1>4, <1>5, <1>6 DEF LedgerAt, Told
<1> QED
  BY <1>1, <1>2, <1>7 DEF ActiveLedger

LEMMA ActivateRecoverDeck ==
  ASSUME WorkerInv, DeckInv, NEW r \in Slots, ActivateRecover(r)
  PROVE  DeckInv'
<1>1. PICK q, p, l : q = request[r] /\ p = Slot(r) /\ l = ledger[p]
  OBVIOUS
<1>2. /\ q.kind = "activate" /\ q.kind # "idle" /\ q.pc = "recover" /\ UNCHANGED dbVars
  BY <1>1 DEF ActivateRecover, At
<1>3. LedgerOf(r) = l
  BY <1>1, <1>2, Acting
<1>4. \/ q.ledgerFresh /\ LedgerPut(r, p, ActiveLedger(r), Answer(r, q.version))
      \/ Finish(r) \/ Become(r, Answer(r, l.version))
  BY <1>1, <1>3 DEF ActivateRecover, Slot
<1> QED
  BY <1>1, <1>2, <1>4, ActiveLedgerAt, ReceiptPutDeck, AnswerDeck, FinishDeck

LEMMA ActivateLedgerDeck ==
  ASSUME WorkerInv, DeckInv, NEW r \in Slots, ActivateLedger(r)
  PROVE  DeckInv'
<1>1. PICK q, p, l : q = request[r] /\ p = Slot(r) /\ l = ledger[p]
  OBVIOUS
<1>2. /\ q.kind = "activate" /\ q.kind # "idle" /\ q.pc = "ledger" /\ UNCHANGED dbVars
  BY <1>1 DEF ActivateLedger, At
<1>3. \/ q.ledgerFresh /\ LedgerPut(r, p, ActiveLedger(r), Answer(r, q.version))
      \/ Finish(r)
  BY <1>1 DEF ActivateLedger, Slot
<1> QED
  BY <1>1, <1>2, <1>3, ActiveLedgerAt, ReceiptPutDeck, FinishDeck

LEMMA ActivatePrepareDeck ==
  ASSUME WorkerInv, DeckInv, NEW r \in Slots, ActivatePrepare(r)
  PROVE  DeckInv'
<1>1. PICK q, p, l, m, n :
        /\ q = request[r] /\ p = Slot(r) /\ l = ledger[p]
        /\ m = [q.seen EXCEPT !.status = "activating", !.version = q.version,
                              !.previousAccess = q.previousAccess,
                              !.targetAccess = q.targetAccess, !.prior = q.prior]
        /\ n = [q EXCEPT !.pc = "fence"]
  OBVIOUS
<1>2. /\ q.kind = "activate" /\ q.kind # "idle" /\ q.pc = "prepare" /\ UNCHANGED dbVars
  BY <1>1 DEF ActivatePrepare, At
<1>3. Finish(r) \/ Goto(r, "fence") \/ LedgerPut(r, p, m, n)
  BY <1>1, Zenon DEF ActivatePrepare, Slot
<1>4. q \in Request /\ q.seen \in Ledger /\ p \in Publications
  BY <1>1, <1>2, Acting DEF Request
<1>5. Going(q, n, "fence")
  BY <1>1, <1>4 DEF Request, Going, Keeps
<1>6. m.previousAccess = q.previousAccess /\ m.prior = q.prior
  BY <1>1, <1>4 DEF Ledger
<1>7. ASSUME NEW a \in 1..accessVersion, NEW k, NEW j, Based(p, a), Going(q, k, "fence"),
             k.ledgerFresh => j.previousAccess # 0
      PROVE  SlotAt(k, p, a, j)
  <2>1. SlotAt(q, p, a, l)
    BY <1>1, <1>2, <1>7, Acting
  <2>2. Told(k.seen, p, a) /\ Named(k, row[p], a)
    BY <1>2, <1>7, <2>1 DEF SlotAt, Named, Going, Keeps
  <2>3. Sees(k, p)
    BY <1>2, <1>7, <2>1 DEF SlotAt, Sees, Going, Keeps
  <2>4. Remembers(k, p, a) /\ Did(k, row[p], p) /\ Holds(k, j)
    BY <1>2, <1>7 DEF Remembers, Did, Holds, Going, Keeps
  <2> QED
    BY <2>2, <2>3, <2>4 DEF SlotAt
<1>8. ASSUME NEW a \in 1..accessVersion, NEW k, Based(p, a), Going(q, k, "fence")
      PROVE  SlotAt(k, p, a, l)
  <2>1. SlotAt(q, p, a, l)
    BY <1>1, <1>2, <1>8, Acting
  <2>2. k.ledgerFresh => l.previousAccess # 0
    BY <1>2, <1>8, <2>1 DEF SlotAt, Holds, Going
  <2> QED
    BY <1>7, <1>8, <2>2
<1>9. ASSUME NEW a \in 1..accessVersion, Based(p, a)
      PROVE  n.publication = p /\ SlotAt(n, p, a, m) /\ LedgerAt(m, p, a)
  <2>1. SlotAt(q, p, a, l) /\ RowAt(row[p], a) /\ accessVersion \in Nat \ {0}
    BY <1>1, <1>2, <1>9, Acting
  <2>2. q.previousAccess = a /\ a # 0 /\ row[p].targetAccess = a + 1
    BY <1>2, <2>1 DEF SlotAt, Named
  <2>3. row[p].state \notin Early
    BY <2>1, <2>2 DEF RowAt, Unreserved, Early
  <2>4. a = accessVersion => q.prior = Before(p)
    BY <1>2, <2>1 DEF SlotAt, Remembers
  <2>5. LedgerAt(m, p, a)
    BY <1>6, <2>2, <2>3, <2>4 DEF LedgerAt, Told
  <2>6. SlotAt(n, p, a, m)
    BY <1>5, <1>6, <1>7, <1>9, <2>2
  <2>7. n.publication = p
    BY <1>1, <1>5 DEF Going, Keeps, Slot
  <2> QED
    BY <2>5, <2>6, <2>7
<1>10. CASE LedgerPut(r, p, m, n)
  BY <1>2, <1>4, <1>9, <1>10, LedgerDeck
<1>11. CASE Goto(r, "fence")
  BY <1>1, <1>2, <1>8, <1>11, GotoDeck
<1> QED
  BY <1>2, <1>3, <1>10, <1>11, FinishDeck

LEMMA ActivatePutDeck ==
  ASSUME WorkerInv, DeckInv, NEW r \in Slots, ActivatePut(r)
  PROVE  DeckInv'
<1>1. PICK q, p, l, docs : /\ q = request[r] /\ p = Slot(r) /\ l = ledger[p]
                           /\ docs = ActivatedDocuments(p)
  OBVIOUS
<1>2. q.kind = "activate" /\ q.kind # "idle" /\ q.pc = "put" /\ UNCHANGED dbVars
  BY <1>1 DEF ActivatePut, At
<1>3. \/ Finish(r)
      \/ /\ q.manifestFresh
         /\ ManifestPut(r, q.targetAccess, docs,
                        [q EXCEPT !.pc = "ledger", !.version = @ + 1])
  BY <1>1 DEF ActivatePut, Slot
<1>4. PICK a \in 1..accessVersion : Based(p, a)
  BY <1>1, <1>2, Acting
<1>5. SlotAt(q, p, a, l) /\ RowAt(row[p], a) /\ p \in Publications
  BY <1>1, <1>2, <1>4, Acting
<1>6. CASE q.manifestFresh
  <2>1. /\ q.previousAccess = a /\ q.targetAccess = a + 1 /\ row[p].targetAccess = a + 1
        /\ manifest.exists /\ manifest.access = a /\ Hidden(p)
    BY <1>2, <1>5, <1>6 DEF SlotAt, Named, Sees
  <2>2. Fits(a + 1, docs) /\ a = accessVersion /\ docs[p] = "visible"
    BY <1>1, <1>5, <2>1, ActivateFits
  <2> QED
    BY <1>1, <1>2, <1>3, <2>1, <2>2, FinishDeck, TicketWriteDeck
<1> QED
  BY <1>2, <1>3, <1>6, FinishDeck

LEMMA RollbackDecideDeck ==
  ASSUME WorkerInv, DeckInv, NEW r \in Slots, RollbackDecide(r)
  PROVE  DeckInv'
<1>1. PICK q, p, l, x : /\ q = request[r] /\ p = Slot(r) /\ l = ledger[p]
                        /\ x = q.seen.prior
  OBVIOUS
<1>2. q.kind = "rollback" /\ q.kind # "idle" /\ UNCHANGED dbVars
  BY <1>1 DEF RollbackDecide, At
<1>3. \/ Finish(r)
      \/ LoadManifest(r, "record", x)
      \/ /\ manifest.exists /\ (OnlyStaged(r) \/ ActivationShown(r))
         /\ LoadManifest(r, "fence", x)
  BY <1>1, Zenon DEF RollbackDecide
<1>4. OnlyStaged(r) => manifest.access = q.previousAccess /\ Hidden(p)
  BY <1>1 DEF OnlyStaged, Slot
<1>5. ActivationShown(r) =>
        PriorReplaced(p, q.seen.prior) /\ q.seen.previousAccess = q.previousAccess
  BY <1>1 DEF ActivationShown, Slot
<1>6. ASSUME NEW c, NEW a \in 1..accessVersion, NEW n, Based(p, a), Deciding(q, n, c, x)
      PROVE  Told(n.seen, p, a) /\ Named(n, row[p], a) /\ Holds(n, l)
             /\ Remembers(n, p, a) /\ Did(n, row[p], p)
  <2>1. SlotAt(q, p, a, l)
    BY <1>1, <1>2, <1>6, Acting
  <2>2. Told(n.seen, p, a) /\ Named(n, row[p], a) /\ Holds(n, l)
    BY <1>2, <1>6, <2>1 DEF SlotAt, Named, Holds, Deciding, Keeps
  <2>3. Remembers(n, p, a) /\ Did(n, row[p], p)
    BY <1>1, <1>2, <1>6 DEF Remembers, Did, Deciding, Keeps
  <2> QED
    BY <2>2, <2>3
<1>7. CASE LoadManifest(r, "record", x)
  <2>1. ASSUME NEW a \in 1..accessVersion, NEW n, Based(p, a), Deciding(q, n, "record", x)
        PROVE  SlotAt(n, p, a, l)
    <3>1. Sees(n, p)
      BY <1>2, <2>1 DEF Sees, Deciding, Keeps
    <3> QED
      BY <1>6, <2>1, <3>1 DEF SlotAt
  <2> QED
    BY <1>1, <1>2, <1>7, <2>1, LoadManifestDeck
<1>8. CASE /\ manifest.exists /\ (OnlyStaged(r) \/ ActivationShown(r))
           /\ LoadManifest(r, "fence", x)
  <2>1. ASSUME NEW a \in 1..accessVersion, NEW n, Based(p, a), Deciding(q, n, "fence", x)
        PROVE  SlotAt(n, p, a, l)
    <3>1. Sees(n, p)
      BY <1>2, <1>4, <1>5, <1>8, <2>1 DEF Sees, Deciding, Keeps
    <3> QED
      BY <1>6, <2>1, <3>1 DEF SlotAt
  <2> QED
    BY <1>1, <1>2, <1>8, <2>1, LoadManifestDeck
<1> QED
  BY <1>2, <1>3, <1>7, <1>8, FinishDeck

LEMMA RollbackPutDeck ==
  ASSUME WorkerInv, DeckInv, NEW r \in Slots, RollbackPut(r)
  PROVE  DeckInv'
<1>1. PICK q, p, l, docs :
        /\ q = request[r] /\ p = Slot(r) /\ l = ledger[p]
        /\ docs = IF Visible(p) THEN RestoredDocuments(p, q.prior) ELSE WithoutDocument(p)
  OBVIOUS
<1>2. q.kind = "rollback" /\ q.kind # "idle" /\ q.pc = "put" /\ UNCHANGED dbVars
  BY <1>1 DEF RollbackPut, At
<1>3. \/ Finish(r)
      \/ /\ q.manifestFresh
         /\ ManifestPut(r, q.previousAccess, docs,
                        [q EXCEPT !.pc = "ledger", !.version = @ + 1])
  BY <1>1 DEF RollbackPut, Slot, Visible
<1>4. PICK a \in 1..accessVersion : Based(p, a)
  BY <1>1, <1>2, Acting
<1>5. /\ SlotAt(q, p, a, l) /\ RowAt(row[p], a) /\ p \in Publications
  BY <1>1, <1>2, <1>4, Acting
<1>6. q.previousAccess = a /\ row[p].state \in Discarded
  BY <1>2, <1>5 DEF SlotAt, Named, RowAt
<1>7. q.prior = q.seen.prior /\ Told(q.seen, p, a)
  BY <1>2, <1>5 DEF SlotAt, Remembers
<1>8. ASSUME q.manifestFresh
      PROVE  Fits(a, docs)
  <2>1. /\ manifest.exists
        /\ \/ manifest.access = a /\ Hidden(p)
           \/ PriorReplaced(p, q.seen.prior) /\ q.seen.previousAccess = a
    BY <1>2, <1>5, <1>6, <1>8 DEF SlotAt, Sees
  <2>2. CASE Visible(p)
    <3>1. PriorReplaced(p, q.seen.prior) /\ q.seen.previousAccess = a
      BY <2>1, <2>2 DEF Hidden, Visible
    <3>2. PICK k : k = q.seen
      OBVIOUS
    <3>3. Fits(a, RestoredDocuments(p, k.prior))
      BY <1>5, <1>6, <1>7, <3>1, <3>2, RestoreFits
    <3> QED
      BY <1>1, <1>7, <2>2, <3>2, <3>3
  <2>3. CASE ~Visible(p)
    <3>1. manifest.access = a
      BY <2>1, <2>3 DEF PriorReplaced, Visible
    <3>2. Fits(a, WithoutDocument(p))
      BY <1>5, <1>6, <2>1, <2>3, <3>1, RemoveFits DEF Terminal
    <3> QED
      BY <1>1, <2>3, <3>2
  <2> QED
    BY <2>2, <2>3
<1> QED
  BY <1>1, <1>2, <1>3, <1>6, <1>8, FinishDeck, TicketWriteDeck

LEMMA RollbackLedgerDeck ==
  ASSUME WorkerInv, DeckInv, NEW r \in Slots, RollbackLedger(r)
  PROVE  DeckInv'
<1>1. PICK q, p, l, v, m :
        /\ q = request[r] /\ p = Slot(r) /\ l = ledger[p]
        /\ v = IF q.pc = "ledger" THEN q.version ELSE l.version
        /\ m = [l EXCEPT !.status = "rolled_back", !.version = v]
  OBVIOUS
<1>2. q.kind = "rollback" /\ q.kind # "idle" /\ UNCHANGED dbVars
  BY <1>1, Zenon DEF RollbackLedger, At
<1>3. Finish(r) \/ (q.ledgerFresh /\ LedgerPut(r, p, m, Idle))
  BY <1>1 DEF RollbackLedger, Slot, LedgerOf
<1>4. l \in Ledger /\ p \in Publications
  BY <1>1, <1>2, Acting
<1>5. m.status = "rolled_back" /\ m.previousAccess = l.previousAccess /\ m.prior = l.prior
  BY <1>1, <1>4 DEF Ledger
<1>6. ASSUME q.ledgerFresh, NEW a \in 1..accessVersion, Based(p, a)
      PROVE  LedgerAt(m, p, a)
  <2>1. SlotAt(q, p, a, l) /\ LedgerAt(l, p, a)
    BY <1>1, <1>2, <1>6, Acting
  <2>2. l.previousAccess # 0
    BY <1>2, <1>6, <2>1 DEF SlotAt, Holds
  <2> QED
    BY <1>5, <2>1, <2>2 DEF LedgerAt, Told
<1>7. Idle.kind = "idle"
  BY DEF Idle
<1>8. CASE q.ledgerFresh /\ LedgerPut(r, p, m, Idle)
  BY <1>2, <1>4, <1>6, <1>7, <1>8, LedgerDeck
<1> QED
  BY <1>2, <1>3, <1>8, FinishDeck

LEMMA ManifestStepDeck ==
  ASSUME WorkerInv, DeckInv, NEW r \in Slots, ManifestStep(r)
  PROVE  DeckInv'
BY ManifestTicketLoadDeck, FenceDeck, CommitDecideDeck, CommitRecoverDeck, CommitPutDeck,
   CommitLedgerDeck, ActivateDecideDeck, ActivateRecoverDeck, ActivatePrepareDeck,
   ActivatePutDeck, ActivateLedgerDeck, RollbackDecideDeck, RollbackPutDeck,
   RollbackLedgerDeck DEF ManifestStep

-----------------------------------------------------------------------------
(* Cleanup.                                                                  *)

\* Only while it rolls back and removes does a pass rely on anything.
LEMMA PlainSlot ==
  ASSUME NEW q, NEW p, NEW a, NEW l, q.kind = "cleanup",
         q.pc \notin {"rollback", "restore", "mark", "removing"},
         Told(q.seen, p, a), q.databaseAccess \in 1..accessVersion
  PROVE  SlotAt(q, p, a, l)
BY DEF SlotAt, Named, Remembers, Sees, Did, Holds

\* What a pass relies on.
LEMMA CleanupSlot ==
  ASSUME WorkerInv, DeckInv, NEW r \in Slots, request[r].kind = "cleanup",
         NEW a \in 1..accessVersion, Based(Slot(r), a)
  PROVE  /\ SlotAt(request[r], Slot(r), a, ledger[Slot(r)])
         /\ RowAt(row[Slot(r)], a) /\ LedgerAt(ledger[Slot(r)], Slot(r), a)
         /\ Told(request[r].seen, Slot(r), a)
         /\ request[r].databaseAccess \in 1..accessVersion
<1>1. request[r].kind # "idle"
  OBVIOUS
<1>2. /\ SlotAt(request[r], Slot(r), a, ledger[Slot(r)])
      /\ RowAt(row[Slot(r)], a) /\ LedgerAt(ledger[Slot(r)], Slot(r), a)
  BY <1>1, Acting
<1> QED
  BY <1>2 DEF SlotAt, Named

\* A pass that goes on to where it relies on nothing.
LEMMA PlainGotoDeck ==
  ASSUME WorkerInv, DeckInv, UNCHANGED dbVars, NEW r \in Slots,
         request[r].kind = "cleanup", NEW c, Goto(r, c),
         c \notin {"rollback", "restore", "mark", "removing"}
  PROVE  DeckInv'
<1>1. request[r].kind # "idle"
  OBVIOUS
<1>2. ASSUME NEW n, NEW a \in 1..accessVersion, Based(Slot(r), a),
             Going(request[r], n, c)
      PROVE  SlotAt(n, Slot(r), a, ledger[Slot(r)])
  <2>1. Told(n.seen, Slot(r), a) /\ n.databaseAccess \in 1..accessVersion
    BY <1>2, CleanupSlot DEF Going, Keeps
  <2> QED
    BY <1>2, <2>1, PlainSlot DEF Going, Keeps
<1> QED
  BY <1>1, <1>2, GotoDeck

LEMMA FailDeck ==
  ASSUME WorkerInv, DeckInv, UNCHANGED dbVars, NEW r \in Slots,
         request[r].kind = "cleanup", Fail(r)
  PROVE  DeckInv'
BY PlainGotoDeck DEF Fail

\* A pass that only writes an object.
LEMMA ObjectOnwardDeck ==
  ASSUME WorkerInv, DeckInv, UNCHANGED <<ledger, manifest, dbVars>>, NEW r \in Slots,
         request[r].kind = "cleanup", NEW c, request' = [request EXCEPT ![r].pc = c],
         c \notin {"rollback", "restore", "mark", "removing"}
  PROVE  DeckInv'
<1>1. PICK q, n, p, l : /\ q = request[r] /\ n = [q EXCEPT !.pc = c]
                        /\ p = Slot(r) /\ l = ledger[p]
  OBVIOUS
<1>2. q.kind # "idle" /\ q \in Request
  BY <1>1, Acting
<1>3. Going(q, n, c)
  BY <1>1, <1>2 DEF Request, Going, Keeps
<1>4. request' = [request EXCEPT ![r] = n]
  BY <1>1
<1>5. ASSUME NEW a \in 1..accessVersion, Based(p, a)
      PROVE  SlotAt(n, p, a, l)
  <2>1. Told(n.seen, p, a) /\ n.databaseAccess \in 1..accessVersion
    BY <1>1, <1>3, <1>5, CleanupSlot DEF Going, Keeps
  <2> QED
    BY <1>1, <1>3, <2>1, PlainSlot DEF Going, Keeps
<1> QED
  BY <1>1, <1>2, <1>3, <1>4, <1>5, OnwardDeck DEF Going

\* A pass that writes a ledger and then relies on nothing.
LEMMA CleanupLedgerDeck ==
  ASSUME WorkerInv, DeckInv, UNCHANGED dbVars, NEW r \in Slots,
         request[r].kind = "cleanup", NEW c, NEW m,
         LedgerPut(r, Slot(r), m, [request[r] EXCEPT !.pc = c]),
         c \notin {"rollback", "restore", "mark", "removing"},
         \A a \in 1..accessVersion : Based(Slot(r), a) => LedgerAt(m, Slot(r), a)
  PROVE  DeckInv'
<1>1. PICK q, n, p : q = request[r] /\ n = [q EXCEPT !.pc = c] /\ p = Slot(r)
  OBVIOUS
<1>2. q.kind # "idle" /\ q \in Request /\ p \in Publications
  BY <1>1, Acting
<1>3. Going(q, n, c)
  BY <1>1, <1>2 DEF Request, Going, Keeps
<1>4. ASSUME NEW a \in 1..accessVersion, Based(p, a)
      PROVE  n.publication = p /\ SlotAt(n, p, a, m) /\ LedgerAt(m, p, a)
  <2>1. Told(n.seen, p, a) /\ n.databaseAccess \in 1..accessVersion
    BY <1>1, <1>3, <1>4, CleanupSlot DEF Going, Keeps
  <2>2. SlotAt(n, p, a, m)
    BY <1>1, <1>3, <2>1, PlainSlot DEF Going, Keeps
  <2> QED
    BY <1>1, <1>3, <1>4, <2>2 DEF Going, Keeps, Slot
<1> QED
  BY <1>1, <1>2, <1>4, LedgerDeck

LEMMA CleanupLoadDeck ==
  ASSUME WorkerInv, DeckInv, NEW r \in Slots, CleanupLoad(r)
  PROVE  DeckInv'
<1>1. PICK q, p, l : q = request[r] /\ p = Slot(r) /\ l = ledger[p]
  OBVIOUS
<1>2. q.kind = "cleanup" /\ q.kind # "idle" /\ UNCHANGED dbVars
  BY <1>1 DEF CleanupLoad, At
<1>3. \/ Fail(r)
      \/ \E c \in {"recheck", "quiesce", "failed", "remove", "rollback"} :
           /\ LoadLedger(r, c)
           /\ c = "rollback" => row[p].state \in Discarded
  <2>1. NeedsRollback(r) => row[p].state \in Discarded
    BY <1>1 DEF NeedsRollback, Slot
  <2> QED
    BY <2>1 DEF CleanupLoad
<1>4. ASSUME NEW c \in {"recheck", "quiesce", "failed", "remove", "rollback"},
             c = "rollback" => row[p].state \in Discarded,
             NEW a \in 1..accessVersion, NEW n, Based(p, a), Loading(q, n, c, l)
      PROVE  SlotAt(n, p, a, l)
  <2>1. LedgerAt(l, p, a) /\ q.databaseAccess \in 1..accessVersion
    BY <1>1, <1>2, <1>4, CleanupSlot
  <2>2. Told(n.seen, p, a)
    BY <1>4, <2>1 DEF LedgerAt, Loading
  <2>3. Named(n, row[p], a)
    BY <1>2, <1>4, <2>1 DEF Named, Loading, Keeps
  <2>4. Holds(n, l)
    BY <1>2, <1>4 DEF Holds, Loading, Keeps
  <2>5. Remembers(n, p, a) /\ Sees(n, p) /\ Did(n, row[p], p)
    BY <1>2, <1>4 DEF Remembers, Sees, Did, Loading, Keeps
  <2> QED
    BY <2>2, <2>3, <2>4, <2>5 DEF SlotAt
<1> QED
  BY <1>1, <1>2, <1>3, <1>4, FailDeck, LoadLedgerDeck

LEMMA CleanupQuiesceDeck ==
  ASSUME WorkerInv, DeckInv, NEW r \in Slots, CleanupQuiesce(r)
  PROVE  DeckInv'
<1>1. PICK q, p, l, m, k :
        /\ q = request[r] /\ p = Slot(r) /\ l = ledger[p]
        /\ m = [NoLedger EXCEPT !.status = "cleanup_pending", !.previousStatus = "receiving",
                                !.generation = q.generation]
        /\ k = [l EXCEPT !.status = "cleanup_pending", !.settled = FALSE,
                         !.previousStatus = l.status]
  OBVIOUS
<1>2. q.kind = "cleanup" /\ q.kind # "idle" /\ UNCHANGED dbVars
  BY <1>1, Zenon DEF CleanupQuiesce, At
<1>3. \/ Fail(r)
      \/ \E x \in {m, k} : LedgerPut(r, p, x, [q EXCEPT !.pc = "sentinel"])
  BY <1>1 DEF CleanupQuiesce, Slot, LedgerOf
<1>4. l \in Ledger /\ accessVersion \in Nat \ {0}
  BY <1>1, <1>2, Acting
<1>5. /\ m.status = "cleanup_pending" /\ m.previousAccess = 0 /\ m.version = 0
      /\ k.status = "cleanup_pending" /\ k.previousAccess = l.previousAccess
      /\ k.prior = l.prior /\ k.version = l.version
  BY <1>1, <1>4 DEF Ledger, NoLedger
<1>6. ASSUME NEW a \in 1..accessVersion, Based(p, a)
      PROVE  LedgerAt(m, p, a) /\ LedgerAt(k, p, a)
  <2>1. LedgerAt(l, p, a)
    BY <1>1, <1>2, <1>6, CleanupSlot
  <2>2. LedgerAt(m, p, a)
    BY <1>4, <1>5 DEF LedgerAt, Told, Activatable
  <2>3. LedgerAt(k, p, a)
    BY <1>5, <2>1 DEF LedgerAt, Told, Activatable
  <2> QED
    BY <2>2, <2>3
<1> QED
  BY <1>1, <1>2, <1>3, <1>6, FailDeck, CleanupLedgerDeck

LEMMA CleanupSentinelDeck ==
  ASSUME WorkerInv, DeckInv, NEW r \in Slots, CleanupSentinel(r)
  PROVE  DeckInv'
<1>1. PICK c \in {"failed"} :
        /\ request[r].kind = "cleanup" /\ request' = [request EXCEPT ![r].pc = c]
        /\ UNCHANGED <<ledger, manifest, dbVars>>
  BY DEF CleanupSentinel, At
<1> QED
  BY <1>1, ObjectOnwardDeck

LEMMA CleanupTombstoneDeck ==
  ASSUME WorkerInv, DeckInv, NEW r \in Slots, CleanupTombstone(r)
  PROVE  DeckInv'
<1>1. PICK c \in {"succeeded", "close"} :
        /\ request[r].kind = "cleanup" /\ request' = [request EXCEPT ![r].pc = c]
        /\ UNCHANGED <<ledger, manifest, dbVars>>
  BY DEF CleanupTombstone, At
<1> QED
  BY <1>1, ObjectOnwardDeck

LEMMA CleanupRollbackDeck ==
  ASSUME WorkerInv, DeckInv, NEW r \in Slots, CleanupRollback(r)
  PROVE  DeckInv'
<1>1. PICK q, p, l, x : /\ q = request[r] /\ p = Slot(r) /\ l = ledger[p]
                        /\ x = q.seen.prior
  OBVIOUS
<1>2. /\ q.kind = "cleanup" /\ q.kind # "idle" /\ q.pc = "rollback" /\ UNCHANGED dbVars
  BY <1>1, Zenon DEF CleanupRollback, At
<1>3. RollbackBound(r) =>
        row[p].targetAccess # 0 /\ q.seen.previousAccess = row[p].committedAccess
  BY <1>1 DEF RollbackBound, Slot
<1>4. \/ Fail(r)
      \/ /\ RollbackBound(r)
         /\ \/ LoadManifest(r, "remove", x)
            \/ LoadManifest(r, "mark", x)
            \/ /\ manifest.exists /\ PriorReplaced(p, x)
               /\ LoadManifest(r, "restore", x)
  BY <1>1, Zenon DEF CleanupRollback, Slot
<1>5. ASSUME RollbackBound(r), NEW c \in {"remove", "mark", "restore"},
             c = "restore" => manifest.exists /\ PriorReplaced(p, x),
             NEW a \in 1..accessVersion, NEW n, Based(p, a), Deciding(q, n, c, x)
      PROVE  SlotAt(n, p, a, l)
  <2>1. SlotAt(q, p, a, l)
    BY <1>1, <1>2, <1>5, CleanupSlot
  <2>2. Told(n.seen, p, a) /\ Holds(n, l)
    BY <1>2, <1>5, <2>1 DEF SlotAt, Holds, Deciding, Keeps
  <2>3. Named(n, row[p], a)
    BY <1>2, <1>3, <1>5, <2>1 DEF SlotAt, Named, Deciding, Keeps
  <2>4. Remembers(n, p, a) /\ Did(n, row[p], p)
    BY <1>1, <1>2, <1>5 DEF Remembers, Did, Deciding, Keeps
  <2>5. Sees(n, p)
    BY <1>1, <1>2, <1>5 DEF Sees, Deciding, Keeps
  <2> QED
    BY <2>2, <2>3, <2>4, <2>5 DEF SlotAt
<1>6. ASSUME RollbackBound(r), NEW c \in {"remove", "mark", "restore"},
             c = "restore" => manifest.exists /\ PriorReplaced(p, x),
             LoadManifest(r, c, x)
      PROVE  DeckInv'
  BY <1>1, <1>2, <1>5, <1>6, LoadManifestDeck
<1> QED
  BY <1>1, <1>2, <1>4, <1>6, FailDeck

\* A pass writes a manifest that fits.
LEMMA CleanupWriteDeck ==
  ASSUME WorkerInv, DeckInv, UNCHANGED dbVars, NEW r \in Slots,
         request[r].kind = "cleanup", NEW access, NEW docs, Fits(access, docs), NEW n,
         ManifestPut(r, access, docs, n), Keeps(request[r], n),
         n.seen = request[r].seen, n.prior = request[r].prior,
         n.ledgerFresh = request[r].ledgerFresh,
         \/ request[r].pc = "restore" /\ n.pc = "mark"
         \/ request[r].pc = "removing" /\ n.pc = "tombstone"
  PROVE  DeckInv'
<1>1. PICK q, p, l : q = request[r] /\ p = Slot(r) /\ l = ledger[p]
  OBVIOUS
<1>2. ledger' = ledger
  BY DEF ManifestPut
<1>3. Did(n, row[p], p)'
  BY DEF Did, Keeps
<1>4. ASSUME NEW o \in Publications, NEW a \in 1..accessVersion, Based(o, a),
             n.kind # "idle", n.publication = o
      PROVE  SlotAt(n, o, a, ledger[o])'
  <2>1. o = p
    BY <1>1, <1>4 DEF Keeps, Slot
  <2>2. SlotAt(q, p, a, l)
    BY <1>1, <1>4, <2>1, CleanupSlot
  <2>3. SlotAt(n, p, a, l)'
    BY <1>1, <1>3, <2>2, SlotWritten
  <2> QED
    BY <1>1, <1>2, <2>1, <2>3
<1> QED
  BY <1>4, ManifestDeck

LEMMA CleanupRestoreDeck ==
  ASSUME WorkerInv, DeckInv, NEW r \in Slots, CleanupRestore(r)
  PROVE  DeckInv'
<1>1. PICK q, p, l, n : /\ q = request[r] /\ p = Slot(r) /\ l = ledger[p]
                        /\ n = [q EXCEPT !.pc = "mark", !.version = q.version + 1]
  OBVIOUS
<1>2. q.kind = "cleanup" /\ q.kind # "idle" /\ q.pc = "restore" /\ UNCHANGED dbVars
  BY <1>1 DEF CleanupRestore, At
<1>3. \/ Fail(r)
      \/ /\ q.manifestFresh
         /\ ManifestPut(r, row[p].committedAccess, RestoredDocuments(p, q.prior), n)
  BY <1>1 DEF CleanupRestore, Slot
<1>4. PICK a \in 1..accessVersion : Based(p, a)
  BY <1>1, <1>2, Acting
<1>5. SlotAt(q, p, a, l) /\ RowAt(row[p], a) /\ Told(q.seen, p, a)
  BY <1>1, <1>2, <1>4, CleanupSlot
<1>6. /\ q.seen.previousAccess = row[p].committedAccess /\ row[p].targetAccess # 0
      /\ row[p].state \in Discarded /\ q.prior = q.seen.prior
  BY <1>2, <1>5 DEF SlotAt, Named, Remembers
<1>7. row[p].committedAccess = a
  BY <1>5, <1>6 DEF RowAt
<1>8. q \in Request /\ p \in Publications
  BY <1>1, <1>2, Acting
<1>9. /\ Keeps(q, n) /\ n.seen = q.seen /\ n.prior = q.prior
      /\ n.ledgerFresh = q.ledgerFresh /\ n.pc = "mark"
  BY <1>1, <1>8 DEF Request, Keeps
<1>10. ASSUME q.manifestFresh
       PROVE  Fits(a, RestoredDocuments(p, q.prior))
  <2>1. PriorReplaced(p, q.seen.prior)
    BY <1>2, <1>5, <1>10 DEF SlotAt, Sees
  <2>2. PICK k : k = q.seen
    OBVIOUS
  <2>3. Fits(a, RestoredDocuments(p, k.prior))
    BY <1>5, <1>6, <1>7, <1>8, <2>1, <2>2, RestoreFits
  <2> QED
    BY <1>6, <2>2, <2>3
<1> QED
  BY <1>1, <1>2, <1>3, <1>7, <1>9, <1>10, FailDeck, CleanupWriteDeck

LEMMA CleanupMarkDeck ==
  ASSUME WorkerInv, DeckInv, NEW r \in Slots, CleanupMark(r)
  PROVE  DeckInv'
<1>1. PICK q, p, l, m :
        /\ q = request[r] /\ p = Slot(r) /\ l = ledger[p]
        /\ m = [l EXCEPT !.status = "rolled_back", !.version = q.version]
  OBVIOUS
<1>2. q.kind = "cleanup" /\ q.kind # "idle" /\ q.pc = "mark" /\ UNCHANGED dbVars
  BY <1>1, Zenon DEF CleanupMark, At
<1>3. \/ Fail(r) \/ LoadLedger(r, "remove")
      \/ q.ledgerFresh /\ LedgerPut(r, p, m, [q EXCEPT !.pc = "remove"])
  BY <1>1, Zenon DEF CleanupMark, Slot, LedgerOf
<1>4. l \in Ledger
  BY <1>1, <1>2, Acting
<1>5. m.status = "rolled_back" /\ m.previousAccess = l.previousAccess /\ m.prior = l.prior
  BY <1>1, <1>4 DEF Ledger
<1>6. ASSUME q.ledgerFresh, NEW a \in 1..accessVersion, Based(p, a)
      PROVE  LedgerAt(m, p, a)
  <2>1. SlotAt(q, p, a, l) /\ LedgerAt(l, p, a) /\ RowAt(row[p], a)
    BY <1>1, <1>2, <1>6, CleanupSlot
  <2>2. l.previousAccess # 0
    BY <1>2, <1>6, <2>1 DEF SlotAt, Holds, Named, RowAt
  <2> QED
    BY <1>5, <2>1, <2>2 DEF LedgerAt, Told
<1>7. ASSUME NEW n, NEW a \in 1..accessVersion, Based(p, a), Loading(q, n, "remove", l)
      PROVE  SlotAt(n, p, a, l)
  <2>1. LedgerAt(l, p, a) /\ q.databaseAccess \in 1..accessVersion
    BY <1>1, <1>2, <1>7, CleanupSlot
  <2> QED
    BY <1>2, <1>7, <2>1, PlainSlot DEF Loading, Keeps, LedgerAt
<1>8. CASE q.ledgerFresh /\ LedgerPut(r, p, m, [q EXCEPT !.pc = "remove"])
  BY <1>1, <1>2, <1>6, <1>8, CleanupLedgerDeck
<1>9. CASE LoadLedger(r, "remove")
  BY <1>1, <1>2, <1>7, <1>9, LoadLedgerDeck
<1> QED
  BY <1>1, <1>2, <1>3, <1>8, <1>9, FailDeck

LEMMA CleanupRemoveLoadDeck ==
  ASSUME WorkerInv, DeckInv, NEW r \in Slots, CleanupRemoveLoad(r)
  PROVE  DeckInv'
<1>1. PICK q, p, l, x : /\ q = request[r] /\ p = Slot(r) /\ l = ledger[p]
                        /\ x = q.prior
  OBVIOUS
<1>2. q.kind = "cleanup" /\ q.kind # "idle" /\ UNCHANGED dbVars
  BY <1>1 DEF CleanupRemoveLoad, At
<1>3. Fail(r) \/ (~Visible(p) /\ LoadManifest(r, "removing", x))
  BY <1>1 DEF CleanupRemoveLoad, Slot, Visible
<1>4. ASSUME ~Visible(p), NEW n, NEW a \in 1..accessVersion, Based(p, a),
             Deciding(q, n, "removing", x)
      PROVE  SlotAt(n, p, a, l)
  <2>1. Told(q.seen, p, a) /\ q.databaseAccess \in 1..accessVersion
    BY <1>1, <1>2, <1>4, CleanupSlot
  <2> QED
    BY <1>2, <1>4, <2>1 DEF SlotAt, Named, Remembers, Sees, Did, Holds, Deciding, Keeps
<1>5. CASE ~Visible(p) /\ LoadManifest(r, "removing", x)
  BY <1>1, <1>2, <1>4, <1>5, LoadManifestDeck
<1> QED
  BY <1>1, <1>2, <1>3, <1>5, FailDeck

LEMMA CleanupRemoveDeck ==
  ASSUME WorkerInv, DeckInv, NEW r \in Slots, CleanupRemove(r)
  PROVE  DeckInv'
<1>1. PICK q, p, l, n, access :
        /\ q = request[r] /\ p = Slot(r) /\ l = ledger[p]
        /\ n = [q EXCEPT !.pc = "tombstone"]
        /\ access = IF manifest.exists THEN manifest.access ELSE q.databaseAccess
  OBVIOUS
<1>2. q.kind = "cleanup" /\ q.kind # "idle" /\ q.pc = "removing" /\ UNCHANGED dbVars
  BY <1>1, Zenon DEF CleanupRemove, At
<1>3. \/ Fail(r)
      \/ q.manifestFresh /\ ManifestPut(r, access, WithoutDocument(p), n)
  BY <1>1 DEF CleanupRemove, Slot
<1>4. PICK a \in 1..accessVersion : Based(p, a)
  BY <1>1, <1>2, Acting
<1>5. SlotAt(q, p, a, l) /\ q.databaseAccess \in 1..accessVersion
  BY <1>1, <1>2, <1>4, CleanupSlot
<1>6. q \in Request /\ p \in Publications /\ row[p].state \in Terminal
  BY <1>1, <1>2, CleanupFinds
<1>7. /\ Keeps(q, n) /\ n.seen = q.seen /\ n.prior = q.prior
      /\ n.ledgerFresh = q.ledgerFresh /\ n.pc = "tombstone"
  BY <1>1, <1>6 DEF Request, Keeps
<1>8. ASSUME q.manifestFresh
      PROVE  Fits(access, WithoutDocument(p))
  <2>1. ~Visible(p)
    BY <1>2, <1>5, <1>8 DEF SlotAt, Sees
  <2>2. PICK d : d = q.databaseAccess
    OBVIOUS
  <2> QED
    BY <1>1, <1>5, <1>6, <2>1, <2>2, RemoveFits
<1> QED
  BY <1>1, <1>2, <1>3, <1>7, <1>8, FailDeck, CleanupWriteDeck

LEMMA CleanupRecheckDeck ==
  ASSUME WorkerInv, DeckInv, NEW r \in Slots, CleanupRecheck(r)
  PROVE  DeckInv'
<1>1. request[r].kind = "cleanup" /\ UNCHANGED dbVars
  BY DEF CleanupRecheck, At
<1>2. Fail(r) \/ Goto(r, "tombstone")
  BY DEF CleanupRecheck
<1> QED
  BY <1>1, <1>2, FailDeck, PlainGotoDeck

LEMMA CleanupCloseDeck ==
  ASSUME WorkerInv, DeckInv, NEW r \in Slots, CleanupClose(r)
  PROVE  DeckInv'
<1>1. PICK q, p, l, m : /\ q = request[r] /\ p = Slot(r) /\ l = ledger[p]
                        /\ m = [l EXCEPT !.status = "cleanup_complete"]
  OBVIOUS
<1>2. q.kind = "cleanup" /\ q.kind # "idle" /\ UNCHANGED dbVars
  BY <1>1, Zenon DEF CleanupClose, At
<1>3. \/ Fail(r) \/ Goto(r, "succeeded")
      \/ LedgerPut(r, p, m, [q EXCEPT !.pc = "succeeded"])
  BY <1>1, Zenon DEF CleanupClose, Slot, LedgerOf
<1>4. l \in Ledger
  BY <1>1, <1>2, Acting
<1>5. /\ m.status = "cleanup_complete" /\ m.previousAccess = l.previousAccess
      /\ m.prior = l.prior /\ m.version = l.version
  BY <1>1, <1>4 DEF Ledger
<1>6. ASSUME NEW a \in 1..accessVersion, Based(p, a)
      PROVE  LedgerAt(m, p, a)
  <2>1. LedgerAt(l, p, a)
    BY <1>1, <1>2, <1>6, CleanupSlot
  <2> QED
    BY <1>5, <2>1 DEF LedgerAt, Told, Activatable
<1>7. CASE Fail(r)
  BY <1>1, <1>2, <1>7, FailDeck
<1>8. CASE Goto(r, "succeeded")
  BY <1>1, <1>2, <1>8, PlainGotoDeck
<1>9. CASE LedgerPut(r, p, m, [q EXCEPT !.pc = "succeeded"])
  BY <1>1, <1>2, <1>6, <1>9, CleanupLedgerDeck
<1> QED
  BY <1>3, <1>7, <1>8, <1>9

LEMMA CleanupReportDeck ==
  ASSUME WorkerInv, DeckInv, NEW r \in Slots, CleanupReport(r), RecordsTypeOK'
  PROVE  DeckInv'
<1>1. request[r].kind # "idle" /\ Finish(r)
  BY DEF CleanupReport
<1>2. Slot(r) \in Publications
  BY <1>1, Acting
<1>3. UncommittingAction \/ UNCHANGED dbVars
  BY <1>2, Zenon DEF CleanupReport, UncommittingAction, Slot
<1> QED
  BY <1>3, <1>1, QuietFinishDeck

LEMMA CleanupStepDeck ==
  ASSUME WorkerInv, DeckInv, NEW r \in Slots, CleanupStep(r), RecordsTypeOK'
  PROVE  DeckInv'
BY CleanupLoadDeck, CleanupQuiesceDeck, CleanupSentinelDeck, CleanupRollbackDeck,
   CleanupRestoreDeck, CleanupMarkDeck, CleanupRemoveLoadDeck, CleanupRemoveDeck,
   CleanupRecheckDeck, CleanupTombstoneDeck, CleanupCloseDeck, CleanupReportDeck
   DEF CleanupStep

\* A claim starts a pass with the access version the lecture has now.
LEMMA CleanupClaimDeck ==
  ASSUME WorkerInv, DeckInv, NEW r \in Slots, NEW p \in Publications,
         CleanupClaim(r, p), RecordsTypeOK'
  PROVE  DeckInv'
<1>1. PICK n : n = Job(p)
  OBVIOUS
<1>2. /\ n.kind = "cleanup" /\ n.pc = "load" /\ n.publication = p
      /\ n.databaseAccess = accessVersion /\ n.seen = NoLedger
  BY <1>1 DEF Job, Idle
<1>3. /\ UncommittingAction /\ ledger' = ledger /\ manifest' = manifest
      /\ request' = [request EXCEPT ![r] = n]
  BY <1>1 DEF CleanupClaim, UncommittingAction, Become, storeVars
<1>4. accessVersion \in Nat \ {0} /\ accessVersion' = accessVersion
  BY <1>3, DeckTypes, Typed, QuietActions, QuietDeck DEF QuietAction
<1>5. ASSUME NEW o \in Publications, NEW a \in 1..accessVersion, NEW l
      PROVE  SlotAt(n, o, a, l)'
  <2>1. NoLedger.previousAccess = 0
    BY DEF NoLedger
  <2>2. Told(n.seen, o, a)'
    BY <1>2, <1>4, <2>1 DEF Told
  <2>3. n.databaseAccess \in 1..accessVersion'
    BY <1>2, <1>4
  <2> QED
    BY <1>2, <2>2, <2>3 DEF SlotAt, Named, Remembers, Sees, Did, Holds
<1> QED
  BY <1>3, <1>5, QuietOnwardDeck

-----------------------------------------------------------------------------
(* The Edge function and the browsers.                                       *)

\* A request that has just been sent relies only on what it was sent with.
LEMMA SentSlot ==
  ASSUME accessVersion \in Nat \ {0}, NEW n, NEW p, NEW a, NEW l,
         n.pc = "load", n.seen = NoLedger, ~n.ledgerFresh, ~n.manifestFresh,
         Named(n, row[p], a)
  PROVE  SlotAt(n, p, a, l)
<1>1. NoLedger.previousAccess = 0
  BY DEF NoLedger
<1>2. Told(n.seen, p, a)
  BY <1>1 DEF Told
<1> QED
  BY <1>2 DEF SlotAt, Remembers, Sees, Did, Holds

LEMMA SentDeck ==
  ASSUME WorkerInv, DeckInv, UNCHANGED dbVars, NEW r \in Slots,
         NEW p \in Publications, NEW n, Become(r, n), n.publication = p,
         n.pc = "load", n.seen = NoLedger, ~n.ledgerFresh, ~n.manifestFresh,
         \A a \in 1..accessVersion : RowAt(row[p], a) => Named(n, row[p], a)
  PROVE  DeckInv'
<1>1. ASSUME NEW o \in Publications, NEW a \in 1..accessVersion, Based(o, a),
             n.publication = o
      PROVE  SlotAt(n, o, a, ledger[o])
  <2>1. o = p /\ Named(n, row[p], a) /\ accessVersion \in Nat \ {0}
    BY <1>1, DeckTypes DEF Based
  <2>2. PICK l : l = ledger[o]
    OBVIOUS
  <2> QED
    BY <2>1, <2>2, SentSlot
<1> QED
  BY <1>1, MoveDeck DEF Become, storeVars

\* What a request is sent with.
LEMMA SendFields ==
  ASSUME NEW r, NEW p, NEW k, NEW g
  PROVE  LET n == Send(r, p, k, g)
         IN  /\ n.kind = k /\ n.pc = "load" /\ n.publication = p /\ n.seen = NoLedger
             /\ ~n.ledgerFresh /\ ~n.manifestFresh
BY DEF Send, Idle

LEMMA SendUploadDeck ==
  ASSUME WorkerInv, DeckInv, NEW r \in Slots, NEW p \in Publications, NEW g,
         SendUpload(r, p, g) \/ SendStatus(r, p)
  PROVE  DeckInv'
<1>1. PICK k, h, n : /\ k \in {"upload", "status"} /\ n = Send(r, p, k, h)
                     /\ Become(r, n) /\ UNCHANGED dbVars
  BY DEF SendUpload, SendStatus
<1>2. /\ n.kind = k /\ n.pc = "load" /\ n.publication = p /\ n.seen = NoLedger
      /\ ~n.ledgerFresh /\ ~n.manifestFresh
  BY <1>1, SendFields
<1>3. \A a : Named(n, row[p], a)
  BY <1>1, <1>2 DEF Named
<1> QED
  BY <1>1, <1>2, <1>3, SentDeck

LEMMA SendCommitDeck ==
  ASSUME WorkerInv, DeckInv, NEW r \in Slots, NEW p \in Publications, SendCommit(r, p)
  PROVE  DeckInv'
<1>1. PICK n : n = [Send(r, p, "commit", row[p].generation) EXCEPT
                      !.operation = row[p].operation, !.previousAccess = accessVersion]
  OBVIOUS
<1>2. /\ n.kind = "commit" /\ n.pc = "load" /\ n.publication = p /\ n.seen = NoLedger
      /\ ~n.ledgerFresh /\ ~n.manifestFresh /\ n.previousAccess = accessVersion
  BY <1>1 DEF Send, Idle
<1>3. row[p].state = "uploaded" /\ Become(r, n) /\ UNCHANGED dbVars
  BY <1>1 DEF SendCommit
<1>4. \A a \in 1..accessVersion : RowAt(row[p], a) => Named(n, row[p], a)
  BY <1>2, <1>3 DEF RowAt, Named, Inflight, Early
<1> QED
  BY <1>2, <1>3, <1>4, SentDeck

LEMMA SendActivateDeck ==
  ASSUME WorkerInv, DeckInv, NEW r \in Slots, NEW p \in Publications, SendActivate(r, p)
  PROVE  DeckInv'
<1>1. PICK n : n = [Send(r, p, "activate", row[p].generation) EXCEPT
                      !.operation = row[p].operation,
                      !.previousAccess = row[p].committedAccess,
                      !.targetAccess = row[p].targetAccess]
  OBVIOUS
<1>2. /\ n.kind = "activate" /\ n.pc = "load" /\ n.publication = p /\ n.seen = NoLedger
      /\ ~n.ledgerFresh /\ ~n.manifestFresh
      /\ n.previousAccess = row[p].committedAccess
      /\ n.targetAccess = row[p].targetAccess
  BY <1>1 DEF Send, Idle
<1>3. /\ row[p].state = "committed" /\ row[p].operation # 0
      /\ Become(r, n) /\ UNCHANGED dbVars
  BY <1>1 DEF SendActivate
<1>4. \A a \in 1..accessVersion : RowAt(row[p], a) => Named(n, row[p], a)
  BY <1>2, <1>3 DEF RowAt, Named
<1> QED
  BY <1>2, <1>3, <1>4, SentDeck

LEMMA ReadForAbortDeck ==
  ASSUME WorkerInv, DeckInv, NEW r \in Slots, NEW p \in Publications, ReadForAbort(r, p)
  PROVE  DeckInv'
<1>1. PICK n, t : /\ t = IF row[p].targetAccess # 0 THEN row[p].targetAccess
                                                    ELSE accessVersion + 1
                  /\ n = [Send(r, p, "abort", row[p].generation) EXCEPT
                            !.previousAccess = row[p].committedAccess,
                            !.targetAccess = t]
  OBVIOUS
<1>2. /\ n.kind = "abort" /\ n.pc = "load" /\ n.publication = p /\ n.seen = NoLedger
      /\ ~n.ledgerFresh /\ ~n.manifestFresh
      /\ n.previousAccess = row[p].committedAccess
  BY <1>1 DEF Send, Idle
<1>3. Become(r, n) /\ UNCHANGED dbVars
  BY <1>1, Zenon DEF ReadForAbort
<1>4. \A a : Named(n, row[p], a)
  BY <1>2 DEF Named
<1> QED
  BY <1>2, <1>3, <1>4, SentDeck

LEMMA ArrivalDeck ==
  ASSUME WorkerInv, DeckInv, NEW r \in Slots, NEW p \in Publications, Arrival(r, p)
  PROVE  DeckInv'
BY SendUploadDeck, SendCommitDeck, SendActivateDeck, ReadForAbortDeck DEF Arrival

\* An abort that goes on as a rollback leaves a discarded row behind it.
LEMMA AbortRowDeck ==
  ASSUME WorkerInv, DeckInv, NEW r \in Slots, AbortRow(r), RecordsTypeOK'
  PROVE  DeckInv'
<1>1. PICK q, p, n : /\ q = request[r] /\ p = Slot(r)
                     /\ n = [q EXCEPT !.kind = "rollback"]
  OBVIOUS
<1>2. q.kind = "abort" /\ q.kind # "idle" /\ q.pc = "load"
  BY <1>1 DEF AbortRow, At
<1>3. /\ q \in Request /\ p \in Publications /\ row[p] \in Row
      /\ accessVersion \in Nat \ {0} /\ ~q.ledgerFresh /\ ~q.manifestFresh
  <2>1. Knows(q, row[p], ledger[p], object[p], manifest.version)
    BY <1>1, <1>2, Running
  <2> QED
    BY <1>1, <1>2, <2>1, Acting DEF Knows
<1>4. \/ /\ Abort(p) \/ (row[p].state \in Discarded /\ UNCHANGED dbVars)
         /\ q.previousAccess # 0 /\ Become(r, n)
      \/ Finish(r) /\ (Abort(p) \/ UNCHANGED dbVars)
  BY <1>1, Zenon DEF AbortRow, Slot
<1>5. Abort(p) => UncommittingAction
  BY <1>3 DEF UncommittingAction
<1>6. /\ n.kind = "rollback" /\ n.pc = "load" /\ n.publication = p
      /\ n.seen = q.seen /\ ~n.ledgerFresh /\ ~n.manifestFresh
      /\ n.previousAccess = q.previousAccess
  BY <1>1, <1>2, <1>3 DEF Request, Slot
<1>7. ASSUME Abort(p) \/ (row[p].state \in Discarded /\ UNCHANGED dbVars),
             q.previousAccess # 0, Become(r, n)
      PROVE  DeckInv'
  <2>1. UncommittingAction \/ UNCHANGED dbVars
    BY <1>5, <1>7
  <2>2. QuietStep
    BY <2>1, Typed, QuietActions DEF QuietAction
  <2>3. row'[p].state \in Discarded
    <3>1. CASE Abort(p)
      <4>1. row'[p] = Discard(row[p], "aborted")
        BY <3>1, <1>3, Typed DEF Abort, Update
      <4>2. Discard(row[p], "aborted").state = "aborted"
        BY <1>3 DEF Discard, Row
      <4> QED
        BY <4>1, <4>2 DEF Discarded
    <3>2. CASE row[p].state \in Discarded /\ UNCHANGED dbVars
      BY <3>2 DEF dbVars
    <3> QED
      BY <1>7, <3>1, <3>2
  <2>4. row'[p].committedAccess = row[p].committedAccess
    BY <1>3, <2>2, <2>3, StatesListed DEF QuietStep, RowStep
  <2>5. ASSUME NEW o \in Publications, NEW a \in 1..accessVersion, NEW l,
               Based(o, a), l = ledger[o], n.publication = o
        PROVE  SlotAt(n, o, a, l)'
    <3>1. o = p /\ SlotAt(q, p, a, l)
      BY <1>1, <1>2, <1>6, <2>5, Acting
    <3>2. q.previousAccess = row[p].committedAccess /\ Told(q.seen, p, a)
      BY <1>2, <1>7, <3>1 DEF SlotAt, Named
    <3>3. PICK k : k = q.seen
      OBVIOUS
    <3>4. Told(k, p, a)'
      BY <1>3, <2>2, <3>2, <3>3, QuietTold
    <3>5. Told(n.seen, p, a)'
      BY <1>6, <3>3, <3>4
    <3>6. Named(n, row[p], a)'
      BY <1>6, <1>7, <2>3, <2>4, <3>2 DEF Named
    <3> QED
      BY <1>6, <3>1, <3>5, <3>6 DEF SlotAt, Remembers, Sees, Did, Holds
  <2>6. /\ ledger' = ledger /\ manifest' = manifest
        /\ request' = [request EXCEPT ![r] = n]
    BY <1>7 DEF Become, storeVars
  <2> QED
    BY <2>1, <2>5, <2>6, QuietOnwardDeck
<1> QED
  BY <1>4, <1>5, <1>7, QuietFinishDeck

\* A receipt of a commit: the document is listed, whatever happened since.
LEMMA CommitReceiptDeck ==
  ASSUME WorkerInv, DeckInv, RecordsTypeOK', NEW r \in Slots,
         request[r].kind = "commit", request[r].pc = "done", Finish(r),
         NEW operation, NEW version, NEW access,
         CompleteCommit(Slot(r), operation, version, access)
  PROVE  DeckInv'
<1>1. PICK q, p, l : q = request[r] /\ p = Slot(r) /\ l = ledger[p]
  OBVIOUS
<1>2. q.kind # "idle" /\ p \in Publications
  BY <1>1, Acting
<1>3. QuietStep
  BY <1>1, <1>2, Typed, QuietActions DEF QuietAction
<1>4. row[p].state = "uploaded" /\ \A o \in Publications \ {p} : row'[o] = row[o]
  BY <1>1, Typed DEF CompleteCommit, Update
<1>5. PICK a \in 1..accessVersion : Based(p, a)
  BY <1>1, <1>2, Acting
<1>6. SlotAt(q, p, a, l)
  BY <1>1, <1>2, <1>5, Acting
<1>7. manifest.documents[p] # "absent"
  BY <1>1, <1>4, <1>6 DEF SlotAt, Did, Inflight
<1>8. \A o \in Publications : row'[o].state = "committed" =>
        row[o].state = "committed" \/ manifest.documents[o] # "absent"
  BY <1>4, <1>7
<1>9. Idle.kind = "idle"
  BY DEF Idle
<1> QED
  BY <1>3, <1>8, <1>9, QuietKeepsDeck DEF Finish, Become, storeVars

\* A receipt of an activation: the database catches up with the manifest.
LEMMA ActivationShownDeck ==
  ASSUME WorkerInv, DeckInv, NEW p \in Publications, NEW operation, NEW version,
         NEW access, CompleteActivation(p, operation, version, access),
         manifest.exists, manifest.access = accessVersion + 1, Visible(p),
         manifest' = manifest
  PROVE  DeckShown' /\ EntriesSound' /\ ListedOnce'
<1>0. accessVersion \in Nat \ {0} /\ RecordsTypeOK
  BY DeckTypes, Typed
<1>1. /\ accessVersion' = accessVersion + 1 /\ row[p].state = "committed"
      /\ row'[p].state = "active"
      /\ \A q \in Publications \ {p} :
           row'[q].state = IF row[q].state = "active" /\ DocumentOf[q] = DocumentOf[p]
                           THEN "retired" ELSE row[q].state
  BY <1>0, ActivationEffect
<1>2. Ahead(p)
  <2>1. ~Served
    BY <1>0 DEF Served
  <2>2. PICK w \in Publications : Ahead(w)
    BY <2>1 DEF DeckInv, DeckShown
  <2>3. p = w
    BY <1>1, <2>2 DEF Ahead
  <2> QED
    BY <2>2, <2>3
<1>3. \A q \in Publications : Visible(q) <=> row'[q].state = "active"
  BY <1>1, <1>2 DEF Ahead, SameDocument
<1>4. DeckShown'
  BY <1>1, <1>3 DEF DeckShown, Served, Visible
<1>5. EntriesSound'
  <2> SUFFICES ASSUME NEW q \in Publications
               PROVE  /\ row'[q].state \in {"active", "committed"} =>
                           manifest.documents[q] # "absent"
                      /\ manifest.documents[q] = "retired" => row'[q].state \in Published
    BY DEF EntriesSound
  <2>1. /\ row[q].state \in {"active", "committed"} => manifest.documents[q] # "absent"
        /\ manifest.documents[q] = "retired" => row[q].state \in Published
    BY DEF DeckInv, EntriesSound
  <2> QED
    BY <1>1, <1>3, <2>1 DEF Visible, Published
<1>6. ListedOnce'
  BY DEF DeckInv, ListedOnce, HashCollision
<1> QED
  BY <1>4, <1>5, <1>6

LEMMA ActivationRow ==
  ASSUME WorkerInv, OneInflight, NEW p \in Publications, NEW operation, NEW version,
         NEW access, CompleteActivation(p, operation, version, access),
         NEW o \in Publications, NEW a \in 1..accessVersion, RowAt(row[o], a)
  PROVE  /\ RowAt(row[o], a)' /\ row'[o].state \notin Inflight
         /\ row'[o].state \in Early => row[o].state \in Early
         /\ row[o].state \in Discarded => row'[o].state \in Discarded
         /\ row'[o].targetAccess = row[o].targetAccess
         /\ row'[o].committedAccess = row[o].committedAccess
         /\ accessVersion' = accessVersion + 1
<1>0. accessVersion \in Nat \ {0} /\ RecordsTypeOK
  BY DeckTypes, Typed
<1>1. PICK x, y : x = row[o] /\ y = row'[o]
  OBVIOUS
<1>2. /\ accessVersion' = accessVersion + 1 /\ row[p].state = "committed"
      /\ row'[p].state = "active" /\ row[p].targetAccess = accessVersion + 1
      /\ y.committedAccess = x.committedAccess /\ y.targetAccess = x.targetAccess
      /\ o # p => /\ y.state = x.state \/ (x.state = "active" /\ y.state = "retired")
                  /\ x.state # "active" => y = x
  BY <1>0, <1>1, ActivationEffect
<1>3. y.state \notin Inflight
  <2>1. CASE o = p
    BY <1>1, <1>2, <2>1, StatesListed
  <2>2. CASE o # p
    <3>1. x.state \notin Inflight
      BY <1>1, <1>2, <2>2 DEF OneInflight, Inflight
    <3> QED
      BY <1>2, <2>2, <3>1, StatesListed
  <2> QED
    BY <2>1, <2>2
<1>4. /\ y.state \in Early => x.state \in Early
      /\ x.state \in Discarded => y.state \in Discarded
      /\ y.state \in Unreserved => x.state = y.state
  BY <1>1, <1>2, StatesListed DEF Early, Unreserved
<1>5. y.state \in Published => y.targetAccess # 0 /\ y.targetAccess <= accessVersion + 1
  <2>1. CASE o = p
    BY <1>0, <1>1, <1>2, <2>1
  <2>2. CASE o # p
    <3>1. y.state \in Published => x.state \in Published
      BY <1>2, <2>2 DEF Published
    <3>2. x.targetAccess \in Nat
      BY <1>0, <1>1 DEF RecordsTypeOK, Row
    <3> QED
      BY <1>0, <1>1, <1>2, <3>1, <3>2 DEF RowAt
  <2> QED
    BY <2>1, <2>2
<1>6. /\ y.committedAccess \in {0, a} /\ y.targetAccess \in {0, a + 1}
      /\ y.targetAccess # 0 => y.committedAccess # 0
      /\ y.state \in Unreserved => y.committedAccess = 0
  BY <1>1, <1>2, <1>4 DEF RowAt
<1>7. y.state # "committed"
  BY <1>3 DEF Inflight
<1>8. RowAt(y, a)'
  BY <1>2, <1>3, <1>5, <1>6, <1>7 DEF RowAt
<1> QED
  BY <1>1, <1>2, <1>3, <1>4, <1>8

\* After it, nobody's base is the access version any more.
LEMMA ActivationSlot ==
  ASSUME WorkerInv, OneInflight, NEW p \in Publications, NEW operation, NEW version,
         NEW access, CompleteActivation(p, operation, version, access),
         manifest' = manifest,
         NEW o \in Publications, NEW a \in 1..accessVersion, RowAt(row[o], a)
  PROVE  /\ \A l : Told(l, o, a) => Told(l, o, a)'
         /\ \A q, l : SlotAt(q, o, a, l) => SlotAt(q, o, a, l)'
<1>0. accessVersion \in Nat \ {0} /\ a \in Nat /\ a # accessVersion + 1
      /\ accessVersion + 1 # 0
  BY DeckTypes
<1>1. /\ row'[o].state \notin Inflight
      /\ row'[o].state \in Early => row[o].state \in Early
      /\ row[o].state \in Discarded => row'[o].state \in Discarded
      /\ row'[o].targetAccess = row[o].targetAccess
      /\ row'[o].committedAccess = row[o].committedAccess
      /\ accessVersion' = accessVersion + 1
  BY ActivationRow
<1>2. ASSUME NEW l, Told(l, o, a)
      PROVE  Told(l, o, a)'
  BY <1>0, <1>1, <1>2 DEF Told
<1>3. ASSUME NEW q, NEW l, SlotAt(q, o, a, l)
      PROVE  SlotAt(q, o, a, l)'
  <2>1. Told(q.seen, o, a)'
    <3>1. PICK k : k = q.seen
      OBVIOUS
    <3> QED
      BY <1>2, <1>3, <3>1 DEF SlotAt
  <2>2. Named(q, row[o], a)'
    <3>1. Named(q, row[o], a)
      BY <1>3 DEF SlotAt
    <3>2. 1..accessVersion \subseteq 1..(accessVersion + 1)
      BY <1>0
    <3> QED
      BY <1>1, <3>1, <3>2 DEF Named
  <2>3. Remembers(q, o, a)'
    BY <1>0, <1>1, <1>3 DEF SlotAt, Remembers
  <2>4. Sees(q, o)' /\ Holds(q, l)'
    BY <1>3, SeesStill DEF SlotAt, Holds
  <2>5. Did(q, row[o], o)'
    BY <1>1 DEF Did, Inflight
  <2> QED
    BY <2>1, <2>2, <2>3, <2>4, <2>5 DEF SlotAt
<1> QED
  BY <1>2, <1>3

LEMMA ActivationReceiptDeck ==
  ASSUME WorkerInv, FenceInv, DeckInv, NEW r \in Slots,
         request[r].kind = "activate", request[r].pc = "done", Finish(r),
         NEW operation, NEW version, NEW access,
         CompleteActivation(Slot(r), operation, version, access)
  PROVE  DeckInv'
<1>1. PICK q, p, l : q = request[r] /\ p = Slot(r) /\ l = ledger[p]
  OBVIOUS
<1>2. q.kind # "idle" /\ p \in Publications /\ accessVersion \in Nat \ {0}
  BY <1>1, Acting
<1>3. OneInflight /\ CompleteActivation(p, operation, version, access)
  BY <1>1 DEF FenceInv
<1>4. /\ ledger' = ledger /\ manifest' = manifest
      /\ request' = [request EXCEPT ![r] = Idle] /\ Idle.kind = "idle"
      /\ request \in [Slots -> Request]
  BY DeckTypes DEF Finish, Become, storeVars, Idle
<1>5. row[p].state = "committed" /\ accessVersion' = accessVersion + 1
  BY <1>2, <1>3, Typed, ActivationEffect
<1>6. manifest.exists /\ manifest.access = accessVersion + 1 /\ Visible(p)
  <2>1. PICK a \in 1..accessVersion : Based(p, a)
    BY <1>1, <1>2, Acting
  <2>2. SlotAt(q, p, a, l)
    BY <1>1, <1>2, <2>1, Acting
  <2> QED
    BY <1>1, <1>5, <2>2 DEF SlotAt, Did
<1>7. DeckShown' /\ EntriesSound' /\ ListedOnce'
  BY <1>2, <1>3, <1>4, <1>6, ActivationShownDeck
<1>8. ASSUME NEW o \in Publications, NEW a \in 1..accessVersion, Based(o, a)
      PROVE  Based(o, a)'
  <2>1. PICK k : k = ledger[o]
    OBVIOUS
  <2>2. /\ RowAt(row[o], a) /\ LedgerAt(k, o, a)
        /\ \A s \in Slots : request[s].kind # "idle" /\ request[s].publication = o =>
             SlotAt(request[s], o, a, k)
    BY <1>8, <2>1 DEF Based
  <2>3. RowAt(row[o], a)'
    BY <1>2, <1>3, <2>2, ActivationRow
  <2>4. LedgerAt(k, o, a)'
    BY <1>2, <1>3, <1>4, <2>2, ActivationSlot DEF LedgerAt
  <2>5. ASSUME NEW s \in Slots, NEW n, n = request'[s], n.kind # "idle",
               n.publication = o
        PROVE  SlotAt(n, o, a, k)'
    <3>1. n = request[s]
      BY <1>4, <2>5
    <3>2. SlotAt(n, o, a, k)
      BY <2>2, <2>5, <3>1
    <3> QED
      BY <1>2, <1>3, <1>4, <2>2, <3>2, ActivationSlot
  <2> QED
    BY <1>4, <2>1, <2>3, <2>4, <2>5 DEF Based
<1>9. 1..accessVersion \subseteq 1..accessVersion'
  BY <1>2, <1>5
<1> QED
  BY <1>7, <1>8, <1>9 DEF DeckInv

LEMMA UseReceiptDeck ==
  ASSUME WorkerInv, FenceInv, DeckInv, RecordsTypeOK', NEW r \in Slots, UseReceipt(r)
  PROVE  DeckInv'
<1>1. request[r].pc = "done" /\ Finish(r)
  BY DEF UseReceipt
<1>2. \/ /\ request[r].kind = "commit"
         /\ CompleteCommit(Slot(r), request[r].operation, request[r].version,
                           request[r].previousAccess)
      \/ /\ request[r].kind = "activate"
         /\ CompleteActivation(Slot(r), request[r].operation, request[r].version,
                               request[r].targetAccess)
      \/ UNCHANGED dbVars
  BY Zenon DEF UseReceipt, Slot
<1>3. PICK x, y, z, t : /\ x = request[r].operation /\ y = request[r].version
                        /\ z = request[r].previousAccess /\ t = request[r].targetAccess
  OBVIOUS
<1>4. \/ request[r].kind = "commit" /\ CompleteCommit(Slot(r), x, y, z)
      \/ request[r].kind = "activate" /\ CompleteActivation(Slot(r), x, y, t)
      \/ UNCHANGED dbVars
  BY <1>2, <1>3
<1> QED
  BY <1>1, <1>4, CommitReceiptDeck, ActivationReceiptDeck, FinishDeck

-----------------------------------------------------------------------------
(* Steps no invocation takes.                                                *)

\* A publication that is created gets the access version of now as its base.
LEMMA CreateDeck ==
  ASSUME WorkerInv, DeckInv, NEW p \in Publications, Create(p),
         UNCHANGED <<storeVars, request>>
  PROVE  DeckInv'
<1>0. /\ ledger' = ledger /\ manifest' = manifest /\ request' = request
      /\ accessVersion \in Nat \ {0} /\ RecordsTypeOK
  BY DeckTypes, Typed DEF storeVars
<1>1. /\ accessVersion' = accessVersion /\ row[p].state = "none"
      /\ row'[p].state = "pending" /\ row'[p].targetAccess = row[p].targetAccess
      /\ row'[p].committedAccess = row[p].committedAccess
      /\ \A q \in Publications \ {p} : row'[q] = row[q]
  BY <1>0, CreateEffect
<1>2. \A q \in Publications : row'[q].state = "active" <=> row[q].state = "active"
  BY <1>1
<1>3. ASSUME NEW o
      PROVE  Before(o)' = Before(o)
  BY <1>2 DEF Before, SameDocument
<1>4. DeckShown'
  <2>1. Served => Served'
    BY <1>0, <1>1, <1>2 DEF Served, Visible
  <2>2. ASSUME NEW w \in Publications, Ahead(w)
        PROVE  Ahead(w)'
    <3>1. row'[w] = row[w]
      BY <1>1, <2>2, StatesListed DEF Ahead
    <3> QED
      BY <1>0, <1>1, <1>2, <2>2, <3>1 DEF Ahead, Visible, SameDocument
  <2> QED
    BY <1>0, <1>1, <2>1, <2>2 DEF DeckInv, DeckShown
<1>5. EntriesSound'
  <2> SUFFICES ASSUME NEW q \in Publications
               PROVE  /\ row'[q].state \in {"active", "committed"} =>
                           manifest.documents[q] # "absent"
                      /\ manifest.documents[q] = "retired" => row'[q].state \in Published
    BY <1>0 DEF EntriesSound
  <2>1. /\ row[q].state \in {"active", "committed"} => manifest.documents[q] # "absent"
        /\ manifest.documents[q] = "retired" => row[q].state \in Published
    BY DEF DeckInv, EntriesSound
  <2> QED
    BY <1>1, <2>1 DEF Published
<1>6. ListedOnce'
  BY <1>0 DEF DeckInv, ListedOnce, HashCollision
<1>7. ASSUME NEW o \in Publications \ {p}, NEW a \in 1..accessVersion, Based(o, a)
      PROVE  Based(o, a)'
  <2>1. row'[o] = row[o] /\ a \in Nat
    BY <1>0, <1>1
  <2>2. RowAt(row[o], a)'
    BY <1>1, <1>7, <2>1 DEF Based, RowAt
  <2>3. ASSUME NEW l, Told(l, o, a)
        PROVE  Told(l, o, a)'
    BY <1>1, <1>3, <2>1, <2>3 DEF Told
  <2>4. LedgerAt(ledger[o], o, a)'
    <3>1. PICK l : l = ledger[o]
      OBVIOUS
    <3> QED
      BY <1>0, <1>7, <2>3, <3>1 DEF Based, LedgerAt
  <2>5. ASSUME NEW s \in Slots, request[s].kind # "idle", request[s].publication = o
        PROVE  SlotAt(request[s], o, a, ledger[o])'
    <3>1. PICK q, l : q = request[s] /\ l = ledger[o]
      OBVIOUS
    <3>2. SlotAt(q, o, a, l)
      BY <1>7, <2>5, <3>1 DEF Based
    <3>3. Told(q.seen, o, a)'
      <4>1. PICK k : k = q.seen
        OBVIOUS
      <4> QED
        BY <2>3, <3>2, <4>1 DEF SlotAt
    <3>4. Named(q, row[o], a)' /\ Remembers(q, o, a)' /\ Holds(q, l)'
      BY <1>1, <1>3, <2>1, <3>2 DEF SlotAt, Named, Remembers, Holds
    <3>5. Sees(q, o)'
      BY <1>0, <3>2, SeesStill DEF SlotAt
    <3>6. Did(q, row[o], o)'
      BY <1>0, <1>1, <2>1, <3>2 DEF SlotAt, Did, Visible
    <3> QED
      BY <1>0, <3>1, <3>3, <3>4, <3>5, <3>6 DEF SlotAt
  <2> QED
    BY <1>0, <2>2, <2>4, <2>5 DEF Based
<1>8. Based(p, accessVersion)'
  <2>0. PICK a \in 1..accessVersion : Based(p, a)
    BY DEF DeckInv
  <2>1. RowAt(row[p], a) /\ LedgerAt(ledger[p], p, a)
    BY <2>0 DEF Based
  <2>2. row[p].committedAccess = 0 /\ row[p].targetAccess = 0
    BY <1>1, <2>1 DEF RowAt, Unreserved
  <2>3. row[p].state \in Early /\ row[p].state \notin Discarded
    BY <1>1 DEF Early, Discarded
  <2>4. RowAt(row[p], accessVersion)'
    BY <1>1, <2>2 DEF RowAt, Published
  <2>5. \A l : Told(l, p, a) => l.previousAccess = 0
    BY <2>3 DEF Told
  <2>6. \A l : l.previousAccess = 0 => Told(l, p, accessVersion)'
    BY <1>0, <1>1 DEF Told
  <2>7. LedgerAt(ledger[p], p, accessVersion)'
    <3>1. PICK l : l = ledger[p]
      OBVIOUS
    <3> QED
      BY <1>0, <2>1, <2>5, <2>6, <3>1 DEF LedgerAt
  <2>8. ASSUME NEW s \in Slots, request[s].kind # "idle", request[s].publication = p
        PROVE  SlotAt(request[s], p, accessVersion, ledger[p])'
    <3>1. PICK q, l : q = request[s] /\ l = ledger[p]
      OBVIOUS
    <3>2. SlotAt(q, p, a, l)
      BY <2>0, <2>8, <3>1 DEF Based
    <3>3. Told(q.seen, p, accessVersion)'
      <4>1. PICK k : k = q.seen
        OBVIOUS
      <4> QED
        BY <2>5, <2>6, <3>2, <4>1 DEF SlotAt
    <3>4. /\ q.kind \notin {"commit", "activate", "rollback"}
          /\ q.kind = "abort" => q.previousAccess = 0
          /\ q.kind = "cleanup" =>
               q.databaseAccess \in 1..accessVersion
               /\ q.pc \notin {"rollback", "restore", "mark"}
      <4>1. a + 1 # 0
        BY <1>0
      <4> QED
        BY <2>2, <2>3, <3>2, <4>1 DEF SlotAt, Named
    <3>5. Named(q, row[p], accessVersion)'
      BY <1>1, <3>4 DEF Named
    <3>6. Remembers(q, p, accessVersion)' /\ Did(q, row[p], p)' /\ Holds(q, l)'
      BY <3>4 DEF Remembers, Did, Holds
    <3>7. Sees(q, p)'
      BY <1>0, <3>2, SeesStill DEF SlotAt
    <3> QED
      BY <1>0, <3>1, <3>3, <3>5, <3>6, <3>7 DEF SlotAt
  <2> QED
    BY <1>0, <2>4, <2>7, <2>8 DEF Based
<1>9. accessVersion \in 1..accessVersion
  BY <1>0
<1>10. ASSUME NEW o \in Publications
       PROVE  \E b \in 1..accessVersion' : Based(o, b)'
  <2>1. CASE o = p
    BY <1>1, <1>8, <1>9, <2>1
  <2>2. CASE o # p
    <3>1. PICK a \in 1..accessVersion : Based(o, a)
      BY DEF DeckInv
    <3> QED
      BY <1>1, <1>7, <2>2, <3>1
  <2> QED
    BY <2>1, <2>2
<1> QED
  BY <1>4, <1>5, <1>6, <1>10 DEF DeckInv

LEMMA RecordStepDeck ==
  ASSUME WorkerInv, DeckInv, RecordsTypeOK', NEW p \in Publications, RecordStep(p),
         UNCHANGED <<storeVars, request>>
  PROVE  DeckInv'
<1>1. Create(p) \/ UncommittingAction
  BY DEF RecordStep, UncommittingAction
<1> QED
  BY <1>1, CreateDeck, QuietAloneDeck

\* That ten minutes have passed changes nothing a ledger tells.
LEMMA QuiescenceDeck ==
  ASSUME WorkerInv, DeckInv, NEW p \in Publications, QuiescencePasses(p)
  PROVE  DeckInv'
<1>0. /\ accessVersion' = accessVersion /\ row' = row /\ manifest' = manifest
      /\ request' = request /\ ledger \in [Publications -> Ledger]
      /\ ledger' = [ledger EXCEPT ![p].settled = TRUE]
  BY DeckTypes DEF QuiescencePasses, dbVars
<1>1. ASSUME NEW o \in Publications
      PROVE  /\ ledger'[o].status = ledger[o].status
             /\ ledger'[o].version = ledger[o].version
             /\ ledger'[o].previousAccess = ledger[o].previousAccess
             /\ ledger'[o].prior = ledger[o].prior
  <2>1. ledger[o] \in Ledger /\ ledger[p] \in Ledger
    BY <1>0
  <2>2. PICK m : m = [ledger[p] EXCEPT !.settled = TRUE]
    OBVIOUS
  <2>3. /\ m.status = ledger[p].status /\ m.version = ledger[p].version
        /\ m.previousAccess = ledger[p].previousAccess /\ m.prior = ledger[p].prior
    BY <2>1, <2>2 DEF Ledger
  <2>4. ledger'[o] = IF o = p THEN m ELSE ledger[o]
    BY <1>0, <2>2
  <2> QED
    BY <2>3, <2>4
<1>2. ASSUME NEW o
      PROVE  Before(o)' = Before(o)
  BY <1>0 DEF Before, SameDocument
<1>3. DeckShown' /\ EntriesSound' /\ ListedOnce'
  <2>1. Served' <=> Served
    BY <1>0 DEF Served, Visible
  <2>2. \A w : Ahead(w)' <=> Ahead(w)
    BY <1>0 DEF Ahead, Visible, SameDocument
  <2>3. DeckShown'
    BY <1>0, <2>1, <2>2 DEF DeckInv, DeckShown
  <2>4. EntriesSound' /\ ListedOnce'
    BY <1>0 DEF DeckInv, EntriesSound, ListedOnce, HashCollision
  <2> QED
    BY <2>3, <2>4
<1>4. ASSUME NEW o \in Publications, NEW a \in 1..accessVersion, Based(o, a)
      PROVE  Based(o, a)'
  <2>1. PICK l, m : l = ledger[o] /\ m = ledger'[o]
    OBVIOUS
  <2>2. /\ m.status = l.status /\ m.version = l.version
        /\ m.previousAccess = l.previousAccess /\ m.prior = l.prior
    BY <1>1, <2>1
  <2>3. RowAt(row[o], a)'
    BY <1>0, <1>4 DEF Based, RowAt
  <2>4. LedgerAt(l, o, a)
    BY <1>4, <2>1 DEF Based
  <2>5. LedgerAt(m, o, a)'
    BY <1>0, <1>2, <2>2, <2>4 DEF LedgerAt, Told
  <2>6. ASSUME NEW s \in Slots, request[s].kind # "idle", request[s].publication = o
        PROVE  SlotAt(request[s], o, a, m)'
    <3>1. PICK q : q = request[s]
      OBVIOUS
    <3>2. SlotAt(q, o, a, l)
      BY <1>4, <2>1, <2>6, <3>1 DEF Based
    <3>3. Told(q.seen, o, a)' /\ Named(q, row[o], a)' /\ Remembers(q, o, a)'
      BY <1>0, <1>2, <3>2 DEF SlotAt, Told, Named, Remembers
    <3>4. Did(q, row[o], o)'
      BY <1>0, <3>2 DEF SlotAt, Did, Visible
    <3>5. Sees(q, o)'
      BY <1>0, <3>2, SeesStill DEF SlotAt
    <3>6. Holds(q, m)'
      BY <2>2, <3>2 DEF SlotAt, Holds
    <3> QED
      BY <1>0, <3>1, <3>3, <3>4, <3>5, <3>6 DEF SlotAt
  <2> QED
    BY <1>0, <2>1, <2>3, <2>5, <2>6 DEF Based
<1> QED
  BY <1>0, <1>3, <1>4 DEF DeckInv

-----------------------------------------------------------------------------
(* The whole system.                                                         *)

LEMMA DeckInit == Init => DeckInv
<1> SUFFICES ASSUME Init PROVE DeckInv
  OBVIOUS
<1>1. /\ accessVersion = 1 /\ ~manifest.exists
      /\ \A p \in Publications :
           /\ row[p] = NoRow /\ ledger[p] = NoLedger /\ manifest.documents[p] = "absent"
      /\ \A s \in Slots : request[s] = Idle
  BY DEF Init, DBInit, StoreInit, Slots
<1>2. /\ NoRow.state = "none" /\ NoRow.committedAccess = 0 /\ NoRow.targetAccess = 0
      /\ NoLedger.previousAccess = 0 /\ NoLedger.version = 0
      /\ NoLedger.status = "absent" /\ Idle.kind = "idle"
  BY DEF NoRow, NoLedger, Idle
<1>3. DeckShown /\ ListedOnce
  BY <1>1 DEF DeckShown, ListedOnce
<1>4. EntriesSound
  BY <1>1, <1>2 DEF EntriesSound
<1>5. ASSUME NEW p \in Publications
      PROVE  Based(p, 1)
  <2>1. RowAt(row[p], 1)
    BY <1>1, <1>2, StatesListed DEF RowAt
  <2>2. LedgerAt(ledger[p], p, 1)
    BY <1>1, <1>2 DEF LedgerAt, Told, Activatable
  <2> QED
    BY <1>1, <1>2, <2>1, <2>2 DEF Based
<1>6. 1 \in 1..accessVersion
  BY <1>1
<1> QED
  BY <1>3, <1>4, <1>5, <1>6 DEF DeckInv

\* Every step of the system keeps the manifest and the database together.
LEMMA DeckStep ==
  ASSUME SystemInv, [Next]_vars
  PROVE  DeckInv'
<1>0. WorkerInv /\ FenceInv /\ DeckInv
  BY DEF SystemInv
<1>1. RecordsTypeOK'
  BY <1>0, WorkerStep DEF Kept, WorkerInv, TypeOK
<1>2. ASSUME NEW r \in Requests, RequestStep(r) \/ \E p \in Publications : Arrival(r, p)
      PROVE  DeckInv'
  <2>1. r \in Slots
    BY DEF Slots
  <2> QED
    BY <1>0, <1>1, <1>2, <2>1, UploadStepDeck, ManifestStepDeck, UseReceiptDeck,
       AbortRowDeck, ArrivalDeck
       DEF RequestStep, EdgeStep
<1>3. ASSUME NEW c \in Cleaners, CleanupStep(c) \/ \E p \in Publications : CleanupClaim(c, p)
      PROVE  DeckInv'
  <2>1. c \in Slots
    BY DEF Slots
  <2> QED
    BY <1>0, <1>1, <1>3, <2>1, CleanupStepDeck, CleanupClaimDeck
<1>4. ASSUME NEW p \in Publications, RecordStep(p),
             UNCHANGED <<storeVars, request, crashes>>
      PROVE  DeckInv'
  BY <1>0, <1>1, <1>4, RecordStepDeck
<1>5. ASSUME NEW p \in Publications, QuiescencePasses(p)
      PROVE  DeckInv'
  BY <1>0, <1>5, QuiescenceDeck
<1>6. CASE CloseLecture /\ UNCHANGED <<storeVars, request, crashes>>
  BY <1>0, <1>1, <1>6, QuietAloneDeck DEF UncommittingAction
<1>7. ASSUME NEW r \in Slots, Crash(r)
      PROVE  DeckInv'
  BY <1>0, <1>7, FinishDeck DEF Crash
<1>8. CASE UNCHANGED vars
  BY <1>0, <1>1, <1>8, QuietAloneDeck DEF vars
<1> QED
  BY <1>2, <1>3, <1>4, <1>5, <1>6, <1>7, <1>8 DEF Next, Slots

\* The inductive invariant of the whole system.
THEOREM SystemHeld == Spec => []SystemInv
<1>1. Init => SystemInv
  BY WorkerInit, FenceInit, DeckInit DEF SystemInv, Init
<1>2. SystemInv /\ [Next]_vars => SystemInv'
  BY WorkerStep, RecordsStep, FenceStep, DeckStep DEF SystemInv, Kept
<1> QED
  BY <1>1, <1>2, PTL DEF Spec

\* ManifestAgrees: the manifest lists what the database has committed and is at most
\* one reserved activation ahead of it.
THEOREM ManifestAgreesHeld == Spec => []ManifestAgrees
<1>1. SystemInv => ManifestAgrees
  <2> SUFFICES ASSUME SystemInv PROVE ManifestAgrees
    OBVIOUS
  <2>0. WorkerInv /\ DeckInv
    BY DEF SystemInv
  <2>1. TypeOK
    BY <2>0 DEF WorkerInv
  <2>2. CommittedListed
    <3> SUFFICES ASSUME NEW p \in Publications, row[p].state = "committed"
                 PROVE  manifest.documents[p] \in {"staged", "visible"}
      BY DEF CommittedListed
    <3>1. row[p].state \notin Published
      BY StatesListed
    <3> QED
      BY <2>0, <3>1, EntriesStand
  <2>3. AccessInStep
    BY <2>0 DEF DeckInv, DeckShown, Served, Ahead, AccessInStep
  <2> QED
    BY <2>1, <2>2, <2>3 DEF ManifestAgrees
<1> QED
  BY <1>1, SystemHeld, PTL

\* With the invariant, who is let in sees the published deck.
LEMMA SystemShows == SystemInv => DeckSound
<1> SUFFICES ASSUME SystemInv PROVE DeckSound
  OBVIOUS
<1>0. WorkerInv /\ DeckInv /\ accessVersion \in Nat \ {0}
  BY DeckTypes DEF SystemInv
<1>1. ServedDeck
  <2> SUFFICES ASSUME manifest.exists, manifest.access = accessVersion
               PROVE  \A p \in Publications : row[p].state = "active" <=> Visible(p)
    BY DEF ServedDeck
  <2>1. \A w : ~Ahead(w)
    BY <1>0 DEF Ahead
  <2>2. Served
    BY <1>0, <2>1 DEF DeckInv, DeckShown
  <2> QED
    BY <2>2 DEF Served
<1>2. ShownStored
  <2> SUFFICES ASSUME NEW p \in Publications, Visible(p), row[p].state \notin Discarded
               PROVE  object[p] = "pdf"
    BY DEF ShownStored
  <2>1. manifest.exists
    BY <1>0, DeckStands
  <2>2. row[p].state \in Recorded
    BY <1>0, <2>1 DEF DeckInv, DeckShown, Served, Ahead, Recorded
  <2> QED
    BY <1>0, <2>2 DEF WorkerInv, LedgersSound, LedgerSound
<1> QED
  BY <1>1, <1>2 DEF DeckSound

\* DeckSound: who is let in sees exactly what the database has active, and the bytes
\* of what is shown are there.
THEOREM DeckHeld == Spec => []DeckSound
BY SystemHeld, SystemShows, PTL

-----------------------------------------------------------------------------
(* What students see implements StudentDeck.                                 *)

\* The deck shows a version that is alone with its document.
LEMMA DeckShows ==
  ASSUME NEW chosen \in SUBSET Publications, NEW p \in chosen,
         \A q \in chosen : DocumentOf[q] = DocumentOf[p] => q = p
  PROVE  DeckOf(chosen)[DocumentOf[p]] = VersionOf[p]
<1>1. DocumentOf[p] \in DocumentsOf
  BY DEF DocumentsOf
<1>2. (CHOOSE q \in chosen : DocumentOf[q] = DocumentOf[p]) = p
  OBVIOUS
<1> QED
  BY <1>1, <1>2 DEF DeckOf

\* It shows nothing of a document without one.
LEMMA DeckBlank ==
  ASSUME NEW chosen, NEW d \in DocumentsOf, \A q \in chosen : DocumentOf[q] # d
  PROVE  DeckOf(chosen)[d] = NoPublication
BY DEF DeckOf

\* A document has one active version at most.
LEMMA ActiveAlone ==
  ASSUME NewestIsActive, NEW p \in Publications, NEW q \in Publications,
         row[p].state = "active", row[q].state = "active",
         DocumentOf[q] = DocumentOf[p]
  PROVE  q = p
BY StatesListed DEF NewestIsActive

\* Students have the published deck or nothing.
ViewSound == StudentView \in {PublishedDeck, NoPublication}

LEMMA ViewServed == SystemInv => ViewSound
<1> SUFFICES ASSUME SystemInv, manifest.exists, manifest.access = accessVersion
             PROVE  StudentView = PublishedDeck
  BY DEF StudentView, ViewSound
<1>1. ServedDeck
  BY SystemShows DEF DeckSound
<1>2. {p \in Publications : Visible(p)} = {p \in Publications : row[p].state = "active"}
  BY <1>1 DEF ServedDeck
<1> QED
  BY <1>2 DEF StudentView, PublishedDeck

\* An activation replaces one document of the deck by a version it did not show.
LEMMA ActivationPublishes ==
  ASSUME RecordsTypeOK, NewestIsActive, NewestIsActive', NEW p \in Publications,
         NEW operation, NEW version, NEW access,
         CompleteActivation(p, operation, version, access)
  PROVE  /\ PublishedDeck[DocumentOf[p]] # VersionOf[p]
         /\ PublishedDeck' = [PublishedDeck EXCEPT ![DocumentOf[p]] = VersionOf[p]]
<1>1. PICK old, new : /\ old = {q \in Publications : row[q].state = "active"}
                      /\ new = {q \in Publications : row'[q].state = "active"}
  OBVIOUS
<1>2. /\ PublishedDeck = DeckOf(old) /\ PublishedDeck' = DeckOf(new)
      /\ old \in SUBSET Publications /\ new \in SUBSET Publications
  BY <1>1 DEF PublishedDeck, DeckOf, DocumentsOf
<1>3. /\ p \notin old /\ p \in new
      /\ \A q \in Publications \ {p} :
           q \in new <=> q \in old /\ DocumentOf[q] # DocumentOf[p]
  BY <1>1, ActivationEffect
<1>4. \A q, o \in old : DocumentOf[o] = DocumentOf[q] => o = q
  BY <1>1, ActiveAlone
<1>5. \A q, o \in new : DocumentOf[o] = DocumentOf[q] => o = q
  <2> SUFFICES ASSUME NEW q \in new, NEW o \in new, DocumentOf[o] = DocumentOf[q]
               PROVE  o = q
    OBVIOUS
  <2>1. CASE q = p \/ o = p
    BY <1>2, <1>3, <2>1
  <2>2. CASE q # p /\ o # p
    BY <1>2, <1>3, <1>4, <2>2
  <2> QED
    BY <2>1, <2>2
<1>6. DocumentOf[p] \in DocumentsOf
  BY DEF DocumentsOf
<1>7. DeckOf(old)[DocumentOf[p]] # VersionOf[p]
  <2>1. ASSUME NEW q \in old, DocumentOf[q] = DocumentOf[p]
        PROVE  DeckOf(old)[DocumentOf[p]] # VersionOf[p]
    <3>1. DeckOf(old)[DocumentOf[q]] = VersionOf[q]
      BY <1>2, <1>4, DeckShows
    <3>2. q \in Publications \ {p} /\ row[q].state = "active"
      BY <1>1, <1>3
    <3>3. ~VersionTaken(p)
      BY Zenon DEF CompleteActivation, ActivationDue
    <3>4. VersionOf[q] # VersionOf[p]
      BY <2>1, <3>2, <3>3, StatesListed DEF VersionTaken
    <3> QED
      BY <2>1, <3>1, <3>4
  <2>2. CASE \A q \in old : DocumentOf[q] # DocumentOf[p]
    BY <1>6, <2>2, DeckBlank, VersionIds
  <2> QED
    BY <2>1, <2>2
<1>8. ASSUME NEW d \in DocumentsOf
      PROVE  DeckOf(new)[d] = IF d = DocumentOf[p] THEN VersionOf[p] ELSE DeckOf(old)[d]
  <2>1. CASE d = DocumentOf[p]
    BY <1>2, <1>3, <1>5, <2>1, DeckShows
  <2>2. ASSUME d # DocumentOf[p], NEW q \in old, DocumentOf[q] = d
        PROVE  DeckOf(new)[d] = DeckOf(old)[d]
    <3>1. q \in new
      BY <1>2, <1>3, <2>2
    <3>2. DeckOf(old)[DocumentOf[q]] = VersionOf[q]
      BY <1>2, <1>4, DeckShows
    <3>3. DeckOf(new)[DocumentOf[q]] = VersionOf[q]
      BY <1>2, <1>5, <3>1, DeckShows
    <3> QED
      BY <2>2, <3>2, <3>3
  <2>3. CASE d # DocumentOf[p] /\ \A q \in old : DocumentOf[q] # d
    <3>1. \A q \in new : DocumentOf[q] # d
      BY <1>2, <1>3, <2>3
    <3> QED
      BY <2>3, <3>1, DeckBlank
  <2> QED
    BY <2>1, <2>2, <2>3
<1>9. /\ DeckOf(old) = [d \in DocumentsOf |-> DeckOf(old)[d]]
      /\ DeckOf(new) = [d \in DocumentsOf |-> DeckOf(new)[d]]
  BY DEF DeckOf
<1>10. DeckOf(new) = [DeckOf(old) EXCEPT ![DocumentOf[p]] = VersionOf[p]]
  BY <1>6, <1>8, <1>9
<1> QED
  BY <1>2, <1>7, <1>10

\* Every other step of the database leaves the published deck alone.
LEMMA DeckUnchanged ==
  ASSUME \A p \in Publications : row'[p].state = "active" <=> row[p].state = "active"
  PROVE  PublishedDeck' = PublishedDeck
<1>1. {p \in Publications : row'[p].state = "active"}
        = {p \in Publications : row[p].state = "active"}
  OBVIOUS
<1> QED
  BY <1>1 DEF PublishedDeck, DeckOf, DocumentsOf

\* Every step is a publication of the deck, a change of what is served, or neither.
LEMMA StudentStep ==
  ASSUME RecordsTypeOK, NewestIsActive, NewestIsActive', [DBNext]_dbVars,
         ViewSound'
  PROVE  Deck!Next
<1>1. ASSUME NEW p \in Publications, NEW operation, NEW version, NEW access,
             CompleteActivation(p, operation, version, access)
      PROVE  Deck!Next
  <2>1. Deck!Publish(DocumentOf[p], VersionOf[p])
    BY <1>1, ActivationPublishes DEF ViewSound, Deck!Publish
  <2>2. DocumentOf[p] \in DocumentsOf /\ VersionOf[p] \in {VersionOf[q] : q \in Publications}
    BY DEF DocumentsOf
  <2> QED
    BY <2>1, <2>2 DEF Deck!Next
<1>2. ASSUME \A p \in Publications : row'[p].state = "active" <=> row[p].state = "active"
      PROVE  Deck!Next
  BY <1>2, DeckUnchanged DEF ViewSound, Deck!Next, Deck!Withhold, Deck!Serve
<1>3. ASSUME NEW p \in Publications, Create(p)
      PROVE  Deck!Next
  <2>1. \A q \in Publications : row'[q].state = "active" <=> row[q].state = "active"
    BY <1>3, CreateEffect
  <2> QED
    BY <1>2, <2>1
<1>4. CASE QuietStep
  <2>1. \A q \in Publications : row'[q].state = "active" <=> row[q].state = "active"
    BY <1>4, StatesListed DEF QuietStep, RowStep
  <2> QED
    BY <1>2, <2>1
<1> QED
  BY <1>1, <1>3, <1>4, StepEffects

\* ImplementsDeck: students have the published deck or nothing, and a publication
\* replaces one document for all of them at once.
THEOREM DeckImplemented == Spec => ImplementsDeck
<1>1. Init => Deck!Init
  <2> SUFFICES ASSUME Init PROVE Deck!Init
    OBVIOUS
  <2>1. /\ ~manifest.exists
        /\ \A p \in Publications : row[p].state # "active"
    BY DEF Init, DBInit, StoreInit, NoRow
  <2>2. PublishedDeck = [d \in DocumentsOf |-> NoPublication]
    BY <2>1 DEF PublishedDeck, DeckOf
  <2>3. StudentView = NoPublication
    BY <2>1 DEF StudentView
  <2> QED
    BY <2>2, <2>3 DEF Deck!Init, Deck!Decks
<1>2. SystemInv' => ViewSound'
  BY ViewServed, PTL
<1>3. SystemInv /\ NewestIsActive /\ SystemInv' /\ NewestIsActive' /\ [Next]_vars
        => [Deck!Next]_Deck!deckVars
  <2> SUFFICES ASSUME SystemInv, NewestIsActive, SystemInv', NewestIsActive', [Next]_vars
               PROVE  Deck!Next
    OBVIOUS
  <2>1. WorkerInv /\ RecordsTypeOK
    BY Typed DEF SystemInv
  <2>2. [DBNext]_dbVars
    BY <2>1, RecordsStep
  <2> QED
    BY <1>2, <2>1, <2>2, StudentStep
<1> QED
  BY <1>1, <1>3, SystemHeld, NewestComposed, PTL DEF Spec, ImplementsDeck, Deck!Spec

=============================================================================
