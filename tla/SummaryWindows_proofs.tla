------------------------- MODULE SummaryWindows_proofs -------------------------
(* Proofs about SummaryWindows for every number of windows, pages, runs, tokens  *)
(* and faults, and every set of invocations and sources.                          *)
EXTENDS SummaryWindows, FiniteSetTheorems, NaturalsInduction, WellFoundedInduction, TLAPS

-----------------------------------------------------------------------------
(* The inductive invariant.                                                  *)

WindowRows == [status : Final \cup {"none", "pending", "running", "failed"},
               attempts : 0..MaxAttempts, run : 0..MaxRuns,
               operation : Tickets \cup {NoTicket}]
OperationRows == [usage : {"none", "running", "succeeded", "failed", "cancelled"},
                  dispatch : {"none", "leased", "lapsed"},
                  settled : {"no", "released", "actual", "conservative"}]
ReceiptRows == [result : {"none", "prepared", "skipped", "final"},
                token : Tokens, sources : Sources,
                expected : 0..MaxAttempts, fresh : BOOLEAN]
Charges == {"released", "actual", "conservative"}
SlotRows == [pc : {"idle", "prepare", "start", "claim", "provider", "complete", "fail",
                   "answered"},
             ticket : Tickets \cup {NoTicket}, token : Tokens, sources : Sources,
             own : BOOLEAN, seen : SUBSET Windows,
             outcome : {"none", "error", "final", "done", "released", "actual",
                        "conservative"}]
Pages == [number : 1..MaxPages, token : Tokens, sources : Sources,
          processed : SUBSET Windows, waiting : Slots \cup {NoSlot}, tries : 0..2]

\* An operation that was not started is neither dispatched nor settled, and one that is
\* settled has ended.
LedgerSound ==
    \A t \in Tickets :
        /\ operation[t].usage = "none" =>
              operation[t].dispatch = "none" /\ operation[t].settled = "no"
        /\ operation[t].settled # "no" => operation[t].usage # "running"

Started(w) == {t \in Tickets : t[1] = w /\ operation[t].usage # "none"}

\* Every window names its own operation, and its attempts count the operations started for it.
WindowsSound ==
    /\ \A w \in Windows :
          /\ (window[w].status = "running") = (window[w].operation # NoTicket)
          /\ window[w].operation \in Tickets => window[w].operation[1] = w
          /\ Cardinality(Started(w)) <= window[w].attempts
          /\ window[w].status = "running" =>
                open /\ run.status = "running" /\ window[w].run = run.token.run
    /\ \A t \in Tickets :
          (operation[t].usage = "running") = (window[t[1]].operation = t)
    /\ \A t, u \in Tickets :
          operation[t].usage = "running" /\ operation[u].usage = "running" => t = u

\* What an invocation may rely on because of where it is.
SlotSound(s, ledger) ==
    /\ s.pc # "idle" => s.ticket \in Tickets
    /\ s.own \/ s.pc \in {"claim", "provider", "complete", "fail"} =>
          s.ticket \in Tickets /\ ledger[s.ticket].usage # "none"
    /\ s.pc \in {"provider", "complete"} => ledger[s.ticket].dispatch # "none"
    /\ s.pc = "fail" =>
          /\ s.outcome \in Charges \cup {"none"}
          /\ s.outcome # "none" => ledger[s.ticket].dispatch # "none"

\* The model was not paid for this start, and nobody is asking it.
Unbilled(t) ==
    /\ ~provider[t].billed
    /\ \A r \in Slots : slot[r].pc = "provider" => slot[r].ticket # t

MoneySound ==
    /\ \A t \in Tickets :
          /\ provider[t].asked <= 1
          /\ operation[t].dispatch = "none" => provider[t].asked = 0 /\ Unbilled(t)
          /\ operation[t].settled = "released" => Unbilled(t)
    /\ \A r \in Slots :
          /\ slot[r].pc = "provider" => ~provider[slot[r].ticket].billed
          /\ slot[r].pc = "fail" /\ slot[r].outcome = "released" => Unbilled(slot[r].ticket)
    /\ \A r, q \in Slots :
          slot[r].pc = "provider" /\ slot[q].pc = "provider" /\ slot[r].ticket = slot[q].ticket
             => r = q

\* The page waits for an invocation that is at work or has answered.
PageWaits == page.waiting # NoSlot => slot[page.waiting].pc # "idle"

SummaryInv ==
    /\ SummaryTypeOK
    /\ LedgerSound /\ WindowsSound /\ MoneySound /\ PageWaits
    /\ \A r \in Slots : SlotSound(slot[r], operation)
ProviderRows == [asked : 0..MaxAttempts, billed : BOOLEAN]

\* An invocation that neither asks the model nor is about to settle its operation as free.
Quiet(s, ledger) ==
    /\ s \in SlotRows /\ SlotSound(s, ledger) /\ s.pc # "provider"
    /\ ~(s.pc = "fail" /\ s.outcome = "released")

\* Only invocation r moves, to such a state, and it is not gone while the page waits for it.
Works(r) ==
    /\ slot' \in [Slots -> SlotRows]
    /\ \A q \in Slots : q # r => slot'[q] = slot[q]
    /\ Quiet(slot'[r], operation')
    /\ slot'[r].pc = "idle" => page.waiting # r

\* Only what the model was not paid for is settled as free.
FreeIsUnbilled ==
    \A t \in Tickets :
        operation'[t].settled = "released" => operation[t].settled = "released" \/ Unbilled(t)


Runs == [status : {"none", "running", "stopped", "closed"}, token : Tokens, expired : BOOLEAN]

\* What the ledger and the windows are together.
DBInv ==
    /\ open \in BOOLEAN /\ run \in Runs
    /\ window \in [Windows -> WindowRows] /\ operation \in [Tickets -> OperationRows]
    /\ LedgerSound /\ WindowsSound

\* What no step takes back of the ledger.
LedgerForward ==
    \A t \in Tickets : /\ operation[t].usage # "none" => operation'[t].usage # "none"
                       /\ operation[t].dispatch # "none" => operation'[t].dispatch # "none"

\* What SummariesFinal says of one step.
SummariesStep ==
    \A w \in Windows :
        /\ window[w].status \in Final => window'[w] = window[w]
        /\ window[w].status # "succeeded" /\ window'[w].status = "succeeded" =>
              RunLive /\ window[w].run = run.token.run
              /\ window[w].operation # NoTicket
              /\ operation[window[w].operation].usage = "running"

\* A step keeps the invariant and what SummariesFinal says.
Kept == SummaryInv' /\ SummariesStep

\* A step of the database keeps what the ledger and the windows are together, ...
DBKept == DBInv' /\ LedgerForward /\ SummariesStep

\* ... and settles nothing as free.
NothingReleased ==
    \A t \in Tickets : operation'[t].settled = "released" => operation[t].settled = "released"

-----------------------------------------------------------------------------
(* Windows and tickets.                                                      *)

\* The bounds are positive numbers.
LEMMA Bounds ==
    /\ WindowCount \in Nat /\ WindowCount > 0 /\ MaxPages \in Nat /\ MaxPages > 0
    /\ MaxRuns \in Nat /\ MaxRuns > 0 /\ MaxTurns \in Nat /\ MaxTurns > 0
    /\ MaxFaults \in Nat /\ Sources # {} /\ NoSlot \notin Slots
BY SummaryAssumption

\* There are finitely many tickets, each of a window, and none of them is no ticket.
LEMMA TicketFacts ==
    /\ IsFiniteSet(Tickets) /\ NoTicket \notin Tickets
    /\ \A t \in Tickets : t[1] \in Windows
<1>1. IsFiniteSet(1..WindowCount) /\ IsFiniteSet(1..MaxPages)
  BY Bounds, FS_Interval
<1>2. IsFiniteSet(Tickets)
  BY <1>1, FS_Product DEF Tickets, Windows
<1>3. NoTicket \notin Tickets
  <2>1. 0 \notin 1..WindowCount
    BY Bounds
  <2> QED
    BY <2>1 DEF NoTicket, Tickets, Windows
<1> QED
  BY <1>2, <1>3 DEF Tickets

\* A set of numbers that is not empty holds its least one.
LEMMA MinInSet ==
    ASSUME NEW S \in SUBSET Nat, S # {}
    PROVE  Min(S) \in S
<1>1. PICK less : less = {pair \in Nat \X Nat : pair[1] < pair[2]}
  OBVIOUS
<1>2. IsWellFoundedOn(less, Nat)
  BY <1>1, NatLessThanWellFounded DEF OpToRel
<1>3. PICK x \in S : \A y \in S : ~(<<y, x>> \in less)
  BY <1>2, WFMin
<1>4. ASSUME NEW y \in S PROVE x <= y
  <2>1. x \in Nat /\ y \in Nat
    OBVIOUS
  <2>2. y < x => <<y, x>> \in less
    BY <1>1, <2>1
  <2> QED
    BY <1>3, <2>1, <2>2
<1> QED
  BY <1>4 DEF Min

-----------------------------------------------------------------------------
(* The ledger and the windows.                                               *)

\* What a settlement changes and what it leaves.
LEMMA SettledFields ==
    ASSUME NEW op \in OperationRows, NEW usage \in {"failed", "cancelled"}, NEW charge \in Charges,
           NEW new, new = Settled(op, usage, charge)
    PROVE  /\ new \in OperationRows /\ new.dispatch = op.dispatch
           /\ op.settled # "no" => new = op
           /\ op.settled = "no" =>
                 /\ new.settled = charge
                 /\ new.usage = IF op.usage = "running" THEN usage ELSE op.usage
<1>1. CASE op.settled # "no"
  BY <1>1 DEF Settled
<1>2. CASE op.settled = "no"
  <2>1. PICK ended : ended = [op EXCEPT !.usage = IF op.usage = "running" THEN usage ELSE @]
    OBVIOUS
  <2>2. /\ ended \in OperationRows /\ ended.dispatch = op.dispatch
        /\ ended.usage = IF op.usage = "running" THEN usage ELSE op.usage
    BY <2>1 DEF OperationRows
  <2>3. new = [ended EXCEPT !.settled = charge]
    BY <1>2, <2>1 DEF Settled
  <2>4. /\ new \in OperationRows /\ new.dispatch = ended.dispatch
        /\ new.usage = ended.usage /\ new.settled = charge
    BY <2>2, <2>3 DEF OperationRows, Charges
  <2> QED
    BY <1>2, <2>2, <2>4
<1> QED
  BY <1>1, <1>2

\* The parts of DBInv, one by one.
LEMMA DBParts ==
    ASSUME DBInv
    PROVE  /\ open \in BOOLEAN /\ run \in Runs
           /\ window \in [Windows -> WindowRows] /\ operation \in [Tickets -> OperationRows]
           /\ \A w \in Windows :
                 /\ window[w] \in WindowRows
                 /\ (window[w].status = "running") = (window[w].operation # NoTicket)
                 /\ window[w].operation \in Tickets => window[w].operation[1] = w
                 /\ window[w].operation \in Tickets \cup {NoTicket}
                 /\ Cardinality(Started(w)) <= window[w].attempts
                 /\ window[w].status = "running" =>
                       open /\ run.status = "running" /\ window[w].run = run.token.run
           /\ \A t \in Tickets :
                 /\ operation[t] \in OperationRows
                 /\ operation[t].usage = "none" =>
                       operation[t].dispatch = "none" /\ operation[t].settled = "no"
                 /\ operation[t].settled # "no" => operation[t].usage # "running"
                 /\ (operation[t].usage = "running") = (window[t[1]].operation = t)
           /\ \A t, u \in Tickets :
                 operation[t].usage = "running" /\ operation[u].usage = "running" => t = u
BY DEF DBInv, LedgerSound, WindowsSound, WindowRows

\* The operations started for a window are counted the same while no operation is started.
LEMMA StartedSame ==
    ASSUME \A t \in Tickets : (operation[t].usage = "none") = (operation'[t].usage = "none"),
           NEW w
    PROVE  Started(w)' = Started(w)
BY DEF Started

\* Operations end and their windows with them: what an end, a failure and a recovery do.
LEMMA EndsKeeps ==
    ASSUME DBInv, NEW S \in SUBSET Tickets, \A t \in S : operation[t].usage # "none",
           NEW usage \in {"failed", "cancelled"}, NEW charge \in Charges,
           NEW status \in {"failed", "discarded"},
           Ends(S, usage, charge, status), UNCHANGED <<open, run>>
    PROVE  /\ DBKept
           /\ \A t \in Tickets :
                 operation'[t].settled = "released" =>
                    operation[t].settled = "released" \/ (t \in S /\ charge = "released")
<1>1. ASSUME NEW t \in Tickets
      PROVE  /\ operation'[t] \in OperationRows
             /\ operation'[t].dispatch = operation[t].dispatch
             /\ (operation'[t].usage = "none") = (operation[t].usage = "none")
             /\ (operation'[t].usage = "running") = (operation[t].usage = "running" /\ t \notin S)
             /\ operation'[t].settled # "no" => operation'[t].usage # "running"
             /\ operation'[t].usage = "none" => operation'[t].settled = "no"
             /\ operation'[t].settled = "released" =>
                   operation[t].settled = "released" \/ (t \in S /\ charge = "released")
  <2>1. /\ operation[t] \in OperationRows
        /\ operation[t].usage = "none" => operation[t].settled = "no"
        /\ operation[t].settled # "no" => operation[t].usage # "running"
    BY DBParts
  <2>2. CASE t \notin S
    <3>1. operation'[t] = operation[t]
      BY <2>2 DEF Ends
    <3> QED
      BY <2>1, <2>2, <3>1
  <2>3. CASE t \in S
    <3>1. operation'[t] = Settled(operation[t], usage, charge)
      BY <2>3 DEF Ends
    <3>2. PICK new : new = operation'[t]
      OBVIOUS
    <3>3. /\ new \in OperationRows /\ new.dispatch = operation[t].dispatch
          /\ operation[t].settled # "no" => new = operation[t]
          /\ operation[t].settled = "no" =>
                 /\ new.settled = charge
                 /\ new.usage = IF operation[t].usage = "running" THEN usage
                                ELSE operation[t].usage
      BY <2>1, <3>1, <3>2, SettledFields
    <3>4. operation[t].usage # "none"
      BY <2>3
    <3> QED
      BY <2>1, <2>3, <3>2, <3>3, <3>4
  <2> QED
    BY <2>2, <2>3
<1>2. ASSUME NEW w \in Windows
      PROVE  \/ window[w].operation \in S /\ window'[w] \in WindowRows
                /\ window'[w].status = status /\ window'[w].operation = NoTicket
                /\ window'[w].attempts = window[w].attempts
             \/ window[w].operation \notin S /\ window'[w] = window[w]
  <2>1. window[w] \in WindowRows
    BY DBParts
  <2>2. CASE window[w].operation \in S
    <3>1. window'[w] = [window[w] EXCEPT !.status = status, !.operation = NoTicket]
      BY <2>2 DEF Ends, Closed
    <3>2. PICK row, first : row = window[w] /\ first = [row EXCEPT !.status = status]
      OBVIOUS
    <3>3. /\ first \in WindowRows /\ first.status = status /\ first.attempts = row.attempts
      BY <2>1, <3>2 DEF WindowRows, Final
    <3>4. PICK new : new = [first EXCEPT !.operation = NoTicket]
      OBVIOUS
    <3>5. new \in WindowRows /\ new.status = first.status /\ new.attempts = first.attempts
          /\ new.operation = NoTicket
      BY <3>3, <3>4 DEF WindowRows
    <3>6. window'[w] = new
      BY <3>1, <3>2, <3>4
    <3> QED
      BY <2>2, <3>2, <3>3, <3>5, <3>6
  <2>3. CASE window[w].operation \notin S
    BY <2>3 DEF Ends, Closed
  <2> QED
    BY <2>2, <2>3
<1>3. operation' \in [Tickets -> OperationRows] /\ window' \in [Windows -> WindowRows]
  <2>1. \A w \in Windows : window'[w] \in WindowRows
    BY <1>2, DBParts
  <2> QED
    BY <1>1, <2>1 DEF Ends, Closed
<1>4. LedgerSound'
  BY <1>1, DBParts DEF LedgerSound
<1>5. LedgerForward
  BY <1>1 DEF LedgerForward
<1>6. SummariesStep
  <2>1. ASSUME NEW w \in Windows, window[w].status \in Final PROVE window'[w] = window[w]
    <3>1. window[w].operation = NoTicket
      BY <2>1, DBParts DEF Final
    <3> QED
      BY <1>2, <3>1, TicketFacts
  <2>2. ASSUME NEW w \in Windows, window[w].status # "succeeded"
        PROVE  window'[w].status # "succeeded"
    BY <1>2, <2>2
  <2> QED
    BY <2>1, <2>2 DEF SummariesStep
<1>7. WindowsSound'
  <2>1. ASSUME NEW w \in Windows
        PROVE  /\ (window'[w].status = "running") = (window'[w].operation # NoTicket)
               /\ window'[w].operation \in Tickets => window'[w].operation[1] = w
               /\ Cardinality(Started(w)') <= window'[w].attempts
               /\ window'[w].status = "running" =>
                     open' /\ run'.status = "running" /\ window'[w].run = run'.token.run
    <3>1. Started(w)' = Started(w)
      BY <1>1, StartedSame
    <3>2. CASE window[w].operation \notin S
      <4>1. window'[w] = window[w] /\ open' = open /\ run' = run
        BY <1>2, <3>2
      <4> QED
        BY <3>1, <4>1, DBParts
    <3>3. CASE window[w].operation \in S
      <4>1. window'[w].status = status /\ window'[w].operation = NoTicket
            /\ window'[w].attempts = window[w].attempts
        BY <1>2, <3>3
      <4> QED
        BY <3>1, <4>1, DBParts, TicketFacts
    <3> QED
      BY <3>2, <3>3
  <2>2. ASSUME NEW t \in Tickets
        PROVE  (operation'[t].usage = "running") = (window'[t[1]].operation = t)
    <3>1. t[1] \in Windows /\ t # NoTicket
      BY TicketFacts
    <3>2. (operation[t].usage = "running") = (window[t[1]].operation = t)
      BY DBParts
    <3>3. (operation'[t].usage = "running") = (operation[t].usage = "running" /\ t \notin S)
      BY <1>1
    <3>4. \/ window[t[1]].operation \in S /\ window'[t[1]].operation = NoTicket
          \/ window[t[1]].operation \notin S /\ window'[t[1]] = window[t[1]]
      BY <1>2, <3>1
    <3> QED
      BY <3>1, <3>2, <3>3, <3>4
  <2>3. \A t, u \in Tickets :
           operation'[t].usage = "running" /\ operation'[u].usage = "running" => t = u
    BY <1>1, DBParts
  <2> QED
    BY <2>1, <2>2, <2>3 DEF WindowsSound
<1>8. DBInv'
  BY <1>3, <1>4, <1>7, DBParts DEF DBInv
<1> QED
  BY <1>1, <1>5, <1>6, <1>8 DEF DBKept

\* A stop and a close leave nothing running, whatever becomes of the run.
LEMMA CancelKeeps ==
    ASSUME DBInv, CancelRunning, open' \in BOOLEAN, run' \in Runs
    PROVE  DBKept /\ NothingReleased
<1>1. ASSUME NEW t \in Tickets
      PROVE  /\ operation'[t] \in OperationRows
             /\ operation'[t].dispatch = operation[t].dispatch
             /\ operation'[t].settled = operation[t].settled
             /\ (operation'[t].usage = "none") = (operation[t].usage = "none")
             /\ operation'[t].usage # "running"
  <2>1. operation[t] \in OperationRows
    BY DBParts
  <2>2. CASE operation[t].usage = "running"
    <3>1. operation'[t] = [operation[t] EXCEPT !.usage = "cancelled"]
      BY <2>2 DEF CancelRunning
    <3> QED
      BY <2>1, <2>2, <3>1 DEF OperationRows
  <2>3. CASE operation[t].usage # "running"
    <3>1. operation'[t] = operation[t]
      BY <2>3 DEF CancelRunning
    <3> QED
      BY <2>1, <2>3, <3>1
  <2> QED
    BY <2>2, <2>3
<1>2. ASSUME NEW w \in Windows
      PROVE  /\ window'[w] \in WindowRows /\ window'[w].status # "running"
             /\ window'[w].operation = NoTicket /\ window'[w].attempts = window[w].attempts
             /\ window[w].status # "running" => window'[w] = window[w]
             /\ window[w].status = "running" => window'[w].status = "discarded"
  <2>1. window[w] \in WindowRows /\ (window[w].status = "running") = (window[w].operation # NoTicket)
    BY DBParts
  <2>2. CASE window[w].status = "running"
    <3>1. window'[w] = [window[w] EXCEPT !.status = "discarded", !.operation = NoTicket]
      BY <2>2 DEF CancelRunning
    <3>2. PICK first : first = [window[w] EXCEPT !.status = "discarded"]
      OBVIOUS
    <3>3. first \in WindowRows /\ first.status = "discarded" /\ first.attempts = window[w].attempts
      BY <2>1, <3>2 DEF WindowRows, Final
    <3>4. PICK new : new = [first EXCEPT !.operation = NoTicket]
      OBVIOUS
    <3>5. /\ new \in WindowRows /\ new.status = "discarded" /\ new.operation = NoTicket
          /\ new.attempts = first.attempts
      BY <3>3, <3>4 DEF WindowRows
    <3>6. window'[w] = new
      BY <3>1, <3>2, <3>4
    <3> QED
      BY <2>2, <3>3, <3>5, <3>6
  <2>3. CASE window[w].status # "running"
    <3>1. window'[w] = window[w]
      BY <2>3 DEF CancelRunning
    <3> QED
      BY <2>1, <2>3, <3>1
  <2> QED
    BY <2>2, <2>3
<1>3. operation' \in [Tickets -> OperationRows] /\ window' \in [Windows -> WindowRows]
  BY <1>1, <1>2 DEF CancelRunning
<1>4. LedgerSound'
  BY <1>1, DBParts DEF LedgerSound
<1>5. LedgerForward /\ NothingReleased
  BY <1>1 DEF LedgerForward, NothingReleased
<1>6. SummariesStep
  BY <1>2 DEF SummariesStep, Final
<1>7. WindowsSound'
  <2>1. ASSUME NEW w \in Windows
        PROVE  /\ (window'[w].status = "running") = (window'[w].operation # NoTicket)
               /\ window'[w].operation \in Tickets => window'[w].operation[1] = w
               /\ Cardinality(Started(w)') <= window'[w].attempts
               /\ window'[w].status # "running"
    <3>1. Started(w)' = Started(w)
      BY <1>1, StartedSame
    <3> QED
      BY <1>2, <3>1, DBParts, TicketFacts
  <2>2. ASSUME NEW t \in Tickets
        PROVE  (operation'[t].usage = "running") = (window'[t[1]].operation = t)
    BY <1>1, <1>2, TicketFacts
  <2> QED
    BY <1>1, <2>1, <2>2 DEF WindowsSound
<1> QED
  BY <1>3, <1>4, <1>5, <1>6, <1>7 DEF DBInv, DBKept

\* A step of the dispatch of a started operation.
LEMMA DispatchKeeps ==
    ASSUME DBInv, NEW t \in Tickets, operation[t].usage # "none",
           NEW dispatch \in {"leased", "lapsed"},
           operation' = [operation EXCEPT ![t].dispatch = dispatch],
           UNCHANGED <<open, run, window>>
    PROVE  DBKept /\ NothingReleased /\ operation'[t].dispatch = dispatch
<1>1. PICK op : op = [operation[t] EXCEPT !.dispatch = dispatch]
  OBVIOUS
<1>2. /\ op \in OperationRows /\ op.usage = operation[t].usage
      /\ op.settled = operation[t].settled /\ op.dispatch = dispatch
  BY <1>1, DBParts DEF OperationRows
<1>3. operation' = [operation EXCEPT ![t] = op]
  BY <1>1
<1>4. operation' \in [Tickets -> OperationRows]
  BY <1>2, <1>3, DBParts
<1>5. ASSUME NEW u \in Tickets
      PROVE  /\ operation'[u].usage = operation[u].usage
             /\ operation'[u].settled = operation[u].settled
             /\ operation'[u].dispatch = IF u = t THEN dispatch ELSE operation[u].dispatch
  BY <1>2, <1>3, DBParts
<1>6. LedgerSound'
  BY <1>5, DBParts DEF LedgerSound
<1>7. LedgerForward /\ NothingReleased
  BY <1>5 DEF LedgerForward, NothingReleased
<1>8. SummariesStep
  BY DEF SummariesStep
<1>9. WindowsSound'
  <2>1. \A w \in Windows : Started(w)' = Started(w)
    BY <1>5, StartedSame
  <2>2. \A u \in Tickets : (operation'[u].usage = "running") = (window'[u[1]].operation = u)
    BY <1>5, DBParts
  <2>3. \A u, v \in Tickets :
           operation'[u].usage = "running" /\ operation'[v].usage = "running" => u = v
    BY <1>5, DBParts
  <2>4. ASSUME NEW w \in Windows
        PROVE  /\ (window'[w].status = "running") = (window'[w].operation # NoTicket)
               /\ window'[w].operation \in Tickets => window'[w].operation[1] = w
               /\ Cardinality(Started(w)') <= window'[w].attempts
               /\ window'[w].status = "running" =>
                     open' /\ run'.status = "running" /\ window'[w].run = run'.token.run
    BY <2>1, DBParts
  <2> QED
    BY <2>2, <2>3, <2>4 DEF WindowsSound
<1> QED
  BY <1>4, <1>5, <1>6, <1>7, <1>8, <1>9, DBParts DEF DBInv, DBKept

\* A step that writes neither the ledger nor the windows: the run may change while nothing
\* is running, and otherwise stays the run it is.
LEMMA RunKeeps ==
    ASSUME DBInv, UNCHANGED <<window, operation>>, open' \in BOOLEAN, run' \in Runs,
           \/ \A w \in Windows : window[w].status # "running"
           \/ open' = open /\ run'.status = run.status /\ run'.token.run = run.token.run
    PROVE  DBKept /\ NothingReleased
<1>1. \A t \in Tickets : (operation[t].usage = "none") = (operation'[t].usage = "none")
  OBVIOUS
<1>2. \A w \in Windows : Started(w)' = Started(w)
  BY <1>1, StartedSame
<1>3. LedgerSound'
  BY DBParts DEF LedgerSound
<1>4. WindowsSound'
  <2>1. ASSUME NEW w \in Windows
        PROVE  /\ (window'[w].status = "running") = (window'[w].operation # NoTicket)
               /\ window'[w].operation \in Tickets => window'[w].operation[1] = w
               /\ Cardinality(Started(w)') <= window'[w].attempts
               /\ window'[w].status = "running" =>
                     open' /\ run'.status = "running" /\ window'[w].run = run'.token.run
    BY <1>2, DBParts
  <2>2. \A u \in Tickets : (operation'[u].usage = "running") = (window'[u[1]].operation = u)
    BY DBParts
  <2>3. \A u, v \in Tickets :
           operation'[u].usage = "running" /\ operation'[v].usage = "running" => u = v
    BY DBParts
  <2> QED
    BY <2>1, <2>2, <2>3 DEF WindowsSound
<1>5. LedgerForward /\ NothingReleased /\ SummariesStep
  BY DEF LedgerForward, NothingReleased, SummariesStep
<1> QED
  BY <1>3, <1>4, <1>5, DBParts DEF DBInv, DBKept

\* A step that leaves the ledger, the windows and the run alone.
LEMMA DBStays ==
    ASSUME DBInv, UNCHANGED <<open, run, window, operation>>
    PROVE  DBKept /\ NothingReleased
BY RunKeeps, DBParts

\* A window that is neither running nor finished gets another such status, or is skipped.
LEMMA RowKeeps ==
    ASSUME DBInv, NEW w \in Windows, NEW row \in WindowRows,
           window[w].status \notin {"running"} \cup Final,
           row.status \in {"none", "pending", "failed", "skipped"},
           row.attempts = window[w].attempts, row.operation = window[w].operation,
           window' = [window EXCEPT ![w] = row], UNCHANGED <<open, run, operation>>
    PROVE  DBKept /\ NothingReleased
<1>1. \A v \in Windows : window'[v] = IF v = w THEN row ELSE window[v]
  BY DBParts
<1>2. window' \in [Windows -> WindowRows]
  BY DBParts
<1>3. \A t \in Tickets : (operation[t].usage = "none") = (operation'[t].usage = "none")
  OBVIOUS
<1>4. \A v \in Windows : Started(v)' = Started(v)
  BY <1>3, StartedSame
<1>5. LedgerSound'
  BY DBParts DEF LedgerSound
<1>6. WindowsSound'
  <2>1. ASSUME NEW v \in Windows
        PROVE  /\ (window'[v].status = "running") = (window'[v].operation # NoTicket)
               /\ window'[v].operation \in Tickets => window'[v].operation[1] = v
               /\ Cardinality(Started(v)') <= window'[v].attempts
               /\ window'[v].status = "running" =>
                     open' /\ run'.status = "running" /\ window'[v].run = run'.token.run
    BY <1>1, <1>4, DBParts
  <2>2. \A u \in Tickets : window'[u[1]].operation = window[u[1]].operation
    BY <1>1, TicketFacts
  <2>3. \A u \in Tickets : (operation'[u].usage = "running") = (window'[u[1]].operation = u)
    BY <2>2, DBParts
  <2>4. \A u, v \in Tickets :
           operation'[u].usage = "running" /\ operation'[v].usage = "running" => u = v
    BY DBParts
  <2> QED
    BY <2>1, <2>3, <2>4 DEF WindowsSound
<1>7. SummariesStep
  BY <1>1 DEF SummariesStep, Final
<1>8. LedgerForward /\ NothingReleased
  BY DEF LedgerForward, NothingReleased
<1> QED
  BY <1>2, <1>5, <1>6, <1>7, <1>8, DBParts DEF DBInv, DBKept

\* An operation is started for a window of the live run that waits, while no other is running.
LEMMA StartKeeps ==
    ASSUME DBInv, NEW t \in Tickets, operation[t].usage = "none", LaneFree, RunLive,
           window[t[1]].run = run.token.run, window[t[1]].status \in {"pending", "failed"},
           window[t[1]].attempts + 1 <= MaxAttempts,
           operation' = [operation EXCEPT ![t].usage = "running"],
           window' = [window EXCEPT ![t[1]] =
              [window[t[1]] EXCEPT !.status = "running",
                                   !.attempts = window[t[1]].attempts + 1, !.operation = t]],
           UNCHANGED <<open, run>>
    PROVE  DBKept /\ NothingReleased /\ operation'[t].usage # "none"
<1>1. PICK w : w = t[1]
  OBVIOUS
<1>2. w \in Windows /\ window[w] \in WindowRows /\ t # NoTicket
  BY <1>1, TicketFacts, DBParts
<1>3. PICK op : op = [operation[t] EXCEPT !.usage = "running"]
  OBVIOUS
<1>4. /\ op \in OperationRows /\ op.usage = "running"
      /\ op.settled = operation[t].settled /\ op.dispatch = operation[t].dispatch
  BY <1>3, DBParts DEF OperationRows
<1>5. operation' = [operation EXCEPT ![t] = op]
  BY <1>3
<1>6. ASSUME NEW u \in Tickets
      PROVE  /\ operation'[u].usage = IF u = t THEN "running" ELSE operation[u].usage
             /\ operation'[u].settled = operation[u].settled
             /\ operation'[u].dispatch = operation[u].dispatch
             /\ operation[u].usage # "running"
  BY <1>4, <1>5, DBParts DEF LaneFree
<1>7. PICK row : row = [window[w] EXCEPT !.status = "running",
                                        !.attempts = window[w].attempts + 1, !.operation = t]
  OBVIOUS
<1>8. window' = [window EXCEPT ![t[1]] = row]
  <2>1. row = [window[t[1]] EXCEPT !.status = "running",
                                   !.attempts = window[t[1]].attempts + 1, !.operation = t]
    BY <1>1, <1>7
  <2> QED
    BY <2>1
<1>9. /\ row \in WindowRows /\ row.status = "running" /\ row.attempts = window[w].attempts + 1
      /\ row.operation = t /\ row.run = window[w].run
  <2>1. PICK first : first = [window[w] EXCEPT !.status = "running"]
    OBVIOUS
  <2>2. first \in WindowRows /\ first.status = "running" /\ first.attempts = window[w].attempts
        /\ first.run = window[w].run
    BY <1>2, <2>1 DEF WindowRows
  <2>3. window[w].attempts + 1 \in 0..MaxAttempts
    BY <1>1, <1>2 DEF WindowRows, MaxAttempts
  <2>4. PICK second : second = [first EXCEPT !.attempts = window[w].attempts + 1]
    OBVIOUS
  <2>5. second \in WindowRows /\ second.status = first.status /\ second.run = first.run
        /\ second.attempts = window[w].attempts + 1
    BY <2>2, <2>3, <2>4 DEF WindowRows
  <2>6. row = [second EXCEPT !.operation = t]
    BY <1>7, <2>1, <2>4
  <2>7. row \in WindowRows /\ row.status = second.status /\ row.run = second.run
        /\ row.attempts = second.attempts /\ row.operation = t
    BY <2>5, <2>6 DEF WindowRows
  <2> QED
    BY <2>2, <2>5, <2>7
<1>10. operation' \in [Tickets -> OperationRows] /\ window' \in [Windows -> WindowRows]
  <2>1. operation' \in [Tickets -> OperationRows]
    BY <1>4, <1>5, DBParts
  <2>2. window' \in [Windows -> WindowRows]
    BY <1>1, <1>2, <1>8, <1>9, DBParts
  <2> QED
    BY <2>1, <2>2
<1>11. \A v \in Windows : window'[v] = IF v = w THEN row ELSE window[v]
  BY <1>1, <1>8, DBParts
<1>12. LedgerSound'
  BY <1>6, DBParts DEF LedgerSound
<1>13. LedgerForward /\ NothingReleased /\ operation'[t].usage # "none"
  BY <1>6 DEF LedgerForward, NothingReleased
<1>14. SummariesStep
  <2>1. window[w].status \notin Final /\ row.status # "succeeded"
    BY <1>1, <1>9 DEF Final
  <2> QED
    BY <1>11, <2>1 DEF SummariesStep
<1>15. WindowsSound'
  <2>1. ASSUME NEW v \in Windows PROVE Cardinality(Started(v)') <= window'[v].attempts
    <3>1. IsFiniteSet(Started(v)) /\ Cardinality(Started(v)) \in Nat
      <4>1. Started(v) \in SUBSET Tickets
        BY DEF Started
      <4>2. IsFiniteSet(Started(v))
        BY <4>1, TicketFacts, FS_Subset
      <4> QED
        BY <4>2, FS_CardinalityType
    <3>2. CASE v = w
      <4>1. Started(v)' = Started(v) \cup {t}
        BY <1>1, <1>6, <3>2 DEF Started
      <4>2. t \notin Started(v)
        BY DEF Started
      <4>3. Cardinality(Started(v)') = Cardinality(Started(v)) + 1
        BY <3>1, <4>1, <4>2, FS_AddElement
      <4>4. window'[v].attempts = window[v].attempts + 1
        BY <1>2, <1>9, <1>11, <3>2
      <4>5. Cardinality(Started(v)) <= window[v].attempts /\ window[v].attempts \in Nat
        BY DBParts DEF WindowRows
      <4> QED
        BY <3>1, <4>3, <4>4, <4>5
    <3>3. CASE v # w
      <4>1. Started(v)' = Started(v)
        BY <1>1, <1>6, <3>3 DEF Started
      <4>2. window'[v] = window[v]
        BY <1>11, <3>3
      <4> QED
        BY <4>1, <4>2, DBParts
    <3> QED
      BY <3>2, <3>3
  <2>2. ASSUME NEW v \in Windows
        PROVE  /\ (window'[v].status = "running") = (window'[v].operation # NoTicket)
               /\ window'[v].operation \in Tickets => window'[v].operation[1] = v
               /\ window'[v].status = "running" =>
                     open' /\ run'.status = "running" /\ window'[v].run = run'.token.run
    BY <1>1, <1>2, <1>9, <1>11, DBParts DEF RunLive
  <2>3. ASSUME NEW u \in Tickets
        PROVE  (operation'[u].usage = "running") = (window'[u[1]].operation = u)
    <3>1. u[1] \in Windows
      BY TicketFacts
    <3>2. window[u[1]].operation # u
      BY <1>6, DBParts
    <3> QED
      BY <1>1, <1>6, <1>9, <1>11, <3>1, <3>2
  <2>4. \A u, v \in Tickets :
           operation'[u].usage = "running" /\ operation'[v].usage = "running" => u = v
    BY <1>6
  <2> QED
    BY <2>1, <2>2, <2>3, <2>4 DEF WindowsSound
<1> QED
  BY <1>10, <1>12, <1>13, <1>14, <1>15, DBParts DEF DBInv, DBKept

\* A summary is saved by an operation in progress.
LEMMA SucceedsKeeps ==
    ASSUME DBInv, NEW t \in Tickets, operation[t].usage = "running", Authority,
           operation' = [operation EXCEPT ![t].usage = "succeeded", ![t].settled = "actual"],
           window' = Closed(window, {t}, "succeeded"), UNCHANGED <<open, run>>
    PROVE  DBKept /\ NothingReleased
<1>1. PICK first : first = [operation[t] EXCEPT !.usage = "succeeded"]
  OBVIOUS
<1>2. first \in OperationRows /\ first.usage = "succeeded" /\ first.dispatch = operation[t].dispatch
  BY <1>1, DBParts DEF OperationRows
<1>3. PICK op : op = [first EXCEPT !.settled = "actual"]
  OBVIOUS
<1>4. /\ op \in OperationRows /\ op.usage = "succeeded" /\ op.settled = "actual"
      /\ op.dispatch = operation[t].dispatch
  BY <1>2, <1>3 DEF OperationRows
<1>5. operation' = [operation EXCEPT ![t] = op]
  BY <1>1, <1>3, DBParts
<1>6. ASSUME NEW u \in Tickets
      PROVE  /\ operation'[u] = IF u = t THEN op ELSE operation[u]
             /\ (operation'[u].usage = "none") = (operation[u].usage = "none")
             /\ (operation'[u].usage = "running") = (operation[u].usage = "running" /\ u # t)
  <2>1. operation \in [Tickets -> OperationRows] /\ operation[t].usage = "running"
    BY DBParts
  <2>2. operation'[u] = IF u = t THEN op ELSE operation[u]
    BY <1>5, <2>1
  <2>3. CASE u = t
    BY <1>4, <2>1, <2>2, <2>3
  <2>4. CASE u # t
    BY <2>2, <2>4
  <2> QED
    BY <2>2, <2>3, <2>4
<1>7. PICK w : w = t[1]
  OBVIOUS
<1>8. w \in Windows /\ window[w] \in WindowRows /\ window[w].operation = t /\ t # NoTicket
  BY <1>7, TicketFacts, DBParts
<1>9. window[w].status = "running"
  BY <1>8, DBParts
<1>10. \A v \in Windows : v # w => window[v].operation # t
  BY <1>7, DBParts
<1>11. PICK row : row = [window[w] EXCEPT !.status = "succeeded", !.operation = NoTicket]
  OBVIOUS
<1>12. row \in WindowRows /\ row.status = "succeeded" /\ row.operation = NoTicket
       /\ row.attempts = window[w].attempts
  <2>1. PICK done : done = [window[w] EXCEPT !.status = "succeeded"]
    OBVIOUS
  <2>2. done \in WindowRows /\ done.status = "succeeded" /\ done.attempts = window[w].attempts
    BY <1>8, <2>1 DEF WindowRows, Final
  <2>3. row = [done EXCEPT !.operation = NoTicket]
    BY <1>11, <2>1
  <2>4. row \in WindowRows /\ row.status = done.status /\ row.operation = NoTicket
        /\ row.attempts = done.attempts
    BY <2>2, <2>3 DEF WindowRows
  <2> QED
    BY <2>2, <2>4
<1>13. \A v \in Windows : window'[v] = IF v = w THEN row ELSE window[v]
  BY <1>8, <1>10, <1>11 DEF Closed
<1>14. operation' \in [Tickets -> OperationRows] /\ window' \in [Windows -> WindowRows]
  <2>1. \A v \in Windows : window'[v] \in WindowRows
    BY <1>12, <1>13, DBParts
  <2>2. operation' \in [Tickets -> OperationRows]
    <3>1. operation \in [Tickets -> OperationRows]
      BY DBParts
    <3> QED
      BY <1>4, <1>5, <3>1
  <2> QED
    BY <2>1, <2>2 DEF Closed
<1>15. LedgerSound'
  BY <1>4, <1>6, DBParts DEF LedgerSound
<1>16. LedgerForward /\ NothingReleased
  <2>1. ASSUME NEW u \in Tickets
        PROVE  /\ operation[u].usage # "none" => operation'[u].usage # "none"
               /\ operation[u].dispatch # "none" => operation'[u].dispatch # "none"
               /\ operation'[u].settled = "released" => operation[u].settled = "released"
    <3>1. CASE u = t
      <4>1. operation'[u] = op
        BY <1>6, <3>1
      <4> QED
        BY <1>4, <3>1, <4>1
    <3>2. CASE u # t
      <4>1. operation'[u] = operation[u]
        BY <1>6, <3>2
      <4> QED
        BY <4>1
    <3> QED
      BY <3>1, <3>2
  <2> QED
    BY <2>1 DEF LedgerForward, NothingReleased
<1>17. SummariesStep
  <2>1. RunLive /\ window[w].run = run.token.run
    BY <1>8, <1>9, DBParts DEF RunLive, Authority
  <2>2. ASSUME NEW v \in Windows
        PROVE  /\ window[v].status \in Final => window'[v] = window[v]
               /\ window[v].status # "succeeded" /\ window'[v].status = "succeeded" => v = w
    BY <1>9, <1>13 DEF Final
  <2> QED
    BY <1>8, <2>1, <2>2 DEF SummariesStep
<1>18. WindowsSound'
  <2>1. ASSUME NEW v \in Windows
        PROVE  /\ (window'[v].status = "running") = (window'[v].operation # NoTicket)
               /\ window'[v].operation \in Tickets => window'[v].operation[1] = v
               /\ Cardinality(Started(v)') <= window'[v].attempts
               /\ window'[v].status = "running" =>
                     open' /\ run'.status = "running" /\ window'[v].run = run'.token.run
    <3>1. Started(v)' = Started(v)
      BY <1>6, StartedSame
    <3>2. CASE v = w
      <4>1. /\ window'[v].status = "succeeded" /\ window'[v].operation = NoTicket
            /\ window'[v].attempts = window[v].attempts
        BY <1>12, <1>13, <3>2
      <4> QED
        BY <3>1, <4>1, DBParts, TicketFacts
    <3>3. CASE v # w
      <4>1. window'[v] = window[v]
        BY <1>13, <3>3
      <4> QED
        BY <3>1, <4>1, DBParts
    <3> QED
      BY <3>2, <3>3
  <2>2. ASSUME NEW u \in Tickets
        PROVE  (operation'[u].usage = "running") = (window'[u[1]].operation = u)
    <3>1. u[1] \in Windows /\ u # NoTicket
      BY TicketFacts
    <3>2. (operation[u].usage = "running") = (window[u[1]].operation = u)
      BY DBParts
    <3>3. u # t => window[u[1]].operation = window'[u[1]].operation
                   \/ (window[u[1]].operation = t /\ window'[u[1]].operation = NoTicket)
      BY <1>8, <1>12, <1>13, <3>1
    <3> QED
      BY <1>6, <1>7, <1>12, <1>13, <3>1, <3>2, <3>3
  <2>3. \A u, v \in Tickets :
           operation'[u].usage = "running" /\ operation'[v].usage = "running" => u = v
    BY <1>6, DBParts
  <2> QED
    BY <2>1, <2>2, <2>3 DEF WindowsSound
<1> QED
  BY <1>14, <1>15, <1>16, <1>17, <1>18, DBParts DEF DBInv, DBKept

-----------------------------------------------------------------------------
(* The invocations and the money.                                            *)

\* The parts of SummaryInv, one by one.
LEMMA InvParts ==
    ASSUME SummaryInv
    PROVE  /\ DBInv /\ MoneySound /\ PageWaits
           /\ due \in 0..WindowCount /\ faults \in 0..MaxFaults
           /\ receipt \in [Tickets -> ReceiptRows] /\ provider \in [Tickets -> ProviderRows]
           /\ page \in Pages /\ slot \in [Slots -> SlotRows]
           /\ \A q \in Slots : slot[q] \in SlotRows /\ SlotSound(slot[q], operation)
<1>1. SummaryTypeOK /\ LedgerSound /\ WindowsSound
  BY DEF SummaryInv
<1>2. DBInv
  BY <1>1 DEF DBInv, SummaryTypeOK, Runs, WindowRows, OperationRows
<1>3. /\ due \in 0..WindowCount /\ faults \in 0..MaxFaults
      /\ receipt \in [Tickets -> ReceiptRows] /\ provider \in [Tickets -> ProviderRows]
  BY <1>1 DEF SummaryTypeOK, ReceiptRows, ProviderRows
<1>4. page \in Pages /\ slot \in [Slots -> SlotRows]
  BY <1>1 DEF SummaryTypeOK, Pages, SlotRows
<1> QED
  BY <1>2, <1>3, <1>4 DEF SummaryInv

\* The parts give SummaryInv in the next state.
LEMMA InvFromParts ==
    ASSUME DBInv', MoneySound', PageWaits', due' \in 0..WindowCount, faults' \in 0..MaxFaults,
           receipt' \in [Tickets -> ReceiptRows], provider' \in [Tickets -> ProviderRows],
           page' \in Pages, slot' \in [Slots -> SlotRows],
           \A q \in Slots : SlotSound(slot'[q], operation')
    PROVE  SummaryInv'
<1>1. /\ open' \in BOOLEAN /\ run' \in Runs
      /\ window' \in [Windows -> WindowRows] /\ operation' \in [Tickets -> OperationRows]
      /\ LedgerSound' /\ WindowsSound'
  BY DEF DBInv
<1>2. SummaryTypeOK'
  BY <1>1 DEF SummaryTypeOK, Runs, WindowRows, OperationRows, ReceiptRows, ProviderRows,
              Pages, SlotRows
<1> QED
  BY <1>1, <1>2 DEF SummaryInv

\* What an invocation relies on is not taken back.
LEMMA SoundForward ==
    ASSUME LedgerForward, NEW s, SlotSound(s, operation)
    PROVE  SlotSound(s, operation')
BY DEF LedgerForward, SlotSound

\* The number of faults stays in its bound.
LEMMA FaultsBounded ==
    ASSUME faults \in 0..MaxFaults, Fault \/ NoFault
    PROVE  faults' \in 0..MaxFaults
BY Bounds DEF Fault, NoFault

\* An invocation slot that is free.
LEMMA IdleFacts ==
    /\ IdleSlot \in SlotRows /\ IdleSlot.pc = "idle" /\ IdleSlot.own = FALSE
    /\ NoToken \in Tokens /\ NoToken.run = 0 /\ IdleSlot.sources \in Sources
    /\ \A ledger : Quiet(IdleSlot, ledger)
<1>1. NoToken \in Tokens /\ NoToken.run = 0
  BY Bounds DEF NoToken, Tokens
<1>2. (CHOOSE s \in Sources : TRUE) \in Sources
  BY Bounds
<1>3. /\ IdleSlot \in SlotRows /\ IdleSlot.pc = "idle" /\ IdleSlot.own = FALSE
      /\ IdleSlot.sources \in Sources
  BY <1>1, <1>2 DEF IdleSlot, SlotRows
<1> QED
  BY <1>1, <1>3 DEF Quiet, SlotSound

\* Invocations that move without asking the model keep the invariant with a step of the database
\* that settles only what was not paid for as free.
LEMMA QuietKeeps ==
    ASSUME SummaryInv, DBKept, FreeIsUnbilled, UNCHANGED provider,
           slot' \in [Slots -> SlotRows],
           \A q \in Slots : slot'[q] = slot[q] \/ Quiet(slot'[q], operation'),
           due' \in 0..WindowCount, faults' \in 0..MaxFaults,
           receipt' \in [Tickets -> ReceiptRows], page' \in Pages, PageWaits'
    PROVE  Kept
<1>1. DBInv' /\ LedgerForward /\ SummariesStep
  BY DEF DBKept
<1>2. \A q \in Slots : SlotSound(slot'[q], operation')
  BY <1>1, InvParts, SoundForward DEF Quiet
<1>3. ASSUME NEW q \in Slots
      PROVE  /\ slot'[q].pc = "provider" => slot'[q] = slot[q]
             /\ slot'[q].pc = "fail" /\ slot'[q].outcome = "released" => slot'[q] = slot[q]
  BY DEF Quiet
<1>4. ASSUME NEW t, Unbilled(t) PROVE Unbilled(t)'
  BY <1>3, <1>4 DEF Unbilled
<1>5. MoneySound
  BY InvParts
<1>6. MoneySound'
  <2>1. ASSUME NEW t \in Tickets
        PROVE  /\ provider'[t].asked <= 1
               /\ operation'[t].dispatch = "none" => provider'[t].asked = 0 /\ Unbilled(t)'
               /\ operation'[t].settled = "released" => Unbilled(t)'
    <3>1. /\ provider[t].asked <= 1
          /\ operation[t].dispatch = "none" => provider[t].asked = 0 /\ Unbilled(t)
          /\ operation[t].settled = "released" => Unbilled(t)
      BY <1>5 DEF MoneySound
    <3>2. operation'[t].dispatch = "none" => operation[t].dispatch = "none"
      BY <1>1 DEF LedgerForward
    <3>3. operation'[t].settled = "released" => operation[t].settled = "released" \/ Unbilled(t)
      BY DEF FreeIsUnbilled
    <3> QED
      BY <1>4, <3>1, <3>2, <3>3
  <2>2. ASSUME NEW r \in Slots
        PROVE  /\ slot'[r].pc = "provider" => ~provider'[slot'[r].ticket].billed
               /\ slot'[r].pc = "fail" /\ slot'[r].outcome = "released" =>
                     Unbilled(slot[r].ticket)'
    <3>1. CASE slot'[r].pc = "provider"
      <4>1. slot'[r] = slot[r]
        BY <1>3, <3>1
      <4>2. ~provider[slot[r].ticket].billed
        BY <1>5, <3>1, <4>1 DEF MoneySound
      <4> QED
        BY <3>1, <4>1, <4>2
    <3>2. CASE slot'[r].pc = "fail" /\ slot'[r].outcome = "released"
      <4>1. slot'[r] = slot[r]
        BY <1>3, <3>2
      <4>2. PICK t : t = slot[r].ticket
        OBVIOUS
      <4>3. Unbilled(t)
        BY <1>5, <3>2, <4>1, <4>2 DEF MoneySound
      <4>4. Unbilled(t)'
        BY <1>4, <4>3
      <4> QED
        BY <3>2, <4>1, <4>2, <4>4
    <3> QED
      BY <3>1, <3>2
  <2>3. ASSUME NEW r \in Slots, NEW q \in Slots, slot'[r].pc = "provider",
               slot'[q].pc = "provider", slot'[r].ticket = slot'[q].ticket
        PROVE  r = q
    BY <1>3, <1>5, <2>3 DEF MoneySound
  <2> QED
    BY <2>1, <2>2, <2>3 DEF MoneySound
<1> QED
  BY <1>1, <1>2, <1>6, InvFromParts, InvParts DEF Kept

\* One invocation that moves, while its page waits or turns to it later.
LEMMA WorksKeeps ==
    ASSUME SummaryInv, DBKept, FreeIsUnbilled, NEW r \in Slots, Works(r),
           UNCHANGED <<due, provider, page>>,
           receipt' \in [Tickets -> ReceiptRows], Fault \/ NoFault
    PROVE  Kept
<1>1. \A q \in Slots : slot'[q] = slot[q] \/ Quiet(slot'[q], operation')
  BY DEF Works
<1>2. slot' \in [Slots -> SlotRows] /\ faults' \in 0..MaxFaults
  BY InvParts, FaultsBounded DEF Works
<1>3. PageWaits'
  <2>1. page' = page /\ page \in Pages /\ (page.waiting # NoSlot => slot[page.waiting].pc # "idle")
    BY InvParts DEF PageWaits
  <2>2. page.waiting \in Slots \cup {NoSlot}
    BY <2>1 DEF Pages
  <2>3. page.waiting # NoSlot => slot'[page.waiting].pc # "idle"
    BY <2>1, <2>2 DEF Works
  <2> QED
    BY <2>1, <2>3 DEF PageWaits
<1> QED
  BY <1>1, <1>2, <1>3, InvParts, QuietKeeps

\* A ledger that settles nothing as free settles as free only what was not paid for.
LEMMA NothingIsFree ==
    ASSUME NothingReleased
    PROVE  FreeIsUnbilled
BY DEF NothingReleased, FreeIsUnbilled

\* An invocation answers the page, or is gone because nobody waits.
LEMMA AnswerWorks ==
    ASSUME SummaryInv, LedgerForward, NEW r \in Slots, slot[r].pc # "idle",
           NEW outcome \in {"error", "final", "done"}, NEW seen \in SUBSET Windows,
           Answer(r, outcome, seen)
    PROVE  Works(r)
<1>1. slot \in [Slots -> SlotRows] /\ slot[r] \in SlotRows /\ SlotSound(slot[r], operation')
  BY InvParts, SoundForward
<1>2. CASE page.waiting # r
  <2>1. slot' = [slot EXCEPT ![r] = IdleSlot]
    BY <1>2 DEF Answer
  <2>2. slot'[r] = IdleSlot /\ slot' \in [Slots -> SlotRows]
    BY <1>1, <2>1, IdleFacts
  <2>3. \A q \in Slots : q # r => slot'[q] = slot[q]
    BY <1>1, <2>1
  <2>4. Quiet(slot'[r], operation')
    BY <2>2, IdleFacts
  <2> QED
    BY <1>2, <2>2, <2>3, <2>4 DEF Works
<1>3. CASE page.waiting = r
  <2>1. PICK old : old = slot[r]
    OBVIOUS
  <2>2. PICK first : first = [old EXCEPT !.pc = "answered"]
    OBVIOUS
  <2>3. first \in SlotRows /\ first.pc = "answered" /\ first.ticket = old.ticket
        /\ first.own = old.own
    BY <1>1, <2>1, <2>2 DEF SlotRows
  <2>4. PICK second : second = [first EXCEPT !.outcome = outcome]
    OBVIOUS
  <2>5. second \in SlotRows /\ second.pc = first.pc /\ second.ticket = first.ticket
        /\ second.own = first.own
    BY <2>3, <2>4 DEF SlotRows
  <2>6. PICK new : new = [second EXCEPT !.seen = seen]
    OBVIOUS
  <2>7. new \in SlotRows /\ new.pc = second.pc /\ new.ticket = second.ticket
        /\ new.own = second.own
    BY <2>5, <2>6 DEF SlotRows
  <2>8. slot' = [slot EXCEPT ![r] = new]
    BY <1>3, <2>1, <2>2, <2>4, <2>6 DEF Answer
  <2>9. slot'[r] = new /\ slot' \in [Slots -> SlotRows]
    BY <1>1, <2>7, <2>8
  <2>10. \A q \in Slots : q # r => slot'[q] = slot[q]
    BY <1>1, <2>8
  <2>11. Quiet(new, operation')
    BY <1>1, <2>1, <2>3, <2>5, <2>7 DEF Quiet, SlotSound
  <2> QED
    BY <2>3, <2>5, <2>7, <2>9, <2>10, <2>11 DEF Works
<1> QED
  BY <1>2, <1>3

\* An invocation answers with an error.
LEMMA RefuseWorks ==
    ASSUME SummaryInv, LedgerForward, NEW r \in Slots, slot[r].pc # "idle", Refuse(r)
    PROVE  Works(r)
BY AnswerWorks DEF Refuse

\* An invocation goes on to start its operation, or to claim the dispatch of a started one.
LEMMA GotoWorks ==
    ASSUME SummaryInv, LedgerForward, NEW r \in Slots, slot[r].pc # "idle",
           NEW pc \in {"start", "claim"}, NEW own \in BOOLEAN,
           pc = "claim" => operation'[slot[r].ticket].usage # "none",
           own => slot[r].own \/ pc = "claim",
           slot' = [slot EXCEPT ![r].pc = pc, ![r].own = own]
    PROVE  Works(r)
<1>1. slot \in [Slots -> SlotRows] /\ slot[r] \in SlotRows /\ SlotSound(slot[r], operation')
  BY InvParts, SoundForward
<1>2. PICK old : old = slot[r]
  OBVIOUS
<1>3. PICK first : first = [old EXCEPT !.pc = pc]
  OBVIOUS
<1>4. first \in SlotRows /\ first.pc = pc /\ first.ticket = old.ticket
  BY <1>1, <1>2, <1>3 DEF SlotRows
<1>5. PICK new : new = [first EXCEPT !.own = own]
  OBVIOUS
<1>6. new \in SlotRows /\ new.pc = first.pc /\ new.ticket = first.ticket /\ new.own = own
  BY <1>4, <1>5 DEF SlotRows
<1>7. slot' = [slot EXCEPT ![r] = new]
  BY <1>1, <1>2, <1>3, <1>5
<1>8. slot'[r] = new /\ slot' \in [Slots -> SlotRows]
  BY <1>1, <1>6, <1>7
<1>9. \A q \in Slots : q # r => slot'[q] = slot[q]
  BY <1>1, <1>7
<1>10. old.ticket \in Tickets
  BY <1>1, <1>2 DEF SlotSound
<1>11. Quiet(new, operation')
  BY <1>1, <1>2, <1>4, <1>6, <1>10 DEF Quiet, SlotSound
<1> QED
  BY <1>4, <1>6, <1>8, <1>9, <1>11 DEF Works

\* An invocation goes on as it is.
LEMMA GotoIsMove ==
    ASSUME SummaryInv, NEW r \in Slots, NEW pc, Goto(r, pc)
    PROVE  slot' = [slot EXCEPT ![r].pc = pc, ![r].own = slot[r].own]
<1>1. slot \in [Slots -> SlotRows]
  BY InvParts
<1>2. PICK old : old = slot[r]
  OBVIOUS
<1>3. PICK first : first = [old EXCEPT !.pc = pc]
  OBVIOUS
<1>4. first = [first EXCEPT !.own = old.own]
  <2>1. old \in SlotRows
    BY <1>1, <1>2
  <2> QED
    BY <1>3, <2>1 DEF SlotRows
<1>5. slot' = [slot EXCEPT ![r] = first]
  BY <1>1, <1>2, <1>3 DEF Goto
<1> QED
  BY <1>1, <1>2, <1>3, <1>4, <1>5

\* An invocation that owns its operation is about to record a failure, another one is refused.
LEMMA CatchWorks ==
    ASSUME SummaryInv, LedgerForward, NEW r \in Slots, slot[r].pc # "idle",
           NEW charge \in {"none", "actual"},
           charge # "none" => operation'[slot[r].ticket].dispatch # "none",
           Catch(r, charge)
    PROVE  Works(r)
<1>1. slot \in [Slots -> SlotRows] /\ slot[r] \in SlotRows /\ SlotSound(slot[r], operation')
  BY InvParts, SoundForward
<1>2. CASE ~slot[r].own
  BY <1>2, RefuseWorks DEF Catch
<1>3. CASE slot[r].own
  <2>1. PICK old : old = slot[r]
    OBVIOUS
  <2>2. PICK first : first = [old EXCEPT !.pc = "fail"]
    OBVIOUS
  <2>3. first \in SlotRows /\ first.pc = "fail" /\ first.ticket = old.ticket
        /\ first.own = old.own
    BY <1>1, <2>1, <2>2 DEF SlotRows
  <2>4. PICK new : new = [first EXCEPT !.outcome = charge]
    OBVIOUS
  <2>5. new \in SlotRows /\ new.pc = first.pc /\ new.ticket = first.ticket
        /\ new.own = first.own /\ new.outcome = charge
    BY <2>3, <2>4 DEF SlotRows
  <2>6. slot' = [slot EXCEPT ![r] = new]
    BY <1>1, <1>3, <2>1, <2>2, <2>4 DEF Catch
  <2>7. slot'[r] = new /\ slot' \in [Slots -> SlotRows]
    BY <1>1, <2>5, <2>6
  <2>8. \A q \in Slots : q # r => slot'[q] = slot[q]
    BY <1>1, <2>6
  <2>9. Quiet(new, operation')
    BY <1>1, <1>3, <2>1, <2>3, <2>5 DEF Quiet, SlotSound, Charges
  <2> QED
    BY <2>3, <2>5, <2>7, <2>8, <2>9 DEF Works
<1> QED
  BY <1>2, <1>3

-----------------------------------------------------------------------------
(* The steps of an invocation.                                               *)

\* A step whose answer may be lost, and that ends with a summary nobody had to make.
LEMMA AcknowledgeWorks ==
    ASSUME SummaryInv, LedgerForward, NEW r \in Slots, slot[r].pc # "idle",
           Continues(Answer(r, "final", {}), Refuse(r))
    PROVE  Works(r) /\ (Fault \/ NoFault)
<1>1. (NoFault /\ Answer(r, "final", {})) \/ (Fault /\ Refuse(r))
  BY DEF Continues
<1> QED
  BY <1>1, AnswerWorks, RefuseWorks

\* A step whose answer may be lost, and that goes on.
LEMMA ContinueWorks ==
    ASSUME SummaryInv, LedgerForward, NEW r \in Slots, slot[r].pc # "idle",
           NEW pc \in {"start", "claim"},
           pc = "claim" => operation'[slot[r].ticket].usage # "none",
           Continues(Goto(r, pc), Refuse(r))
    PROVE  Works(r) /\ (Fault \/ NoFault)
<1>1. (NoFault /\ Goto(r, pc)) \/ (Fault /\ Refuse(r))
  BY DEF Continues
<1>2. CASE Fault /\ Refuse(r)
  BY <1>2, RefuseWorks
<1>3. CASE NoFault /\ Goto(r, pc)
  <2>1. PICK own : own = slot[r].own
    OBVIOUS
  <2>2. own \in BOOLEAN
    BY <2>1, InvParts DEF SlotRows
  <2>3. slot' = [slot EXCEPT ![r].pc = pc, ![r].own = own]
    BY <1>3, <2>1, GotoIsMove
  <2>4. Works(r)
    BY <2>1, <2>2, <2>3, GotoWorks
  <2> QED
    BY <1>3, <2>4
<1> QED
  BY <1>1, <1>2, <1>3

\* The dispatches whose lease ended are settled as charged.
LEMMA SettleStaleKeeps ==
    ASSUME DBInv, NEW S \in SUBSET Stale, SettleStale(S), UNCHANGED <<open, run>>
    PROVE  DBKept /\ NothingReleased
<1>1. S \in SUBSET Tickets /\ \A t \in S : operation[t].usage # "none"
  BY DBParts DEF Stale
<1>2. Ends(S, "failed", "conservative", "failed")
  BY DEF SettleStale
<1>3. PICK charge : charge = "conservative"
  OBVIOUS
<1>4. charge \in Charges /\ Ends(S, "failed", charge, "failed")
  BY <1>2, <1>3 DEF Charges
<1>5. /\ DBKept
      /\ \A t \in Tickets :
            operation'[t].settled = "released" =>
               operation[t].settled = "released" \/ (t \in S /\ charge = "released")
  BY <1>1, <1>4, EndsKeeps
<1> QED
  BY <1>3, <1>5 DEF NothingReleased

\* PrepareReplay keeps the invariant: only a start nobody was asked for is released.
LEMMA PrepareReplayKeeps ==
    ASSUME SummaryInv, NEW r \in Slots, PrepareReplay(r)
    PROVE  Kept
<1>1. PICK t : t = slot[r].ticket
  OBVIOUS
<1>2. /\ slot[r].pc = "prepare" /\ Replay(r, t)
      /\ UNCHANGED <<open, due, run, receipt, provider, page>>
  BY <1>1 DEF PrepareReplay
<1>3. t \in Tickets
  BY <1>1, <1>2, InvParts DEF SlotSound
<1>4. PICK S : S = {u \in {t} : operation[u].usage = "running" /\ operation[u].dispatch = "none"}
  OBVIOUS
<1>5. \/ Refuse(r) /\ NoFault /\ UNCHANGED <<window, operation>>
      \/ Continues(Answer(r, "final", {}), Refuse(r)) /\ UNCHANGED <<window, operation>>
      \/ Continues(Goto(r, "start"), Refuse(r)) /\ UNCHANGED <<window, operation>>
      \/ Refuse(r) /\ NoFault /\ Ends(S, "failed", "released", "failed")
  BY <1>2, <1>4 DEF Replay
<1>6. receipt' \in [Tickets -> ReceiptRows] /\ UNCHANGED <<due, provider, page>>
  BY <1>2, InvParts
<1>7. CASE UNCHANGED <<window, operation>>
  <2>1. DBKept /\ NothingReleased
    BY <1>2, <1>7, DBStays, InvParts
  <2>2. LedgerForward
    BY <2>1 DEF DBKept
  <2>3. \/ Refuse(r) /\ NoFault
        \/ Continues(Answer(r, "final", {}), Refuse(r))
        \/ Continues(Goto(r, "start"), Refuse(r))
    BY <1>5
  <2>4. Works(r) /\ (Fault \/ NoFault)
    <3>1. CASE Refuse(r) /\ NoFault
      BY <1>2, <2>2, <3>1, RefuseWorks
    <3>2. CASE Continues(Answer(r, "final", {}), Refuse(r))
      BY <1>2, <2>2, <3>2, AcknowledgeWorks
    <3>3. CASE Continues(Goto(r, "start"), Refuse(r))
      BY <1>2, <2>2, <3>3, ContinueWorks
    <3> QED
      BY <2>3, <3>1, <3>2, <3>3
  <2> QED
    BY <1>6, <2>1, <2>4, NothingIsFree, WorksKeeps
<1>8. CASE Refuse(r) /\ NoFault /\ Ends(S, "failed", "released", "failed")
  <2>1. S \in SUBSET Tickets /\ \A u \in S : operation[u].usage # "none"
    BY <1>3, <1>4
  <2>2. "released" \in Charges
    BY DEF Charges
  <2>3. /\ DBKept
        /\ \A u \in Tickets :
              operation'[u].settled = "released" => operation[u].settled = "released" \/ u \in S
    BY <1>2, <1>8, <2>1, <2>2, EndsKeeps, InvParts
  <2>4. \A u \in S : Unbilled(u)
    BY <1>3, <1>4, InvParts DEF MoneySound
  <2>5. FreeIsUnbilled
    BY <2>3, <2>4 DEF FreeIsUnbilled
  <2>6. Works(r)
    BY <1>2, <1>8, <2>3, RefuseWorks DEF DBKept
  <2> QED
    BY <1>6, <1>8, <2>3, <2>5, <2>6, WorksKeeps
<1> QED
  BY <1>5, <1>7, <1>8

\* The receipt for what was decided about new ids.
LEMMA RecordTyped ==
    ASSUME SummaryInv, NEW r \in Slots, NEW t \in Tickets,
           NEW result \in {"prepared", "skipped", "final"}, NEW attempts \in 0..MaxAttempts,
           Record(r, t, result, attempts)
    PROVE  receipt' \in [Tickets -> ReceiptRows]
<1>1. PICK new : new = [result |-> result, token |-> slot[r].token, sources |-> slot[r].sources,
                        expected |-> attempts, fresh |-> result = "prepared"]
  OBVIOUS
<1>2. slot[r].token \in Tokens /\ slot[r].sources \in Sources
  BY InvParts DEF SlotRows
<1>3. new \in ReceiptRows
  BY <1>1, <1>2 DEF ReceiptRows
<1>4. receipt' = [receipt EXCEPT ![t] = new]
  BY <1>1 DEF Record
<1> QED
  BY <1>3, <1>4, InvParts

\* Prepare keeps the invariant.
LEMMA PrepareKeeps ==
    ASSUME SummaryInv, NEW r \in Slots, Prepare(r)
    PROVE  Kept
<1>1. PICK t, w : t = slot[r].ticket /\ w = t[1]
  OBVIOUS
<1>2. slot[r].pc = "prepare" /\ UNCHANGED <<open, due, run, operation, provider, page>>
  BY DEF Prepare
<1>3. t \in Tickets /\ w \in Windows
  BY <1>1, <1>2, InvParts, TicketFacts DEF SlotSound
<1>4. PICK row : row = IF window[w].status = "none"
                       THEN [window[w] EXCEPT !.status = "pending", !.run = run.token.run]
                       ELSE window[w]
  OBVIOUS
<1>5. /\ row \in WindowRows /\ row.attempts = window[w].attempts
      /\ row.operation = window[w].operation
      /\ row.status = IF window[w].status = "none" THEN "pending" ELSE window[w].status
  <2>1. window[w] \in WindowRows /\ run.token.run \in 0..MaxRuns
    BY <1>3, InvParts, DBParts DEF Runs, Tokens
  <2>2. CASE window[w].status # "none"
    BY <1>4, <2>1, <2>2
  <2>3. CASE window[w].status = "none"
    <3>1. PICK first : first = [window[w] EXCEPT !.status = "pending"]
      OBVIOUS
    <3>2. first \in WindowRows /\ first.status = "pending" /\ first.attempts = window[w].attempts
          /\ first.operation = window[w].operation
      BY <2>1, <3>1 DEF WindowRows
    <3>3. row = [first EXCEPT !.run = run.token.run]
      BY <1>4, <2>3, <3>1
    <3>4. row \in WindowRows /\ row.status = first.status /\ row.attempts = first.attempts
          /\ row.operation = first.operation
      BY <2>1, <3>2, <3>3 DEF WindowRows
    <3> QED
      BY <2>3, <3>2, <3>4
  <2> QED
    BY <2>2, <2>3
<1>6. \/ /\ Record(r, t, "final", row.attempts)
         /\ Continues(Answer(r, "final", {}), Refuse(r)) /\ UNCHANGED window
      \/ Refuse(r) /\ NoFault /\ UNCHANGED <<window, receipt>>
      \/ /\ row.status \in {"pending", "failed"} /\ row.attempts < MaxAttempts
         /\ window' = [window EXCEPT ![w] = [row EXCEPT !.status = "skipped"]]
         /\ Record(r, t, "skipped", row.attempts)
         /\ Continues(Answer(r, "final", {}), Refuse(r))
      \/ /\ row.status \in {"pending", "failed"} /\ row.attempts < MaxAttempts
         /\ window' = [window EXCEPT ![w] = row]
         /\ Record(r, t, "prepared", row.attempts + 1)
         /\ Continues(Goto(r, "start"), Refuse(r))
  BY <1>1, <1>4, Zenon DEF Prepare
<1>7. row.attempts \in 0..MaxAttempts
  BY <1>5 DEF WindowRows
<1>8. CASE /\ Record(r, t, "final", row.attempts)
           /\ Continues(Answer(r, "final", {}), Refuse(r)) /\ UNCHANGED window
  <2>1. DBKept /\ NothingReleased
    BY <1>2, <1>8, DBStays, InvParts
  <2>2. receipt' \in [Tickets -> ReceiptRows]
    BY <1>3, <1>7, <1>8, RecordTyped
  <2>3. Works(r) /\ (Fault \/ NoFault)
    BY <1>2, <1>8, <2>1, AcknowledgeWorks DEF DBKept
  <2> QED
    BY <1>2, <2>1, <2>2, <2>3, NothingIsFree, WorksKeeps
<1>9. CASE Refuse(r) /\ NoFault /\ UNCHANGED <<window, receipt>>
  <2>1. DBKept /\ NothingReleased
    BY <1>2, <1>9, DBStays, InvParts
  <2>2. receipt' \in [Tickets -> ReceiptRows]
    BY <1>9, InvParts
  <2>3. Works(r)
    BY <1>2, <1>9, <2>1, RefuseWorks DEF DBKept
  <2> QED
    BY <1>2, <1>9, <2>1, <2>2, <2>3, NothingIsFree, WorksKeeps
<1>10. CASE /\ row.status \in {"pending", "failed"} /\ row.attempts < MaxAttempts
            /\ window' = [window EXCEPT ![w] = [row EXCEPT !.status = "skipped"]]
            /\ Record(r, t, "skipped", row.attempts)
            /\ Continues(Answer(r, "final", {}), Refuse(r))
  <2>1. PICK new : new = [row EXCEPT !.status = "skipped"]
    OBVIOUS
  <2>2. /\ new \in WindowRows /\ new.status = "skipped" /\ new.attempts = row.attempts
        /\ new.operation = row.operation
    BY <1>5, <2>1 DEF WindowRows, Final
  <2>3. window' = [window EXCEPT ![w] = new]
    BY <1>10, <2>1
  <2>4. window[w].status \notin {"running"} \cup Final
    BY <1>5, <1>10 DEF Final
  <2>5. DBKept /\ NothingReleased
    BY <1>2, <1>3, <1>5, <2>2, <2>3, <2>4, RowKeeps, InvParts
  <2>6. receipt' \in [Tickets -> ReceiptRows]
    BY <1>3, <1>7, <1>10, RecordTyped
  <2>7. Works(r) /\ (Fault \/ NoFault)
    BY <1>2, <1>10, <2>5, AcknowledgeWorks DEF DBKept
  <2> QED
    BY <1>2, <2>5, <2>6, <2>7, NothingIsFree, WorksKeeps
<1>11. CASE /\ row.status \in {"pending", "failed"} /\ row.attempts < MaxAttempts
            /\ window' = [window EXCEPT ![w] = row]
            /\ Record(r, t, "prepared", row.attempts + 1)
            /\ Continues(Goto(r, "start"), Refuse(r))
  <2>1. window[w].status \notin {"running"} \cup Final
    BY <1>5, <1>11 DEF Final
  <2>2. DBKept /\ NothingReleased
    BY <1>2, <1>3, <1>5, <1>11, <2>1, RowKeeps, InvParts
  <2>3. PICK next : next = row.attempts + 1
    OBVIOUS
  <2>4. next \in 0..MaxAttempts
    BY <1>7, <1>11, <2>3 DEF MaxAttempts
  <2>5. receipt' \in [Tickets -> ReceiptRows]
    BY <1>3, <1>11, <2>3, <2>4, RecordTyped
  <2>6. Works(r) /\ (Fault \/ NoFault)
    BY <1>2, <1>11, <2>2, ContinueWorks DEF DBKept
  <2> QED
    BY <1>2, <2>2, <2>5, <2>6, NothingIsFree, WorksKeeps
<1> QED
  BY <1>6, <1>8, <1>9, <1>10, <1>11

\* StartReplay keeps the invariant: the operation it goes on with was started.
LEMMA StartReplayKeeps ==
    ASSUME SummaryInv, NEW r \in Slots, StartReplay(r)
    PROVE  Kept
<1>1. /\ slot[r].pc = "start" /\ operation[slot[r].ticket].usage # "none"
      /\ Continues(Goto(r, "claim"), Refuse(r))
      /\ UNCHANGED <<open, due, run, window, receipt, operation, provider, page>>
  BY DEF StartReplay, database
<1>2. DBKept /\ NothingReleased
  BY <1>1, DBStays, InvParts
<1>3. Works(r) /\ (Fault \/ NoFault)
  BY <1>1, <1>2, ContinueWorks DEF DBKept
<1>4. receipt' \in [Tickets -> ReceiptRows]
  BY <1>1, InvParts
<1> QED
  BY <1>1, <1>2, <1>3, <1>4, NothingIsFree, WorksKeeps

\* Start keeps the invariant: a window that waits gets its one operation.
LEMMA StartActionKeeps ==
    ASSUME SummaryInv, NEW r \in Slots, Start(r)
    PROVE  Kept
<1>1. PICK t : t = slot[r].ticket
  OBVIOUS
<1>2. /\ slot[r].pc = "start" /\ operation[t].usage = "none"
      /\ UNCHANGED <<open, due, run, receipt, provider, page>>
  BY <1>1 DEF Start
<1>3. t \in Tickets
  BY <1>1, <1>2, InvParts DEF SlotSound
<1>4. receipt' \in [Tickets -> ReceiptRows]
  BY <1>2, InvParts
<1>5. CASE ~Startable(r)
  <2>1. Refuse(r) /\ NoFault /\ UNCHANGED <<operation, window>>
    BY <1>5 DEF Start
  <2>2. DBKept /\ NothingReleased
    BY <1>2, <2>1, DBStays, InvParts
  <2>3. Works(r)
    BY <1>2, <2>1, <2>2, RefuseWorks DEF DBKept
  <2> QED
    BY <1>2, <1>4, <2>1, <2>2, <2>3, NothingIsFree, WorksKeeps
<1>6. CASE Startable(r)
  <2>1. /\ operation' = [operation EXCEPT ![t].usage = "running"]
        /\ window' = [window EXCEPT ![t[1]] =
              [window[t[1]] EXCEPT !.status = "running",
                                   !.attempts = window[t[1]].attempts + 1, !.operation = t]]
        /\ Continues(slot' = [slot EXCEPT ![r].pc = "claim", ![r].own = TRUE], Refuse(r))
    BY <1>1, <1>6 DEF Start
  <2>2. /\ RunLive /\ LaneFree /\ window[t[1]].run = run.token.run
        /\ window[t[1]].status \in {"pending", "failed"}
        /\ window[t[1]].attempts + 1 = receipt[t].expected
    BY <1>1, <1>6 DEF Startable
  <2>3. window[t[1]].attempts + 1 <= MaxAttempts
    <3>1. receipt[t].expected \in 0..MaxAttempts
      BY <1>3, InvParts DEF ReceiptRows
    <3> QED
      BY <2>2, <3>1 DEF MaxAttempts
  <2>4. DBKept /\ NothingReleased /\ operation'[t].usage # "none"
    BY <1>2, <1>3, <2>1, <2>2, <2>3, StartKeeps, InvParts
  <2>5. \/ NoFault /\ slot' = [slot EXCEPT ![r].pc = "claim", ![r].own = TRUE]
        \/ Fault /\ Refuse(r)
    BY <2>1 DEF Continues
  <2>6. Works(r)
    <3>1. CASE Fault /\ Refuse(r)
      BY <1>2, <2>4, <3>1, RefuseWorks DEF DBKept
    <3>2. CASE slot' = [slot EXCEPT ![r].pc = "claim", ![r].own = TRUE]
      <4>1. LedgerForward
        BY <2>4 DEF DBKept
      <4>2. slot[r].pc # "idle"
        BY <1>2
      <4> QED
        BY <1>1, <2>4, <3>2, <4>1, <4>2, GotoWorks
    <3> QED
      BY <2>5, <3>1, <3>2
  <2> QED
    BY <1>2, <1>4, <2>4, <2>5, <2>6, NothingIsFree, WorksKeeps
<1> QED
  BY <1>5, <1>6

\* ClaimReplay keeps the invariant: a lease that ended is settled as charged.
LEMMA ClaimReplayKeeps ==
    ASSUME SummaryInv, NEW r \in Slots, ClaimReplay(r)
    PROVE  Kept
<1>1. PICK S : S = {slot[r].ticket} \cap Stale
  OBVIOUS
<1>2. /\ slot[r].pc = "claim" /\ SettleStale(S) /\ NoFault
      /\ Refuse(r) \/ Catch(r, "none")
      /\ UNCHANGED <<open, due, run, receipt, provider, page>>
  BY <1>1 DEF ClaimReplay
<1>3. S \in SUBSET Stale
  BY <1>1
<1>4. DBKept /\ NothingReleased
  BY <1>2, <1>3, SettleStaleKeeps, InvParts
<1>5. Works(r)
  <2>1. LedgerForward
    BY <1>4 DEF DBKept
  <2>2. CASE Refuse(r)
    BY <1>2, <2>1, <2>2, RefuseWorks
  <2>3. CASE Catch(r, "none")
    BY <1>2, <2>1, <2>3, CatchWorks
  <2> QED
    BY <1>2, <2>2, <2>3
<1>6. receipt' \in [Tickets -> ReceiptRows]
  BY <1>2, InvParts
<1> QED
  BY <1>2, <1>4, <1>5, <1>6, NothingIsFree, WorksKeeps

\* An invocation stops asking the model: the call may have cost something, or was free, and then
\* nobody else is asking for the same start.
LEMMA AskEndsKeeps ==
    ASSUME SummaryInv, NEW r \in Slots, slot[r].pc = "provider", NEW t, t = slot[r].ticket,
           NEW billed \in BOOLEAN, provider' = [provider EXCEPT ![t].billed = billed],
           slot' \in [Slots -> SlotRows], \A q \in Slots : q # r => slot'[q] = slot[q],
           SlotSound(slot'[r], operation'), slot'[r].pc # "provider",
           slot'[r].pc = "fail" /\ slot'[r].outcome = "released" =>
              slot'[r].ticket = t /\ ~billed,
           slot'[r].pc = "idle" => page.waiting # r,
           UNCHANGED <<open, due, run, window, receipt, operation, page>>, Fault \/ NoFault
    PROVE  Kept
<1>1. DBKept
  BY DBStays, InvParts
<1>2. t \in Tickets /\ MoneySound /\ provider \in [Tickets -> ProviderRows]
  BY InvParts DEF SlotSound
<1>3. ASSUME NEW u \in Tickets
      PROVE  /\ provider'[u].asked = provider[u].asked
             /\ provider'[u].billed = IF u = t THEN billed ELSE provider[u].billed
             /\ provider'[u] \in ProviderRows
  <2>1. provider[u] \in ProviderRows
    BY <1>2
  <2>2. PICK new : new = [provider[t] EXCEPT !.billed = billed]
    OBVIOUS
  <2>3. new \in ProviderRows /\ new.asked = provider[t].asked /\ new.billed = billed
    BY <1>2, <2>2 DEF ProviderRows
  <2>4. provider'[u] = IF u = t THEN new ELSE provider[u]
    BY <1>2, <2>2
  <2> QED
    BY <2>1, <2>3, <2>4
<1>4. provider' \in [Tickets -> ProviderRows]
  <2>1. provider' \in [Tickets -> {provider'[u] : u \in Tickets}]
    BY <1>2
  <2> QED
    BY <1>3, <2>1
<1>5. ASSUME NEW q \in Slots, slot'[q].pc = "provider"
      PROVE  q # r /\ slot'[q] = slot[q] /\ slot[q].ticket # t
  BY <1>2, <1>5 DEF MoneySound
<1>6. ASSUME NEW u \in Tickets, u # t, Unbilled(u) PROVE Unbilled(u)'
  BY <1>3, <1>5, <1>6 DEF Unbilled
<1>7. ~billed => Unbilled(t)'
  BY <1>2, <1>3, <1>5 DEF Unbilled
<1>8. ~Unbilled(t)
  BY DEF Unbilled
<1>9. MoneySound'
  <2>1. ASSUME NEW u \in Tickets
        PROVE  /\ provider'[u].asked <= 1
               /\ operation'[u].dispatch = "none" => provider'[u].asked = 0 /\ Unbilled(u)'
               /\ operation'[u].settled = "released" => Unbilled(u)'
    <3>1. /\ provider[u].asked <= 1
          /\ operation[u].dispatch = "none" => provider[u].asked = 0 /\ Unbilled(u)
          /\ operation[u].settled = "released" => Unbilled(u)
      BY <1>2 DEF MoneySound
    <3> QED
      BY <1>3, <1>6, <1>8, <3>1
  <2>2. ASSUME NEW q \in Slots, slot'[q].pc = "provider"
        PROVE  ~provider'[slot'[q].ticket].billed
    <3>1. slot'[q] = slot[q] /\ slot[q].ticket # t
      BY <1>5, <2>2
    <3>2. slot[q].ticket \in Tickets
      BY <2>2, <3>1, InvParts DEF SlotSound
    <3>3. ~provider[slot[q].ticket].billed
      BY <1>2, <2>2, <3>1 DEF MoneySound
    <3> QED
      BY <1>3, <3>1, <3>2, <3>3
  <2>3. ASSUME NEW q \in Slots, slot'[q].pc = "fail", slot'[q].outcome = "released"
        PROVE  Unbilled(slot[q].ticket)'
    <3>1. PICK u : u = slot'[q].ticket
      OBVIOUS
    <3>2. Unbilled(u)'
      <4>1. CASE q = r
        BY <1>7, <2>3, <3>1, <4>1
      <4>2. CASE q # r
        <5>1. slot'[q] = slot[q]
          BY <4>2
        <5>2. u \in Tickets
          BY <2>3, <3>1, <5>1, InvParts DEF SlotSound
        <5>3. Unbilled(u)
          BY <1>2, <2>3, <3>1, <5>1 DEF MoneySound
        <5> QED
          BY <1>6, <1>8, <5>2, <5>3
      <4> QED
        BY <4>1, <4>2
    <3> QED
      BY <3>1, <3>2
  <2>4. ASSUME NEW p \in Slots, NEW q \in Slots, slot'[p].pc = "provider",
               slot'[q].pc = "provider", slot'[p].ticket = slot'[q].ticket
        PROVE  p = q
    BY <1>2, <1>5, <2>4 DEF MoneySound
  <2> QED
    BY <2>1, <2>2, <2>3, <2>4 DEF MoneySound
<1>10. \A q \in Slots : SlotSound(slot'[q], operation')
  BY InvParts
<1>11. PageWaits'
  <2>1. page' = page /\ (page.waiting # NoSlot => slot[page.waiting].pc # "idle")
        /\ page.waiting \in Slots \cup {NoSlot}
    BY InvParts DEF PageWaits, Pages
  <2>2. page.waiting # NoSlot => slot'[page.waiting].pc # "idle"
    BY <2>1
  <2> QED
    BY <2>1, <2>2 DEF PageWaits
<1>12. /\ due' \in 0..WindowCount /\ faults' \in 0..MaxFaults
       /\ receipt' \in [Tickets -> ReceiptRows] /\ page' \in Pages
  BY InvParts, FaultsBounded
<1>13. DBInv' /\ SummariesStep
  BY <1>1 DEF DBKept
<1> QED
  BY <1>4, <1>9, <1>10, <1>11, <1>12, <1>13, InvFromParts DEF Kept

\* The model is asked for a start nobody has asked for.
LEMMA AskKeeps ==
    ASSUME SummaryInv, NEW r \in Slots, NEW t, t = slot[r].ticket, slot[r].pc = "claim",
           operation[t].dispatch = "none", operation[t].usage = "running",
           operation' = [operation EXCEPT ![t].dispatch = "leased"],
           provider' = [provider EXCEPT ![t].asked = 1],
           slot' = [slot EXCEPT ![r].pc = "provider", ![r].own = TRUE],
           UNCHANGED <<open, due, run, window, receipt, page, faults>>
    PROVE  Kept
<1>1. t \in Tickets /\ MoneySound /\ provider \in [Tickets -> ProviderRows]
  BY InvParts DEF SlotSound
<1>2. PICK dispatch : dispatch = "leased"
  OBVIOUS
<1>3. DBKept /\ NothingReleased /\ operation'[t].dispatch = "leased"
  BY <1>1, <1>2, DispatchKeeps, InvParts
<1>4. LedgerForward
  BY <1>3 DEF DBKept
<1>5. provider[t].asked = 0 /\ ~provider[t].billed
      /\ \A q \in Slots : slot[q].pc = "provider" => slot[q].ticket # t
  BY <1>1 DEF MoneySound, Unbilled
<1>6. ASSUME NEW u \in Tickets
      PROVE  /\ provider'[u].asked = IF u = t THEN 1 ELSE provider[u].asked
             /\ provider'[u].billed = provider[u].billed
             /\ provider'[u] \in ProviderRows
  <2>1. provider[u] \in ProviderRows /\ provider[t] \in ProviderRows
    BY <1>1
  <2>2. PICK new : new = [provider[t] EXCEPT !.asked = 1]
    OBVIOUS
  <2>3. new \in ProviderRows /\ new.asked = 1 /\ new.billed = provider[t].billed
    <3>1. 1 \in 0..MaxAttempts
      BY DEF MaxAttempts
    <3> QED
      BY <2>1, <2>2, <3>1 DEF ProviderRows
  <2>4. CASE u = t
    <3>1. provider'[u] = new
      BY <1>1, <2>2, <2>4
    <3> QED
      BY <2>3, <2>4, <3>1
  <2>5. CASE u # t
    <3>1. provider'[u] = provider[u]
      BY <1>1, <2>5
    <3> QED
      BY <2>1, <2>5, <3>1
  <2> QED
    BY <2>4, <2>5
<1>7. provider' \in [Tickets -> ProviderRows]
  <2>1. provider' \in [Tickets -> {provider'[u] : u \in Tickets}]
    BY <1>1
  <2> QED
    BY <1>6, <2>1
<1>8. slot \in [Slots -> SlotRows] /\ slot[r] \in SlotRows
  BY InvParts
<1>9. PICK new :
         /\ slot' = [slot EXCEPT ![r] = new]
         /\ new \in SlotRows /\ new.pc = "provider" /\ new.ticket = t
  <2>1. PICK first : first = [slot[r] EXCEPT !.pc = "provider"]
    OBVIOUS
  <2>2. first \in SlotRows /\ first.pc = "provider" /\ first.ticket = t
    BY <1>8, <2>1 DEF SlotRows
  <2>3. PICK second : second = [first EXCEPT !.own = TRUE]
    OBVIOUS
  <2>4. second \in SlotRows /\ second.pc = first.pc /\ second.ticket = first.ticket
    BY <2>2, <2>3 DEF SlotRows
  <2>5. slot' = [slot EXCEPT ![r] = second]
    BY <1>8, <2>1, <2>3
  <2> QED
    BY <2>2, <2>4, <2>5
<1>10. slot' \in [Slots -> SlotRows] /\ slot'[r] = new
       /\ \A q \in Slots : q # r => slot'[q] = slot[q]
  BY <1>8, <1>9
<1>11. SlotSound(new, operation')
  <2>1. operation'[t].usage # "none" /\ operation'[t].dispatch # "none"
    BY <1>1, <1>3, <1>4 DEF LedgerForward
  <2> QED
    BY <1>1, <1>9, <2>1 DEF SlotSound
<1>12. \A q \in Slots : SlotSound(slot'[q], operation')
  BY <1>4, <1>10, <1>11, InvParts, SoundForward
<1>13. ASSUME NEW u \in Tickets, u # t, Unbilled(u) PROVE Unbilled(u)'
  BY <1>6, <1>9, <1>10, <1>13 DEF Unbilled
<1>14. ASSUME NEW u \in Tickets
       PROVE  /\ operation'[u].settled = operation[u].settled
              /\ u # t => operation'[u].dispatch = operation[u].dispatch
  BY <1>1, InvParts, DBParts DEF OperationRows
<1>15. operation[t].settled = "no"
  BY <1>1, InvParts, DBParts
<1>16. MoneySound'
  <2>1. ASSUME NEW u \in Tickets
        PROVE  /\ provider'[u].asked <= 1
               /\ operation'[u].dispatch = "none" => provider'[u].asked = 0 /\ Unbilled(u)'
               /\ operation'[u].settled = "released" => Unbilled(u)'
    <3>1. /\ provider[u].asked <= 1
          /\ operation[u].dispatch = "none" => provider[u].asked = 0 /\ Unbilled(u)
          /\ operation[u].settled = "released" => Unbilled(u)
      BY <1>1 DEF MoneySound
    <3>2. CASE u = t
      BY <1>3, <1>6, <1>14, <1>15, <3>2
    <3>3. CASE u # t
      BY <1>6, <1>13, <1>14, <3>1, <3>3
    <3> QED
      BY <3>2, <3>3
  <2>2. ASSUME NEW q \in Slots, slot'[q].pc = "provider"
        PROVE  ~provider'[slot'[q].ticket].billed
    <3>1. slot'[q].ticket \in Tickets
      BY <1>12, <2>2 DEF SlotSound
    <3>2. ~provider[slot'[q].ticket].billed
      <4>1. CASE q = r
        BY <1>5, <1>9, <1>10, <4>1
      <4>2. CASE q # r
        BY <1>1, <1>10, <2>2, <4>2 DEF MoneySound
      <4> QED
        BY <4>1, <4>2
    <3> QED
      BY <1>6, <3>1, <3>2
  <2>3. ASSUME NEW q \in Slots, slot'[q].pc = "fail", slot'[q].outcome = "released"
        PROVE  Unbilled(slot[q].ticket)'
    <3>1. PICK u : u = slot'[q].ticket
      OBVIOUS
    <3>2. slot'[q] = slot[q]
      BY <1>9, <1>10, <2>3
    <3>3. u \in Tickets /\ operation[u].dispatch # "none"
      BY <2>3, <3>1, <3>2, InvParts DEF SlotSound
    <3>4. Unbilled(u)
      BY <1>1, <2>3, <3>1, <3>2 DEF MoneySound
    <3>5. Unbilled(u)'
      BY <1>13, <3>3, <3>4
    <3> QED
      BY <3>1, <3>5
  <2>4. ASSUME NEW p \in Slots, NEW q \in Slots, slot'[p].pc = "provider",
               slot'[q].pc = "provider", slot'[p].ticket = slot'[q].ticket
        PROVE  p = q
    BY <1>1, <1>5, <1>9, <1>10, <2>4 DEF MoneySound
  <2> QED
    BY <2>1, <2>2, <2>3, <2>4 DEF MoneySound
<1>17. PageWaits'
  <2>1. page' = page /\ (page.waiting # NoSlot => slot[page.waiting].pc # "idle")
        /\ page.waiting \in Slots \cup {NoSlot}
    BY InvParts DEF PageWaits, Pages
  <2>2. page.waiting # NoSlot => slot'[page.waiting].pc # "idle"
    BY <1>9, <1>10, <2>1
  <2> QED
    BY <2>1, <2>2 DEF PageWaits
<1>18. /\ due' \in 0..WindowCount /\ faults' \in 0..MaxFaults
       /\ receipt' \in [Tickets -> ReceiptRows] /\ page' \in Pages
  BY InvParts
<1> QED
  BY <1>3, <1>7, <1>10, <1>12, <1>16, <1>17, <1>18, InvFromParts DEF Kept, DBKept

\* ClaimDispatch keeps the invariant: whoever takes the dispatch asks, or records its failure.
LEMMA ClaimDispatchKeeps ==
    ASSUME SummaryInv, NEW r \in Slots, ClaimDispatch(r)
    PROVE  Kept
<1>1. PICK t : t = slot[r].ticket
  OBVIOUS
<1>2. /\ slot[r].pc = "claim" /\ operation[t].dispatch = "none"
      /\ UNCHANGED <<open, due, run, window, receipt, page, faults>>
  BY <1>1 DEF ClaimDispatch
<1>3. t \in Tickets /\ receipt' \in [Tickets -> ReceiptRows]
  BY <1>1, <1>2, InvParts DEF SlotSound
<1>4. \/ /\ Claimable(t) /\ operation' = [operation EXCEPT ![t].dispatch = "leased"]
         /\ provider' = [provider EXCEPT ![t].asked = @ + 1]
         /\ slot' = [slot EXCEPT ![r].pc = "provider", ![r].own = TRUE]
      \/ /\ Claimable(t) /\ operation' = [operation EXCEPT ![t].dispatch = "leased"]
         /\ Catch(r, "none") /\ UNCHANGED provider
      \/ Catch(r, "none") /\ UNCHANGED <<operation, provider>>
  BY <1>1 DEF ClaimDispatch
<1>5. CASE /\ Claimable(t) /\ operation' = [operation EXCEPT ![t].dispatch = "leased"]
           /\ provider' = [provider EXCEPT ![t].asked = @ + 1]
           /\ slot' = [slot EXCEPT ![r].pc = "provider", ![r].own = TRUE]
  <2>1. operation[t].usage = "running"
    BY <1>5 DEF Claimable
  <2>2. PICK asked : asked = provider[t].asked + 1
    OBVIOUS
  <2>3. provider' = [provider EXCEPT ![t].asked = asked]
    BY <1>5, <2>2
  <2>4. provider[t].asked = 0
    BY <1>2, <1>3, InvParts DEF MoneySound
  <2>5. asked = 1
    BY <2>2, <2>4
  <2>6. provider' = [provider EXCEPT ![t].asked = 1]
    BY <2>3, <2>5
  <2> QED
    <3>1. slot[r].pc = "claim" /\ operation[t].dispatch = "none"
      BY <1>2
    <3>2. UNCHANGED <<open, due, run, window, receipt, page, faults>>
      BY <1>2
    <3>3. /\ operation' = [operation EXCEPT ![t].dispatch = "leased"]
          /\ slot' = [slot EXCEPT ![r].pc = "provider", ![r].own = TRUE]
      BY <1>5
    <3> QED
      BY <1>1, <2>1, <2>6, <3>1, <3>2, <3>3, AskKeeps
<1>6. CASE /\ Claimable(t) /\ operation' = [operation EXCEPT ![t].dispatch = "leased"]
           /\ Catch(r, "none") /\ UNCHANGED provider
  <2>1. PICK dispatch : dispatch = "leased"
    OBVIOUS
  <2>2. operation[t].usage # "none"
    BY <1>6 DEF Claimable
  <2>3. DBKept /\ NothingReleased
    BY <1>2, <1>3, <1>6, <2>1, <2>2, DispatchKeeps, InvParts
  <2>4. Works(r)
    BY <1>2, <1>6, <2>3, CatchWorks DEF DBKept
  <2> QED
    BY <1>2, <1>3, <1>6, <2>3, <2>4, NothingIsFree, WorksKeeps DEF NoFault
<1>7. CASE Catch(r, "none") /\ UNCHANGED <<operation, provider>>
  <2>1. DBKept /\ NothingReleased
    BY <1>2, <1>7, DBStays, InvParts
  <2>2. Works(r)
    BY <1>2, <1>7, <2>1, CatchWorks DEF DBKept
  <2> QED
    BY <1>2, <1>3, <1>7, <2>1, <2>2, NothingIsFree, WorksKeeps DEF NoFault
<1> QED
  BY <1>4, <1>5, <1>6, <1>7

\* The model's answer comes back: an output goes on to be saved, anything else is a failure of the
\* cost it had.
LEMMA ProviderAnswersKeeps ==
    ASSUME SummaryInv, NEW r \in Slots, ProviderAnswers(r)
    PROVE  Kept
<1>1. PICK t : t = slot[r].ticket
  OBVIOUS
<1>2. PICK answer \in {"output", "invalid", "rejected", "unknown"} :
         /\ provider' = [provider EXCEPT ![t].billed = @ \/ answer # "rejected"]
         /\ IF answer = "output"
            THEN Goto(r, "complete")
            ELSE slot' = [slot EXCEPT ![r].pc = "fail",
                    ![r].outcome = CASE answer = "invalid" -> "actual"
                                     [] answer = "rejected" -> "released"
                                     [] OTHER -> "conservative"]
  BY <1>1 DEF ProviderAnswers
<1>3. /\ slot[r].pc = "provider"
      /\ UNCHANGED <<open, due, run, window, receipt, operation, page, faults>>
  BY DEF ProviderAnswers, database
<1>4. slot \in [Slots -> SlotRows] /\ slot[r] \in SlotRows /\ SlotSound(slot[r], operation)
      /\ MoneySound
  BY InvParts
<1>5. t \in Tickets /\ operation[t].usage # "none" /\ operation[t].dispatch # "none"
  BY <1>1, <1>3, <1>4 DEF SlotSound
<1>6. PICK billed : billed = (provider[t].billed \/ answer # "rejected")
  OBVIOUS
<1>7. billed \in BOOLEAN
  <2>1. provider[t].billed \in BOOLEAN
    BY <1>5, InvParts DEF ProviderRows
  <2> QED
    BY <1>6, <2>1
<1>8. provider' = [provider EXCEPT ![t].billed = billed]
  BY <1>2, <1>6
<1>9. answer = "rejected" => ~billed
  BY <1>1, <1>3, <1>4, <1>6 DEF MoneySound
<1>10. PICK new :
          /\ slot' = [slot EXCEPT ![r] = new]
          /\ new \in SlotRows /\ new.ticket = t
          /\ \/ new.pc = "complete"
             \/ new.pc = "fail" /\ new.outcome \in Charges
                /\ (new.outcome = "released" => answer = "rejected")
  <2>1. CASE answer = "output"
    <3>1. PICK first : first = [slot[r] EXCEPT !.pc = "complete"]
      OBVIOUS
    <3>2. first \in SlotRows /\ first.pc = "complete" /\ first.ticket = t
      BY <1>1, <1>4, <3>1 DEF SlotRows
    <3>3. slot' = [slot EXCEPT ![r] = first]
      BY <1>2, <2>1, <3>1 DEF Goto
    <3> QED
      BY <3>2, <3>3
  <2>2. CASE answer # "output"
    <3>1. PICK charge : charge = CASE answer = "invalid" -> "actual"
                                   [] answer = "rejected" -> "released"
                                   [] OTHER -> "conservative"
      OBVIOUS
    <3>2. charge \in Charges /\ (charge = "released" => answer = "rejected")
      BY <1>2, <2>2, <3>1 DEF Charges
    <3>3. slot' = [slot EXCEPT ![r].pc = "fail", ![r].outcome = charge]
      BY <1>2, <2>2, <3>1
    <3>4. PICK first : first = [slot[r] EXCEPT !.pc = "fail"]
      OBVIOUS
    <3>5. first \in SlotRows /\ first.pc = "fail" /\ first.ticket = t
      BY <1>1, <1>4, <3>4 DEF SlotRows
    <3>6. PICK second : second = [first EXCEPT !.outcome = charge]
      OBVIOUS
    <3>7. second \in SlotRows /\ second.pc = first.pc /\ second.ticket = first.ticket
          /\ second.outcome = charge
      BY <3>2, <3>5, <3>6 DEF SlotRows, Charges
    <3>8. slot' = [slot EXCEPT ![r] = second]
      BY <1>4, <3>3, <3>4, <3>6
    <3> QED
      BY <3>2, <3>5, <3>7, <3>8
  <2> QED
    BY <2>1, <2>2
<1>11. slot'[r] = new /\ slot' \in [Slots -> SlotRows]
       /\ \A q \in Slots : q # r => slot'[q] = slot[q]
  BY <1>4, <1>10
<1>12. SlotSound(new, operation')
  BY <1>3, <1>5, <1>10 DEF SlotSound
<1> QED
  BY <1>1, <1>3, <1>7, <1>8, <1>9, <1>10, <1>11, <1>12, AskEndsKeeps DEF NoFault

\* The bindings of the receipts go out of date, here and elsewhere.
LEMMA ReceiptsTyped ==
    ASSUME receipt \in [Tickets -> ReceiptRows], NEW fresh \in [Tickets -> BOOLEAN],
           receipt' = [t \in Tickets |-> [receipt[t] EXCEPT !.fresh = fresh[t]]]
    PROVE  receipt' \in [Tickets -> ReceiptRows]
<1>1. ASSUME NEW t \in Tickets PROVE [receipt[t] EXCEPT !.fresh = fresh[t]] \in ReceiptRows
  <2>1. receipt[t] \in ReceiptRows /\ fresh[t] \in BOOLEAN
    OBVIOUS
  <2> QED
    BY <2>1 DEF ReceiptRows
<1> QED
  BY <1>1

\* Complete keeps the invariant: only an operation in progress saves its summary.
LEMMA CompleteKeeps ==
    ASSUME SummaryInv, NEW r \in Slots, Complete(r)
    PROVE  Kept
<1>1. PICK t : t = slot[r].ticket
  OBVIOUS
<1>2. slot[r].pc = "complete" /\ UNCHANGED <<open, due, run, provider, page>>
  BY DEF Complete
<1>3. t \in Tickets /\ operation[t].usage # "none" /\ operation[t].dispatch # "none"
  BY <1>1, <1>2, InvParts DEF SlotSound
<1>4. \/ /\ Ends({t}, "cancelled", "conservative", "discarded")
         /\ Catch(r, "actual") /\ NoFault /\ UNCHANGED receipt
      \/ /\ Authority /\ operation[t].usage = "running"
         /\ \E published \in BOOLEAN : Succeeds(t, published)
         /\ SavedNow(r)
      \/ Catch(r, "actual") /\ NoFault /\ UNCHANGED <<operation, window, receipt>>
  BY <1>1 DEF Complete
<1>5. CASE /\ Ends({t}, "cancelled", "conservative", "discarded")
           /\ Catch(r, "actual") /\ NoFault /\ UNCHANGED receipt
  <2>1. PICK charge : charge = "conservative"
    OBVIOUS
  <2>2. charge \in Charges /\ Ends({t}, "cancelled", charge, "discarded")
    BY <1>5, <2>1 DEF Charges
  <2>3. {t} \in SUBSET Tickets /\ \A u \in {t} : operation[u].usage # "none"
    BY <1>3
  <2>4. /\ DBKept
        /\ \A u \in Tickets :
              operation'[u].settled = "released" =>
                 operation[u].settled = "released" \/ (u \in {t} /\ charge = "released")
    BY <1>2, <2>2, <2>3, EndsKeeps, InvParts
  <2>5. FreeIsUnbilled
    BY <2>1, <2>4 DEF FreeIsUnbilled
  <2>6. LedgerForward
    BY <2>4 DEF DBKept
  <2>7. operation'[t].dispatch # "none"
    BY <1>3, <2>6 DEF LedgerForward
  <2>8. Works(r)
    BY <1>1, <1>2, <1>5, <2>6, <2>7, CatchWorks
  <2>9. receipt' \in [Tickets -> ReceiptRows]
    BY <1>5, InvParts
  <2> QED
    BY <1>2, <1>5, <2>4, <2>5, <2>8, <2>9, WorksKeeps
<1>6. CASE /\ Authority /\ operation[t].usage = "running"
           /\ \E published \in BOOLEAN : Succeeds(t, published)
           /\ SavedNow(r)
  <2>1. PICK published \in BOOLEAN : Succeeds(t, published)
    BY <1>6
  <2>2. DBKept /\ NothingReleased
    BY <1>2, <1>3, <1>6, <2>1, SucceedsKeeps, InvParts DEF Succeeds
  <2>3. receipt' \in [Tickets -> ReceiptRows]
    <3>1. PICK fresh : fresh = [u \in Tickets |-> receipt[u].fresh /\ ~published]
      OBVIOUS
    <3>2. fresh \in [Tickets -> BOOLEAN]
      BY <3>1
    <3>3. receipt' = [u \in Tickets |-> [receipt[u] EXCEPT !.fresh = fresh[u]]]
      BY <2>1, <3>1 DEF Succeeds
    <3> QED
      BY <3>2, <3>3, InvParts, ReceiptsTyped
  <2>4. LedgerForward
    BY <2>2 DEF DBKept
  <2>5. operation'[t].dispatch # "none"
    BY <1>3, <2>4 DEF LedgerForward
  <2>6. PICK seen : seen = Finished \cup {t[1]}
    OBVIOUS
  <2>7. seen \in SUBSET Windows
    BY <1>3, <2>6, TicketFacts DEF Finished
  <2>8. NoFault /\ (Answer(r, "done", seen) \/ Catch(r, "actual"))
    BY <1>1, <1>6, <2>6 DEF SavedNow
  <2>9. Works(r)
    <3>1. CASE Answer(r, "done", seen)
      BY <1>2, <2>4, <2>7, <3>1, AnswerWorks
    <3>2. CASE Catch(r, "actual")
      BY <1>1, <1>2, <2>4, <2>5, <3>2, CatchWorks
    <3> QED
      BY <2>8, <3>1, <3>2
  <2> QED
    BY <1>2, <2>2, <2>3, <2>8, <2>9, NothingIsFree, WorksKeeps
<1>7. CASE Catch(r, "actual") /\ NoFault /\ UNCHANGED <<operation, window, receipt>>
  <2>1. DBKept /\ NothingReleased
    BY <1>2, <1>7, DBStays, InvParts
  <2>2. LedgerForward
    BY <2>1 DEF DBKept
  <2>3. operation'[slot[r].ticket].dispatch # "none"
    BY <1>1, <1>3, <1>7
  <2>4. Works(r)
    BY <1>2, <1>7, <2>2, <2>3, CatchWorks
  <2>5. receipt' \in [Tickets -> ReceiptRows]
    BY <1>7, InvParts
  <2> QED
    BY <1>2, <1>7, <2>1, <2>4, <2>5, NothingIsFree, WorksKeeps
<1> QED
  BY <1>4, <1>5, <1>6, <1>7

\* Fail keeps the invariant: a failure that releases is one of a call nobody was paid for.
LEMMA FailKeeps ==
    ASSUME SummaryInv, NEW r \in Slots, Fail(r)
    PROVE  Kept
<1>1. PICK t, charge : /\ t = slot[r].ticket
                       /\ charge = IF slot[r].outcome = "none" THEN "released" ELSE slot[r].outcome
  OBVIOUS
<1>2. /\ slot[r].pc = "fail" /\ Refuse(r)
      /\ UNCHANGED <<open, due, run, receipt, provider, page, faults>>
  BY DEF Fail
<1>3. t \in Tickets /\ operation[t].usage # "none" /\ slot[r].outcome \in Charges \cup {"none"}
  BY <1>1, <1>2, InvParts DEF SlotSound
<1>4. receipt' \in [Tickets -> ReceiptRows]
  BY <1>2, InvParts
<1>5. CASE MayFail(r)
  <2>1. Ends({t}, "failed", charge, "failed")
    BY <1>1, <1>5 DEF Fail
  <2>2. charge \in Charges
    BY <1>1, <1>3 DEF Charges
  <2>3. {t} \in SUBSET Tickets /\ \A u \in {t} : operation[u].usage # "none"
    BY <1>3
  <2>4. /\ DBKept
        /\ \A u \in Tickets :
              operation'[u].settled = "released" =>
                 operation[u].settled = "released" \/ (u \in {t} /\ charge = "released")
    BY <1>2, <2>1, <2>2, <2>3, EndsKeeps, InvParts
  <2>5. charge = "released" => Unbilled(t)
    <3>1. CASE slot[r].outcome = "none"
      <4>1. operation[t].dispatch = "none"
        BY <1>1, <1>5, <3>1 DEF MayFail
      <4> QED
        BY <1>3, <4>1, InvParts DEF MoneySound
    <3>2. CASE slot[r].outcome # "none"
      BY <1>1, <1>2, <3>2, InvParts DEF MoneySound
    <3> QED
      BY <3>1, <3>2
  <2>6. FreeIsUnbilled
    BY <2>4, <2>5 DEF FreeIsUnbilled
  <2>7. Works(r)
    BY <1>2, <2>4, RefuseWorks DEF DBKept
  <2> QED
    BY <1>2, <1>4, <2>4, <2>6, <2>7, WorksKeeps DEF NoFault
<1>6. CASE ~MayFail(r)
  <2>1. UNCHANGED <<operation, window>>
    BY <1>6 DEF Fail
  <2>2. DBKept /\ NothingReleased
    BY <1>2, <2>1, DBStays, InvParts
  <2>3. Works(r)
    BY <1>2, <2>2, RefuseWorks DEF DBKept
  <2> QED
    BY <1>2, <1>4, <2>2, <2>3, NothingIsFree, WorksKeeps DEF NoFault
<1> QED
  BY <1>5, <1>6

\* A call that fails without effect keeps the invariant.
LEMMA CallFailsKeeps ==
    ASSUME SummaryInv, NEW r \in Slots, CallFails(r)
    PROVE  Kept
<1>1. /\ slot[r].pc \in {"claim", "complete"}
      /\ Catch(r, IF slot[r].pc = "claim" THEN "none" ELSE "actual")
      /\ UNCHANGED <<open, due, run, window, receipt, operation, provider, page, faults>>
  BY DEF CallFails, database
<1>2. DBKept /\ NothingReleased
  BY <1>1, DBStays, InvParts
<1>3. LedgerForward
  BY <1>2 DEF DBKept
<1>4. PICK charge : charge = IF slot[r].pc = "claim" THEN "none" ELSE "actual"
  OBVIOUS
<1>5. charge \in {"none", "actual"} /\ Catch(r, charge)
  BY <1>1, <1>4
<1>6. charge # "none" => operation'[slot[r].ticket].dispatch # "none"
  BY <1>1, <1>4, InvParts DEF SlotSound
<1>7. Works(r)
  BY <1>1, <1>3, <1>5, <1>6, CatchWorks
<1>8. receipt' \in [Tickets -> ReceiptRows]
  BY <1>1, InvParts
<1> QED
  BY <1>1, <1>2, <1>7, <1>8, NothingIsFree, WorksKeeps DEF NoFault

\* The death of an invocation keeps the invariant: a call it was in is taken for paid.
LEMMA CrashKeeps ==
    ASSUME SummaryInv, NEW r \in Slots, Crash(r)
    PROVE  Kept
<1>1. PICK t : t = slot[r].ticket
  OBVIOUS
<1>2. /\ slot[r].pc \notin {"idle", "answered"} /\ Fault /\ Refuse(r)
      /\ provider' = [provider EXCEPT ![t].billed = @ \/ slot[r].pc = "provider"]
      /\ UNCHANGED <<open, due, run, window, receipt, operation, page>>
  BY <1>1 DEF Crash, database
<1>3. DBKept /\ NothingReleased
  BY <1>2, DBStays, InvParts
<1>4. Works(r)
  BY <1>2, <1>3, RefuseWorks DEF DBKept
<1>5. t \in Tickets /\ provider \in [Tickets -> ProviderRows]
  BY <1>1, <1>2, InvParts DEF SlotSound
<1>6. PICK billed : billed = (provider[t].billed \/ slot[r].pc = "provider")
  OBVIOUS
<1>7. provider' = [provider EXCEPT ![t].billed = billed]
  BY <1>2, <1>6
<1>8. provider[t] \in ProviderRows /\ provider[t].billed \in BOOLEAN
  BY <1>5 DEF ProviderRows
<1>9. billed \in BOOLEAN
  BY <1>6, <1>8
<1>10. receipt' \in [Tickets -> ReceiptRows]
  BY <1>2, InvParts
<1>11. CASE slot[r].pc # "provider"
  <2>1. billed = provider[t].billed
    BY <1>6, <1>8, <1>11
  <2>2. [provider[t] EXCEPT !.billed = billed] = provider[t]
    BY <1>8, <2>1 DEF ProviderRows
  <2>3. provider' = provider
    BY <1>5, <1>7, <2>2
  <2> QED
    BY <1>2, <1>3, <1>4, <1>10, <2>3, NothingIsFree, WorksKeeps
<1>12. CASE slot[r].pc = "provider"
  <2>1. /\ slot' \in [Slots -> SlotRows] /\ \A q \in Slots : q # r => slot'[q] = slot[q]
        /\ SlotSound(slot'[r], operation') /\ slot'[r].pc # "provider"
        /\ ~(slot'[r].pc = "fail" /\ slot'[r].outcome = "released")
        /\ slot'[r].pc = "idle" => page.waiting # r
    BY <1>4 DEF Works, Quiet
  <2> QED
    BY <1>1, <1>2, <1>7, <1>9, <1>12, <2>1, AskEndsKeeps
<1> QED
  BY <1>11, <1>12

-----------------------------------------------------------------------------
(* The steps of the page.                                                    *)

\* An invocation that has just been called.
LEMMA CalledSlot ==
    ASSUME NEW token \in Tokens, NEW ticket \in Tickets, NEW sources \in Sources, NEW new,
           new = [IdleSlot EXCEPT !.pc = "prepare", !.token = token, !.ticket = ticket,
                                  !.sources = sources]
    PROVE  new \in SlotRows /\ new.pc = "prepare" /\ \A ledger : Quiet(new, ledger)
<1>1. PICK first : first = [IdleSlot EXCEPT !.pc = "prepare"]
  OBVIOUS
<1>2. first \in SlotRows /\ first.pc = "prepare" /\ first.own = FALSE
  BY <1>1, IdleFacts DEF SlotRows
<1>3. PICK second : second = [first EXCEPT !.token = token]
  OBVIOUS
<1>4. second \in SlotRows /\ second.pc = first.pc /\ second.own = first.own
  BY <1>2, <1>3 DEF SlotRows
<1>5. PICK third : third = [second EXCEPT !.ticket = ticket]
  OBVIOUS
<1>6. third \in SlotRows /\ third.pc = second.pc /\ third.own = second.own
      /\ third.ticket = ticket
  BY <1>4, <1>5 DEF SlotRows
<1>7. new = [third EXCEPT !.sources = sources]
  BY <1>1, <1>3, <1>5
<1>8. new \in SlotRows /\ new.pc = third.pc /\ new.own = third.own /\ new.ticket = ticket
  BY <1>6, <1>7 DEF SlotRows
<1> QED
  BY <1>2, <1>4, <1>6, <1>8 DEF Quiet, SlotSound

\* The page waits for another invocation, or for none.
LEMMA PageWaitsFor ==
    ASSUME NEW waiting \in Slots \cup {NoSlot}, NEW tries \in 0..2, page \in Pages,
           page' = [page EXCEPT !.waiting = waiting, !.tries = tries]
    PROVE  page' \in Pages /\ page'.waiting = waiting
<1>1. PICK first : first = [page EXCEPT !.waiting = waiting]
  OBVIOUS
<1>2. first \in Pages /\ first.waiting = waiting
  BY <1>1 DEF Pages
<1>3. page' = [first EXCEPT !.tries = tries]
  BY <1>1
<1> QED
  BY <1>2, <1>3 DEF Pages

\* The page reads the windows, with another token.
LEMMA PageReads ==
    ASSUME NEW token \in Tokens, page \in Pages,
           page' = [page EXCEPT !.token = token, !.processed = Finished]
    PROVE  page' \in Pages /\ page'.waiting = page.waiting
<1>1. PICK first : first = [page EXCEPT !.token = token]
  OBVIOUS
<1>2. first \in Pages /\ first.waiting = page.waiting
  BY <1>1 DEF Pages
<1>3. page' = [first EXCEPT !.processed = Finished]
  BY <1>1
<1>4. Finished \in SUBSET Windows
  BY DEF Finished
<1> QED
  BY <1>2, <1>3, <1>4 DEF Pages

\* Send keeps the invariant.
LEMMA SendKeeps ==
    ASSUME SummaryInv, NEW r \in Slots, Send(r)
    PROVE  Kept
<1>1. /\ Unprocessed # {} /\ SettleStale(Stale)
      /\ slot' = [slot EXCEPT ![r] =
            [IdleSlot EXCEPT !.pc = "prepare", !.token = page.token,
                             !.ticket = <<Min(Unprocessed), page.number>>,
                             !.sources = page.sources]]
      /\ page' = [page EXCEPT !.waiting = r, !.tries = 1]
      /\ UNCHANGED <<open, due, run, receipt, provider, faults>>
  BY DEF Send
<1>2. DBKept /\ NothingReleased
  BY <1>1, SettleStaleKeeps, InvParts
<1>3. PICK ticket : ticket = <<Min(Unprocessed), page.number>>
  OBVIOUS
<1>4. ticket \in Tickets
  <2>1. Unprocessed \in SUBSET Nat /\ Unprocessed \in SUBSET Windows
    BY Bounds, InvParts DEF Unprocessed, Windows
  <2>2. Min(Unprocessed) \in Windows
    BY <1>1, <2>1, MinInSet
  <2>3. page.number \in 1..MaxPages
    BY InvParts DEF Pages
  <2> QED
    BY <1>3, <2>2, <2>3 DEF Tickets
<1>5. PICK new : new = [IdleSlot EXCEPT !.pc = "prepare", !.token = page.token,
                                        !.ticket = ticket, !.sources = page.sources]
  OBVIOUS
<1>6. page.token \in Tokens /\ page.sources \in Sources /\ page \in Pages
  BY InvParts DEF Pages
<1>7. new \in SlotRows /\ new.pc = "prepare" /\ Quiet(new, operation')
  BY <1>4, <1>5, <1>6, CalledSlot
<1>8. slot' = [slot EXCEPT ![r] = new]
  BY <1>1, <1>3, <1>5
<1>9. slot \in [Slots -> SlotRows]
  BY InvParts
<1>10. slot' \in [Slots -> SlotRows] /\ slot'[r] = new
       /\ \A q \in Slots : slot'[q] = slot[q] \/ Quiet(slot'[q], operation')
  BY <1>7, <1>8, <1>9
<1>11. page' \in Pages /\ page'.waiting = r
  <2>1. PICK tries \in 0..2 : tries = 1
    OBVIOUS
  <2>2. page' = [page EXCEPT !.waiting = r, !.tries = tries]
    BY <1>1, <2>1
  <2>3. r \in Slots \cup {NoSlot}
    OBVIOUS
  <2> QED
    BY <1>6, <2>2, <2>3, PageWaitsFor
<1>12. PageWaits'
  BY <1>7, <1>10, <1>11 DEF PageWaits
<1>13. /\ due' \in 0..WindowCount /\ faults' \in 0..MaxFaults
       /\ receipt' \in [Tickets -> ReceiptRows] /\ UNCHANGED provider
  BY <1>1, InvParts
<1> QED
  BY <1>2, <1>10, <1>11, <1>12, <1>13, NothingIsFree, QuietKeeps

\* A retry keeps the invariant.
LEMMA RetryKeeps ==
    ASSUME SummaryInv, NEW r \in Slots, page.waiting = r, NEW gone \in BOOLEAN, MayRetry,
           Retry(r, gone), Fault \/ NoFault
    PROVE  Kept
<1>1. PICK next \in Slots :
         /\ SettleStale(Stale)
         /\ slot' = [s \in Slots |->
               IF s = next
               THEN [IdleSlot EXCEPT !.pc = "prepare", !.token = slot[r].token,
                                     !.ticket = slot[r].ticket, !.sources = slot[r].sources]
               ELSE IF s = r /\ gone THEN IdleSlot ELSE slot[s]]
         /\ page' = [page EXCEPT !.waiting = next, !.tries = @ + 1]
         /\ UNCHANGED <<open, due, run, receipt, provider>>
  BY DEF Retry
<1>2. DBKept /\ NothingReleased
  BY <1>1, SettleStaleKeeps, InvParts
<1>3. r # NoSlot
  BY Bounds
<1>4. slot[r].pc # "idle"
  BY <1>3, InvParts DEF PageWaits
<1>5. slot[r].ticket \in Tickets /\ slot[r].token \in Tokens /\ slot[r].sources \in Sources
  BY <1>4, InvParts DEF SlotSound, SlotRows
<1>6. PICK new : new = [IdleSlot EXCEPT !.pc = "prepare", !.token = slot[r].token,
                                        !.ticket = slot[r].ticket, !.sources = slot[r].sources]
  OBVIOUS
<1>7. new \in SlotRows /\ new.pc = "prepare" /\ Quiet(new, operation')
  <2>1. PICK token \in Tokens, ticket \in Tickets, sources \in Sources :
           token = slot[r].token /\ ticket = slot[r].ticket /\ sources = slot[r].sources
    BY <1>5
  <2>2. new = [IdleSlot EXCEPT !.pc = "prepare", !.token = token, !.ticket = ticket,
                               !.sources = sources]
    BY <1>6, <2>1
  <2> QED
    BY <2>2, CalledSlot
<1>8. slot' = [s \in Slots |->
                 IF s = next THEN new ELSE IF s = r /\ gone THEN IdleSlot ELSE slot[s]]
  BY <1>1, <1>6
<1>9. \A q \in Slots : slot'[q] \in SlotRows
                       /\ (slot'[q] = slot[q] \/ Quiet(slot'[q], operation'))
  BY <1>7, <1>8, IdleFacts, InvParts
<1>10. slot' \in [Slots -> SlotRows] /\ slot'[next] = new
  BY <1>8, <1>9
<1>11. page' \in Pages /\ page'.waiting = next
  <2>1. page.tries = 1 /\ page \in Pages
    BY InvParts DEF MayRetry
  <2>2. PICK tries : tries = page.tries + 1
    OBVIOUS
  <2>3. tries \in 0..2
    BY <2>1, <2>2
  <2>4. page' = [page EXCEPT !.waiting = next, !.tries = tries]
    BY <1>1, <2>2
  <2> QED
    BY <2>1, <2>3, <2>4, PageWaitsFor
<1>12. PageWaits'
  BY <1>7, <1>10, <1>11 DEF PageWaits
<1>13. /\ due' \in 0..WindowCount /\ faults' \in 0..MaxFaults
       /\ receipt' \in [Tickets -> ReceiptRows] /\ UNCHANGED provider
  BY <1>1, InvParts, FaultsBounded
<1> QED
  BY <1>2, <1>9, <1>10, <1>11, <1>12, <1>13, NothingIsFree, QuietKeeps

\* Steps that free invocation slots and have the page wait for none of them.
LEMMA SlotsFreed ==
    ASSUME SummaryInv, UNCHANGED <<open, due, run, window, receipt, operation, provider>>,
           Fault \/ NoFault, page' \in Pages, page'.waiting = NoSlot,
           slot' \in [Slots -> SlotRows],
           \A q \in Slots : slot'[q] \in {slot[q], IdleSlot}
    PROVE  Kept
<1>1. DBKept /\ NothingReleased
  BY DBStays, InvParts
<1>2. \A q \in Slots : slot'[q] = slot[q] \/ Quiet(slot'[q], operation')
  BY IdleFacts
<1>3. PageWaits'
  BY DEF PageWaits
<1>4. /\ due' \in 0..WindowCount /\ faults' \in 0..MaxFaults
      /\ receipt' \in [Tickets -> ReceiptRows] /\ UNCHANGED provider
  BY InvParts, FaultsBounded
<1> QED
  BY <1>1, <1>2, <1>3, <1>4, NothingIsFree, QuietKeeps

\* NotAnswered keeps the invariant.
LEMMA NotAnsweredKeeps ==
    ASSUME SummaryInv, NEW r \in Slots, NotAnswered(r)
    PROVE  Kept
<1>1. PICK gone \in BOOLEAN : gone = (slot[r].pc = "answered")
  OBVIOUS
<1>2. /\ page.waiting = r /\ (Fault \/ NoFault)
      /\ IF MayRetry THEN Retry(r, gone) ELSE GiveUp(r, gone)
  BY <1>1 DEF NotAnswered
<1>3. CASE MayRetry
  <2>1. Retry(r, gone)
    BY <1>2, <1>3
  <2> QED
    BY <1>2, <1>3, <2>1, RetryKeeps
<1>4. CASE ~MayRetry
  <2>1. /\ slot' = IF gone THEN [slot EXCEPT ![r] = IdleSlot] ELSE slot
        /\ page' = [page EXCEPT !.waiting = NoSlot, !.tries = 0]
        /\ UNCHANGED <<open, due, run, window, receipt, operation, provider>>
    BY <1>2, <1>4 DEF GiveUp, database
  <2>2. slot \in [Slots -> SlotRows] /\ page \in Pages
    BY InvParts
  <2>3. slot' \in [Slots -> SlotRows] /\ \A q \in Slots : slot'[q] \in {slot[q], IdleSlot}
    BY <2>1, <2>2, IdleFacts
  <2>4. page' \in Pages /\ page'.waiting = NoSlot
    <3>1. PICK tries \in 0..2, waiting \in Slots \cup {NoSlot} : tries = 0 /\ waiting = NoSlot
      OBVIOUS
    <3>2. page' = [page EXCEPT !.waiting = waiting, !.tries = tries]
      BY <2>1, <3>1
    <3> QED
      BY <2>2, <3>1, <3>2, PageWaitsFor
  <2> QED
    BY <1>2, <2>1, <2>3, <2>4, SlotsFreed
<1> QED
  BY <1>3, <1>4

\* Answered keeps the invariant.
LEMMA AnsweredKeeps ==
    ASSUME SummaryInv, NEW r \in Slots, Answered(r)
    PROVE  Kept
<1>1. PICK processed :
         processed = IF slot[r].outcome = "done" THEN slot[r].seen
                     ELSE IF slot[r].token.run = run.token.run THEN Finished
                     ELSE page.processed
  OBVIOUS
<1>2. /\ page' = [page EXCEPT !.waiting = NoSlot, !.tries = 0, !.processed = processed]
      /\ slot' = [slot EXCEPT ![r] = IdleSlot]
      /\ UNCHANGED <<open, due, run, window, receipt, operation, provider, faults>>
  BY <1>1 DEF Answered, database
<1>3. page \in Pages /\ slot \in [Slots -> SlotRows] /\ slot[r] \in SlotRows
  BY InvParts
<1>4. processed \in SUBSET Windows
  BY <1>1, <1>3 DEF Finished, Pages, SlotRows
<1>5. page' \in Pages /\ page'.waiting = NoSlot
  <2>1. PICK first : first = [page EXCEPT !.waiting = NoSlot]
    OBVIOUS
  <2>2. first \in Pages /\ first.waiting = NoSlot
    BY <1>3, <2>1 DEF Pages
  <2>3. PICK second : second = [first EXCEPT !.tries = 0]
    OBVIOUS
  <2>4. second \in Pages /\ second.waiting = NoSlot
    BY <2>2, <2>3 DEF Pages
  <2>5. page' = [second EXCEPT !.processed = processed]
    BY <1>2, <2>1, <2>3
  <2> QED
    BY <1>4, <2>4, <2>5 DEF Pages
<1>6. slot' \in [Slots -> SlotRows] /\ \A q \in Slots : slot'[q] \in {slot[q], IdleSlot}
  BY <1>2, <1>3, IdleFacts
<1> QED
  BY <1>2, <1>5, <1>6, SlotsFreed DEF NoFault

\* Reload keeps the invariant.
LEMMA ReloadKeeps ==
    ASSUME SummaryInv, Reload
    PROVE  Kept
<1>1. /\ page.number < MaxPages
      /\ page' = [page EXCEPT !.number = @ + 1, !.token = NoToken, !.waiting = NoSlot,
                              !.tries = 0, !.processed = Finished]
      /\ slot' = [r \in Slots |-> IF slot[r].pc = "answered" THEN IdleSlot ELSE slot[r]]
      /\ UNCHANGED <<open, due, run, window, receipt, operation, provider, faults>>
  BY DEF Reload, database
<1>2. page \in Pages /\ slot \in [Slots -> SlotRows]
  BY InvParts
<1>3. page' \in Pages /\ page'.waiting = NoSlot
  <2>1. PICK number : number = page.number + 1
    OBVIOUS
  <2>2. number \in 1..MaxPages
    BY <1>1, <1>2, <2>1, Bounds DEF Pages
  <2>3. PICK first : first = [page EXCEPT !.number = number]
    OBVIOUS
  <2>4. first \in Pages
    BY <1>2, <2>2, <2>3 DEF Pages
  <2>5. PICK second : second = [first EXCEPT !.token = NoToken]
    OBVIOUS
  <2>6. second \in Pages
    BY <2>4, <2>5, IdleFacts DEF Pages
  <2>7. PICK third : third = [second EXCEPT !.waiting = NoSlot]
    OBVIOUS
  <2>8. third \in Pages /\ third.waiting = NoSlot
    BY <2>6, <2>7 DEF Pages
  <2>9. PICK fourth : fourth = [third EXCEPT !.tries = 0]
    OBVIOUS
  <2>10. fourth \in Pages /\ fourth.waiting = NoSlot
    BY <2>8, <2>9 DEF Pages
  <2>11. page' = [fourth EXCEPT !.processed = Finished]
    BY <1>1, <2>1, <2>3, <2>5, <2>7, <2>9
  <2>12. Finished \in SUBSET Windows
    BY DEF Finished
  <2> QED
    BY <2>10, <2>11, <2>12 DEF Pages
<1>4. \A q \in Slots : slot'[q] \in {slot[q], IdleSlot} /\ slot'[q] \in SlotRows
  BY <1>1, <1>2, IdleFacts
<1>5. slot' \in [Slots -> SlotRows]
  BY <1>1, <1>4
<1> QED
  BY <1>1, <1>3, <1>4, <1>5, SlotsFreed DEF NoFault

\* Steps that leave the invocations alone.
LEMMA SlotsStay ==
    ASSUME SummaryInv, DBKept, NothingReleased, UNCHANGED <<provider, slot, faults>>,
           due' \in 0..WindowCount, receipt' \in [Tickets -> ReceiptRows],
           page' \in Pages, page'.waiting = page.waiting
    PROVE  Kept
<1>1. slot' \in [Slots -> SlotRows] /\ faults' \in 0..MaxFaults
  BY InvParts
<1>2. PageWaits'
  BY InvParts DEF PageWaits
<1> QED
  BY <1>1, <1>2, NothingIsFree, QuietKeeps

\* TurnPage keeps the invariant.
LEMMA TurnPageKeeps ==
    ASSUME SummaryInv, TurnPage
    PROVE  Kept
<1>1. PICK s \in Sources : page' = [page EXCEPT !.sources = s]
  BY DEF TurnPage
<1>2. UNCHANGED <<open, due, run, window, receipt, operation, provider, slot, faults>>
  BY DEF TurnPage, database
<1>3. page' \in Pages /\ page'.waiting = page.waiting
  BY <1>1, InvParts DEF Pages
<1>4. DBKept /\ NothingReleased
  BY <1>2, DBStays, InvParts
<1>5. due' \in 0..WindowCount /\ receipt' \in [Tickets -> ReceiptRows]
  BY <1>2, InvParts
<1> QED
  BY <1>2, <1>3, <1>4, <1>5, SlotsStay

\* StartRun keeps the invariant: no window runs while no run does.
LEMMA StartRunKeeps ==
    ASSUME SummaryInv, StartRun
    PROVE  Kept
<1>1. /\ run.status # "running" /\ run.token.run < MaxRuns
      /\ run' = [status |-> "running", expired |-> FALSE,
                 token |-> [run |-> run.token.run + 1, turn |-> 1]]
      /\ page' = [page EXCEPT !.token = run'.token, !.processed = Finished]
      /\ UNCHANGED <<open, due, window, receipt, operation, provider, slot, faults>>
  BY DEF StartRun
<1>2. PICK token : token = [run |-> run.token.run + 1, turn |-> 1]
  OBVIOUS
<1>3. token \in Tokens
  <2>1. run.token.run + 1 \in 0..MaxRuns /\ 1 \in 0..MaxTurns
    BY <1>1, Bounds, InvParts, DBParts DEF Runs, Tokens
  <2> QED
    BY <1>2, <2>1 DEF Tokens
<1>4. run' \in Runs /\ run'.token = token
  BY <1>1, <1>2, <1>3 DEF Runs
<1>5. page' \in Pages /\ page'.waiting = page.waiting
  BY <1>1, <1>3, <1>4, PageReads, InvParts
<1>6. \A w \in Windows : window[w].status # "running"
  BY <1>1, InvParts, DBParts
<1>7. DBKept /\ NothingReleased
  BY <1>1, <1>4, <1>6, RunKeeps, InvParts, DBParts
<1>8. due' \in 0..WindowCount /\ receipt' \in [Tickets -> ReceiptRows]
  BY <1>1, InvParts
<1> QED
  BY <1>1, <1>5, <1>7, <1>8, SlotsStay

\* Resume keeps the invariant: the run stays the run it is.
LEMMA ResumeKeeps ==
    ASSUME SummaryInv, Resume
    PROVE  Kept
<1>1. /\ run.token.turn < MaxTurns
      /\ run' = [run EXCEPT !.token.turn = @ + 1]
      /\ page' = [page EXCEPT !.token = run'.token, !.processed = Finished]
      /\ UNCHANGED <<open, due, window, receipt, operation, provider, slot, faults>>
  BY DEF Resume
<1>2. run \in Runs /\ run.token \in Tokens
  BY InvParts, DBParts DEF Runs
<1>3. PICK turn : turn = run.token.turn + 1
  OBVIOUS
<1>4. turn \in 0..MaxTurns
  BY <1>1, <1>2, <1>3, Bounds DEF Tokens
<1>5. PICK token : token = [run.token EXCEPT !.turn = turn]
  OBVIOUS
<1>6. token \in Tokens /\ token.run = run.token.run
  BY <1>2, <1>4, <1>5 DEF Tokens
<1>7. run' = [run EXCEPT !.token = token]
  BY <1>1, <1>3, <1>5
<1>8. run' \in Runs /\ run'.token = token /\ run'.status = run.status
  BY <1>2, <1>6, <1>7 DEF Runs
<1>9. page' \in Pages /\ page'.waiting = page.waiting
  BY <1>1, <1>6, <1>8, PageReads, InvParts
<1>10. DBKept /\ NothingReleased
  BY <1>1, <1>6, <1>8, RunKeeps, InvParts, DBParts
<1>11. due' \in 0..WindowCount /\ receipt' \in [Tickets -> ReceiptRows]
  BY <1>1, InvParts
<1> QED
  BY <1>1, <1>9, <1>10, <1>11, SlotsStay

\* StopRun keeps the invariant: the work in progress ends with the run.
LEMMA StopRunKeeps ==
    ASSUME SummaryInv, StopRun
    PROVE  Kept
<1>1. /\ run' = [run EXCEPT !.status = "stopped"] /\ CancelRunning
      /\ UNCHANGED <<open, due, receipt, provider, page, slot, faults>>
  BY DEF StopRun
<1>2. open' \in BOOLEAN /\ run' \in Runs
  BY <1>1, InvParts, DBParts DEF Runs
<1>3. DBKept /\ NothingReleased
  BY <1>1, <1>2, CancelKeeps, InvParts
<1>4. /\ due' \in 0..WindowCount /\ receipt' \in [Tickets -> ReceiptRows]
      /\ page' \in Pages /\ page'.waiting = page.waiting
  BY <1>1, InvParts
<1> QED
  BY <1>1, <1>3, <1>4, SlotsStay

\* RunIsOver keeps the invariant.
LEMMA RunIsOverKeeps ==
    ASSUME SummaryInv, RunIsOver
    PROVE  Kept
<1>1. /\ page' = [page EXCEPT !.token = NoToken, !.processed = Finished]
      /\ UNCHANGED <<open, due, run, window, receipt, operation, provider, slot, faults>>
  BY DEF RunIsOver, database
<1>2. page' \in Pages /\ page'.waiting = page.waiting
  BY <1>1, IdleFacts, PageReads, InvParts
<1>3. DBKept /\ NothingReleased
  BY <1>1, DBStays, InvParts
<1>4. due' \in 0..WindowCount /\ receipt' \in [Tickets -> ReceiptRows]
  BY <1>1, InvParts
<1> QED
  BY <1>1, <1>2, <1>3, <1>4, SlotsStay

-----------------------------------------------------------------------------
(* The lecture and its clock.                                                *)

\* CloseLecture keeps the invariant: the work in progress ends with the lecture.
LEMMA CloseLectureKeeps ==
    ASSUME SummaryInv, CloseLecture
    PROVE  Kept
<1>1. /\ open' = FALSE /\ run' = [run EXCEPT !.status = "closed", !.expired = FALSE]
      /\ CancelRunning
      /\ UNCHANGED <<due, receipt, provider, page, slot, faults>>
  BY DEF CloseLecture
<1>2. open' \in BOOLEAN /\ run' \in Runs
  <2>1. PICK first : first = [run EXCEPT !.status = "closed"]
    OBVIOUS
  <2>2. first \in Runs
    BY <2>1, InvParts, DBParts DEF Runs
  <2>3. run' = [first EXCEPT !.expired = FALSE]
    BY <1>1, <2>1
  <2> QED
    BY <1>1, <2>2, <2>3 DEF Runs
<1>3. DBKept /\ NothingReleased
  BY <1>1, <1>2, CancelKeeps, InvParts
<1>4. /\ due' \in 0..WindowCount /\ receipt' \in [Tickets -> ReceiptRows]
      /\ page' \in Pages /\ page'.waiting = page.waiting
  BY <1>1, InvParts
<1> QED
  BY <1>1, <1>3, <1>4, SlotsStay

\* The expiry of a run keeps the invariant: what it runs may go on to its end.
LEMMA RunExpiresKeeps ==
    ASSUME SummaryInv, RunExpires
    PROVE  Kept
<1>1. /\ run' = [run EXCEPT !.expired = TRUE]
      /\ UNCHANGED <<open, due, window, receipt, operation, provider, page, slot, faults>>
  BY DEF RunExpires
<1>2. run' \in Runs /\ run'.status = run.status /\ run'.token = run.token
  BY <1>1, InvParts, DBParts DEF Runs
<1>3. DBKept /\ NothingReleased
  BY <1>1, <1>2, RunKeeps, InvParts, DBParts
<1>4. /\ due' \in 0..WindowCount /\ receipt' \in [Tickets -> ReceiptRows]
      /\ page' \in Pages /\ page'.waiting = page.waiting
  BY <1>1, InvParts
<1> QED
  BY <1>1, <1>3, <1>4, SlotsStay

\* The end of a window keeps the invariant.
LEMMA WindowEndsKeeps ==
    ASSUME SummaryInv, WindowEnds
    PROVE  Kept
<1>1. /\ due < WindowCount /\ due' = due + 1
      /\ UNCHANGED <<open, run, window, receipt, operation, provider, page, slot, faults>>
  BY DEF WindowEnds
<1>2. DBKept /\ NothingReleased
  BY <1>1, DBStays, InvParts
<1>3. due' \in 0..WindowCount
  BY <1>1, Bounds, InvParts
<1>4. /\ receipt' \in [Tickets -> ReceiptRows]
      /\ page' \in Pages /\ page'.waiting = page.waiting
  BY <1>1, InvParts
<1> QED
  BY <1>1, <1>2, <1>3, <1>4, SlotsStay

\* A change of the context keeps the invariant.
LEMMA ContextChangesKeeps ==
    ASSUME SummaryInv, ContextChanges
    PROVE  Kept
<1>1. /\ receipt' = Outdated
      /\ UNCHANGED <<open, due, run, window, operation, provider, page, slot, faults>>
  BY DEF ContextChanges
<1>2. DBKept /\ NothingReleased
  BY <1>1, DBStays, InvParts
<1>3. receipt' \in [Tickets -> ReceiptRows]
  <2>1. PICK fresh : fresh = [t \in Tickets |-> FALSE]
    OBVIOUS
  <2>2. fresh \in [Tickets -> BOOLEAN]
    BY <2>1
  <2>3. receipt' = [t \in Tickets |-> [receipt[t] EXCEPT !.fresh = fresh[t]]]
    BY <1>1, <2>1 DEF Outdated
  <2> QED
    BY <2>2, <2>3, InvParts, ReceiptsTyped
<1>4. due' \in 0..WindowCount /\ page' \in Pages /\ page'.waiting = page.waiting
  BY <1>1, InvParts
<1> QED
  BY <1>1, <1>2, <1>3, <1>4, SlotsStay

\* The end of a lease keeps the invariant.
LEMMA LeaseLapsesKeeps ==
    ASSUME SummaryInv, NEW t \in Tickets, LeaseLapses(t)
    PROVE  Kept
<1>1. /\ operation[t].dispatch = "leased"
      /\ operation' = [operation EXCEPT ![t].dispatch = "lapsed"]
      /\ UNCHANGED <<open, due, run, window, receipt, provider, page, slot, faults>>
  BY DEF LeaseLapses
<1>2. operation[t].usage # "none"
  BY <1>1, InvParts, DBParts
<1>3. PICK dispatch : dispatch = "lapsed"
  OBVIOUS
<1>4. DBKept /\ NothingReleased
  BY <1>1, <1>2, <1>3, DispatchKeeps, InvParts
<1>5. /\ due' \in 0..WindowCount /\ receipt' \in [Tickets -> ReceiptRows]
      /\ page' \in Pages /\ page'.waiting = page.waiting
  BY <1>1, InvParts
<1> QED
  BY <1>1, <1>4, <1>5, SlotsStay

\* The cron keeps the invariant.
LEMMA ReapKeeps ==
    ASSUME SummaryInv, Reap
    PROVE  Kept
<1>1. /\ SettleStale(Stale)
      /\ UNCHANGED <<open, due, run, receipt, provider, page, slot, faults>>
  BY DEF Reap
<1>2. DBKept /\ NothingReleased
  BY <1>1, SettleStaleKeeps, InvParts
<1>3. /\ due' \in 0..WindowCount /\ receipt' \in [Tickets -> ReceiptRows]
      /\ page' \in Pages /\ page'.waiting = page.waiting
  BY <1>1, InvParts
<1> QED
  BY <1>1, <1>2, <1>3, SlotsStay

\* A stuttering step keeps the invariant.
LEMMA StutterKeeps ==
    ASSUME SummaryInv, UNCHANGED summaryVars
    PROVE  Kept
<1>1. UNCHANGED <<open, due, run, window, receipt, operation, provider, page, slot, faults>>
  BY DEF summaryVars, database
<1>2. DBKept /\ NothingReleased
  BY <1>1, DBStays, InvParts
<1>3. /\ due' \in 0..WindowCount /\ receipt' \in [Tickets -> ReceiptRows]
      /\ page' \in Pages /\ page'.waiting = page.waiting
  BY <1>1, InvParts
<1> QED
  BY <1>1, <1>2, <1>3, SlotsStay

-----------------------------------------------------------------------------
(* The theorems.                                                             *)

\* The first state satisfies the invariant.
LEMMA SummaryInvInit ==
    ASSUME SummaryInit
    PROVE  SummaryInv
<1>1. /\ open = TRUE /\ due = 0 /\ faults = 0
      /\ run = [status |-> "none", token |-> NoToken, expired |-> FALSE]
      /\ window = [w \in Windows |->
            [status |-> "none", attempts |-> 0, run |-> 0, operation |-> NoTicket]]
      /\ receipt = [t \in Tickets |->
            [result |-> "none", token |-> NoToken, sources |-> IdleSlot.sources,
             expected |-> 0, fresh |-> FALSE]]
      /\ operation = [t \in Tickets |->
            [usage |-> "none", dispatch |-> "none", settled |-> "no"]]
      /\ provider = [t \in Tickets |-> [asked |-> 0, billed |-> FALSE]]
      /\ page = [number |-> 1, token |-> NoToken, sources |-> IdleSlot.sources,
                 processed |-> {}, waiting |-> NoSlot, tries |-> 0]
      /\ slot = [r \in Slots |-> IdleSlot]
  BY DEF SummaryInit
<1>2. NoToken \in Tokens /\ IdleSlot.sources \in Sources
  BY IdleFacts
<1>3. 0 \in 0..MaxAttempts /\ 0 \in 0..MaxRuns /\ 0 \in 0..WindowCount /\ 0 \in 0..MaxFaults
      /\ 1 \in 1..MaxPages
  BY Bounds DEF MaxAttempts
<1>4. /\ \A w \in Windows : window[w].status = "none" /\ window[w].operation = NoTicket
                            /\ window[w].attempts = 0
      /\ window \in [Windows -> WindowRows]
  BY <1>1, <1>3 DEF WindowRows
<1>5. /\ \A t \in Tickets : operation[t].usage = "none" /\ operation[t].dispatch = "none"
                            /\ operation[t].settled = "no"
      /\ operation \in [Tickets -> OperationRows]
  BY <1>1 DEF OperationRows
<1>6. /\ \A t \in Tickets : provider[t].asked = 0 /\ provider[t].billed = FALSE
      /\ provider \in [Tickets -> ProviderRows]
  BY <1>1, <1>3 DEF ProviderRows
<1>7. /\ \A r \in Slots : slot[r] = IdleSlot
      /\ slot \in [Slots -> SlotRows]
  BY <1>1, IdleFacts
<1>8. receipt \in [Tickets -> ReceiptRows]
  BY <1>1, <1>2, <1>3 DEF ReceiptRows
<1>9. page \in Pages /\ run \in Runs
  BY <1>1, <1>2, <1>3 DEF Pages, Runs
<1>10. SummaryTypeOK
  BY <1>1, <1>3, <1>4, <1>5, <1>6, <1>7, <1>8, <1>9
     DEF SummaryTypeOK, Runs, WindowRows, OperationRows, ReceiptRows, ProviderRows, Pages, SlotRows
<1>11. LedgerSound
  BY <1>5 DEF LedgerSound
<1>12. WindowsSound
  <2>1. ASSUME NEW w \in Windows PROVE Cardinality(Started(w)) <= window[w].attempts
    <3>1. Started(w) = {}
      BY <1>5 DEF Started
    <3> QED
      BY <1>4, <3>1, FS_EmptySet
  <2> QED
    BY <1>4, <1>5, <2>1, TicketFacts DEF WindowsSound
<1>13. MoneySound
  BY <1>5, <1>6, <1>7, IdleFacts DEF MoneySound, Unbilled
<1>14. PageWaits
  BY <1>1 DEF PageWaits
<1>15. \A r \in Slots : SlotSound(slot[r], operation)
  BY <1>7, IdleFacts DEF Quiet
<1> QED
  BY <1>10, <1>11, <1>12, <1>13, <1>14, <1>15 DEF SummaryInv

\* Every step keeps the invariant.
LEMMA SummaryStepKeeps ==
    ASSUME SummaryInv, [SummaryNext]_summaryVars
    PROVE  Kept
<1>1. CASE UNCHANGED summaryVars
  BY <1>1, StutterKeeps
<1>2. ASSUME NEW r \in Slots, Step(r) PROVE Kept
  BY <1>2, PrepareReplayKeeps, PrepareKeeps, StartReplayKeeps, StartActionKeeps,
     ClaimReplayKeeps, ClaimDispatchKeeps, ProviderAnswersKeeps, CompleteKeeps, FailKeeps
     DEF Step
<1>3. ASSUME NEW r \in Slots,
             CallFails(r) \/ Crash(r) \/ Send(r) \/ NotAnswered(r) \/ Answered(r)
      PROVE  Kept
  BY <1>3, CallFailsKeeps, CrashKeeps, SendKeeps, NotAnsweredKeeps, AnsweredKeeps
<1>4. CASE TurnPage \/ Reload \/ StartRun \/ Resume \/ StopRun \/ RunIsOver
  BY <1>4, TurnPageKeeps, ReloadKeeps, StartRunKeeps, ResumeKeeps, StopRunKeeps,
     RunIsOverKeeps
<1>5. CASE CloseLecture \/ RunExpires \/ WindowEnds \/ ContextChanges \/ Reap
  BY <1>5, CloseLectureKeeps, RunExpiresKeeps, WindowEndsKeeps, ContextChangesKeeps, ReapKeeps
<1>6. ASSUME NEW t \in Tickets, LeaseLapses(t) PROVE Kept
  BY <1>6, LeaseLapsesKeeps
<1>7. \/ \E r \in Slots : \/ Step(r)
                          \/ CallFails(r) \/ Crash(r) \/ Send(r) \/ NotAnswered(r) \/ Answered(r)
      \/ TurnPage \/ Reload \/ StartRun \/ Resume \/ StopRun \/ RunIsOver
      \/ CloseLecture \/ RunExpires \/ WindowEnds \/ ContextChanges \/ Reap
      \/ \E t \in Tickets : LeaseLapses(t)
      \/ UNCHANGED summaryVars
  BY Zenon DEF SummaryNext
<1> QED
  BY <1>1, <1>2, <1>3, <1>4, <1>5, <1>6, <1>7

\* The invariant holds, whatever happens.
THEOREM SummaryAlways == SummarySafety => []SummaryInv
<1>1. SummaryInit => SummaryInv
  BY SummaryInvInit
<1>2. SummaryInv /\ [SummaryNext]_summaryVars => SummaryInv'
  BY SummaryStepKeeps DEF Kept
<1> QED
  BY <1>1, <1>2, PTL DEF SummarySafety

\* A window is asked for at most once per start and at most twice in all: a start that was asked
\* for is one of the operations its window counts.
THEOREM NobodyAsksTwice == SummarySafety => []DispatchOnce
<1>1. ASSUME SummaryInv PROVE DispatchOnce
  <2>1. ASSUME NEW w \in Windows
        PROVE  /\ Cardinality({t \in Tickets : t[1] = w /\ provider[t].asked # 0})
                     <= window[w].attempts
               /\ window[w].attempts <= MaxAttempts
    <3>1. PICK asked : asked = {t \in Tickets : t[1] = w /\ provider[t].asked # 0}
      OBVIOUS
    <3>2. Started(w) \in SUBSET Tickets
      BY DEF Started
    <3>3. IsFiniteSet(Started(w))
      BY <3>2, TicketFacts, FS_Subset
    <3>4. asked \subseteq Started(w)
      <4>1. ASSUME NEW t \in Tickets, provider[t].asked # 0 PROVE operation[t].usage # "none"
        <5>1. operation[t].dispatch # "none"
          BY <1>1, <4>1, InvParts DEF MoneySound
        <5> QED
          BY <1>1, <5>1, InvParts, DBParts
      <4> QED
        BY <3>1, <4>1 DEF Started
    <3>5. Cardinality(asked) <= Cardinality(Started(w))
      BY <3>3, <3>4, FS_Subset
    <3>6. IsFiniteSet(asked)
      BY <3>3, <3>4, FS_Subset
    <3>7. Cardinality(asked) \in Nat /\ Cardinality(Started(w)) \in Nat
      BY <3>3, <3>6, FS_CardinalityType
    <3>8. window[w] \in WindowRows /\ Cardinality(Started(w)) <= window[w].attempts
      BY <1>1, InvParts, DBParts
    <3>9. window[w].attempts \in 0..MaxAttempts
      BY <3>8 DEF WindowRows
    <3> QED
      BY <3>1, <3>5, <3>7, <3>8, <3>9 DEF MaxAttempts
  <2>2. \A t \in Tickets : provider[t].asked <= 1
    BY <1>1, InvParts DEF MoneySound
  <2> QED
    BY <2>1, <2>2 DEF DispatchOnce
<1> QED
  BY <1>1, SummaryAlways, PTL

\* What may have cost money is never settled as free: whoever releases an operation knows that
\* nobody was asked, or that the answer was free.
THEOREM NothingPaidIsFree == SummarySafety => []PaidIsCharged
<1>1. ASSUME SummaryInv PROVE PaidIsCharged
  BY <1>1, InvParts DEF MoneySound, Unbilled, PaidIsCharged
<1> QED
  BY <1>1, SummaryAlways, PTL

\* A window runs exactly while an operation of its own run does, one at a time.
THEOREM WindowsFollowTheLedger == SummarySafety => []WindowsTrackOperations
<1>1. ASSUME SummaryInv PROVE WindowsTrackOperations
  <2>1. SummaryTypeOK /\ WindowsSound
    BY <1>1 DEF SummaryInv
  <2> QED
    BY <2>1 DEF WindowsSound, WindowsTrackOperations
<1> QED
  BY <1>1, SummaryAlways, PTL

\* A finished window stays as it is, and only an operation in progress saves a summary.
THEOREM FinishedStays == SummarySafety => SummariesFinal
<1>1. ASSUME SummaryInv, [SummaryNext]_summaryVars PROVE SummariesStep
  BY <1>1, SummaryStepKeeps DEF Kept
<1>2. SummariesFinal <=> [][SummariesStep]_summaryVars
  BY PTL DEF SummariesFinal, SummariesStep
<1> QED
  BY <1>1, <1>2, SummaryAlways, PTL DEF SummarySafety
=============================================================================
