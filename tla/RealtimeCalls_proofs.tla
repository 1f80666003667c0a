------------------------- MODULE RealtimeCalls_proofs -------------------------
(* Proofs about RealtimeCalls for every set of operations and sweepers and every *)
(* number of authorisations.                                                      *)
EXTENDS RealtimeCalls, TLAPS

-----------------------------------------------------------------------------
(* The inductive invariant.  Nearly all of it is about one operation: its row, the *)
(* call at the provider and the invocation that starts it.                          *)

Rows == [usage : {"none", "running", "cancelled"},
         settled : {"no", "released", "actual", "conservative"},
         dispatch : {"none", "leased", "lapsed"},
         receipt : {"none", "activated", "failed", "uncertain"},
         receiptCall : BOOLEAN,
         row : {"none", "creating", "active", "creation_failed", "stopped"} \cup HangupRows,
         known : BOOLEAN,
         lapsed : BOOLEAN,
         overdue : {"no", "silent", "elapsed"}]
Calls == {"none", "asked", "live", "ended", "refused"}
Edges == [pc : {"idle", "start", "startAgain", "claim", "claimAgain", "create", "wait",
                "activate", "activateAgain", "fail", "stop", "hangup", "served", "over"},
          call : BOOLEAN, certain : BOOLEAN]

\* No call was made and none will be.
Free(call, e) == call \in {"none", "refused"} /\ e.pc # "create"

\* What the books say of the operation agrees with each other ...
BooksAgree(op) ==
    /\ op.settled # "no" => op.usage = "cancelled"
    /\ op.usage = "none" => op.dispatch = "none" /\ op.settled = "no"
    /\ op.dispatch = "none" => op.receipt = "none"
    /\ op.receipt = "none" => ~op.known
    /\ op.receipt # "none" => op.known = op.receiptCall
    /\ op.usage = "running" => op.row = IF op.known THEN "active" ELSE "creating"
    /\ op.known /\ op.usage # "running" => op.row \in HangupRows \cup {"stopped"}

\* ... and with the call at the provider and the invocation.
CallAgrees(op, call, e) ==
    /\ op.usage = "none" => e.pc \in {"idle", "start", "startAgain", "over"}
    /\ op.dispatch = "none" =>
          /\ call = "none"
          /\ e.pc \in {"idle", "start", "startAgain", "claim", "claimAgain", "over"}
    /\ op.receipt = "failed" \/ op.settled = "released" => Free(call, e)
    /\ op.known => call \in {"live", "ended"}
    /\ op.row = "stopped" => call = "ended"

\* What the invocation knows is so, and it asks the provider at most once.
EdgeKnows(call, e) ==
    /\ e.call => call \in {"live", "ended"}
    /\ e.certain => call = "refused"
    /\ e.pc \in {"activate", "activateAgain", "hangup"} => e.call
    /\ e.pc = "create" => call = "none"

OpSound(op, call, e) == BooksAgree(op) /\ CallAgrees(op, call, e) /\ EdgeKnows(call, e)

\* A sweeper works on a known call of an operation that has ended, and says "ok" only of a
\* call that is over.
JobSound(s) ==
    jobs[s] # Idle =>
        LET o == jobs[s].op
        IN  /\ o \in Operations
            /\ ops[o].known /\ ops[o].usage # "running"
            /\ jobs[s].outcome = "ok" => provider[o] = "ended"

RealtimeInv ==
    /\ RealtimeTypeOK
    /\ \A o \in Operations : OpSound(ops[o], provider[o], edge[o])
    /\ \A s \in Sweepers : JobSound(s)

\* What no step takes back of an operation.
OpMoves(op, new) ==
    /\ op.settled # "no" => new.settled = op.settled
    /\ op.known /\ op.usage # "running" => new.known /\ new.usage # "running"

\* What SettledOnce says of one step.
SettledMoves == \A o \in Operations : ops[o].settled # "no" => ops'[o].settled = ops[o].settled

ControlTyped ==
    /\ master \in {"none", "active", "lapsed"}
    /\ grants \in 0..MaxGrants
    /\ open \in BOOLEAN /\ enabled \in BOOLEAN
    /\ caption \in Operations \cup {NoOperation}

Jobs == [op : Operations \cup {NoOperation}, outcome : {"none", "ok", "error"}]

-----------------------------------------------------------------------------
(* The books of one operation.                                                *)

\* What the trigger on the ledger writes in the row of a call, and what it leaves.
LEMMA EnqueueFields ==
    ASSUME NEW op \in Rows, op.row # "stopped", NEW new, new = EnqueueHangup(op)
    PROVE  /\ new \in Rows /\ new.usage = op.usage
           /\ new.row = IF op.known THEN "stop_requested" ELSE "creation_failed"
           /\ new.dispatch = op.dispatch /\ new.receipt = op.receipt
           /\ new.receiptCall = op.receiptCall /\ new.known = op.known
           /\ new.settled = op.settled
<1>1. CASE op.known
  <2>1. PICK moved : moved = [op EXCEPT !.row = "stop_requested"]
    OBVIOUS
  <2>2. new = [moved EXCEPT !.lapsed = FALSE]
    BY <1>1, <2>1 DEF EnqueueHangup
  <2>3. /\ moved \in Rows /\ moved.row = "stop_requested" /\ moved.usage = op.usage
        /\ moved.dispatch = op.dispatch /\ moved.receipt = op.receipt
        /\ moved.receiptCall = op.receiptCall /\ moved.known = op.known
        /\ moved.settled = op.settled
    BY <2>1 DEF Rows, HangupRows
  <2>4. /\ new \in Rows /\ new.row = moved.row /\ new.usage = moved.usage
        /\ new.dispatch = moved.dispatch /\ new.receipt = moved.receipt
        /\ new.receiptCall = moved.receiptCall /\ new.known = moved.known
        /\ new.settled = moved.settled
    BY <2>2, <2>3 DEF Rows
  <2> QED
    BY <1>1, <2>3, <2>4
<1>2. CASE ~op.known
  <2>1. PICK moved : moved = [op EXCEPT !.row = "creation_failed"]
    OBVIOUS
  <2>2. new = [moved EXCEPT !.lapsed = FALSE]
    BY <1>2, <2>1 DEF EnqueueHangup
  <2>3. /\ moved \in Rows /\ moved.row = "creation_failed" /\ moved.usage = op.usage
        /\ moved.dispatch = op.dispatch /\ moved.receipt = op.receipt
        /\ moved.receiptCall = op.receiptCall /\ moved.known = op.known
        /\ moved.settled = op.settled
    BY <2>1 DEF Rows
  <2>4. /\ new \in Rows /\ new.row = moved.row /\ new.usage = moved.usage
        /\ new.dispatch = moved.dispatch /\ new.receipt = moved.receipt
        /\ new.receiptCall = moved.receiptCall /\ new.known = moved.known
        /\ new.settled = moved.settled
    BY <2>2, <2>3 DEF Rows
  <2> QED
    BY <1>2, <2>3, <2>4
<1> QED
  BY <1>1, <1>2

\* What ending an operation changes and what it leaves.
LEMMA CancelledFields ==
    ASSUME NEW op \in Rows, NEW new, new = Cancelled(op)
    PROVE  /\ new \in Rows
           /\ new.dispatch = op.dispatch /\ new.receipt = op.receipt
           /\ new.receiptCall = op.receiptCall /\ new.known = op.known
           /\ new.settled = op.settled
           /\ new.usage = IF op.usage = "running" THEN "cancelled" ELSE op.usage
           /\ new.row = IF op.usage = "running" /\ op.row # "stopped"
                        THEN IF op.known THEN "stop_requested" ELSE "creation_failed"
                        ELSE op.row
<1>1. CASE op.usage # "running"
  BY <1>1 DEF Cancelled
<1>2. CASE op.usage = "running"
  <2>1. PICK ended : ended = [op EXCEPT !.usage = "cancelled"]
    OBVIOUS
  <2>2. /\ ended \in Rows /\ ended.usage = "cancelled" /\ ended.row = op.row
        /\ ended.dispatch = op.dispatch /\ ended.receipt = op.receipt
        /\ ended.receiptCall = op.receiptCall /\ ended.known = op.known
        /\ ended.settled = op.settled
    BY <2>1 DEF Rows
  <2>3. new = EnqueueHangup(ended)
    BY <1>2, <2>1 DEF Cancelled
  <2>4. CASE op.row = "stopped"
    <3>1. new = ended
      BY <2>2, <2>3, <2>4 DEF EnqueueHangup
    <3> QED
      BY <1>2, <2>2, <2>4, <3>1
  <2>5. CASE op.row # "stopped"
    <3>1. ended.row # "stopped"
      BY <2>2, <2>5
    <3>2. /\ new \in Rows /\ new.usage = ended.usage
          /\ new.row = IF ended.known THEN "stop_requested" ELSE "creation_failed"
          /\ new.dispatch = ended.dispatch /\ new.receipt = ended.receipt
          /\ new.receiptCall = ended.receiptCall /\ new.known = ended.known
          /\ new.settled = ended.settled
      BY <2>2, <2>3, <3>1, EnqueueFields
    <3> QED
      BY <1>2, <2>2, <2>5, <3>2
  <2> QED
    BY <2>4, <2>5
<1> QED
  BY <1>1, <1>2

\* What a settlement changes and what it leaves.
LEMMA SettledFields ==
    ASSUME NEW op \in Rows, NEW kind \in {"released", "actual", "conservative"},
           NEW new, new = SettledAs(op, kind)
    PROVE  /\ new \in Rows
           /\ new.dispatch = op.dispatch /\ new.receipt = op.receipt
           /\ new.receiptCall = op.receiptCall /\ new.known = op.known
           /\ op.settled # "no" => new = op
           /\ op.settled = "no" =>
                 /\ new.settled = kind
                 /\ new.usage = IF op.usage = "running" THEN "cancelled" ELSE op.usage
                 /\ new.row = IF op.usage = "running" /\ op.row # "stopped"
                              THEN IF op.known THEN "stop_requested" ELSE "creation_failed"
                              ELSE op.row
<1>1. CASE op.settled # "no"
  BY <1>1 DEF SettledAs
<1>2. CASE op.settled = "no"
  <2>1. PICK ended : ended = Cancelled(op)
    OBVIOUS
  <2>2. /\ ended \in Rows
        /\ ended.dispatch = op.dispatch /\ ended.receipt = op.receipt
        /\ ended.receiptCall = op.receiptCall /\ ended.known = op.known
        /\ ended.usage = IF op.usage = "running" THEN "cancelled" ELSE op.usage
        /\ ended.row = IF op.usage = "running" /\ op.row # "stopped"
                       THEN IF op.known THEN "stop_requested" ELSE "creation_failed"
                       ELSE op.row
    BY <2>1, CancelledFields
  <2>3. new = [ended EXCEPT !.settled = kind]
    BY <1>2, <2>1 DEF SettledAs
  <2>4. /\ new \in Rows /\ new.settled = kind /\ new.usage = ended.usage /\ new.row = ended.row
        /\ new.dispatch = ended.dispatch /\ new.receipt = ended.receipt
        /\ new.receiptCall = ended.receiptCall /\ new.known = ended.known
    BY <2>2, <2>3 DEF Rows
  <2> QED
    BY <1>2, <2>2, <2>4
<1> QED
  BY <1>1, <1>2

\* An operation that is stopped keeps its books, and is queued for a hangup if its call is known.
LEMMA CancelledSound ==
    ASSUME NEW op \in Rows, NEW call \in Calls, NEW e \in Edges, OpSound(op, call, e),
           NEW new, new = Cancelled(op)
    PROVE  new \in Rows /\ OpSound(new, call, e) /\ OpMoves(op, new)
<1>1. CASE op.usage # "running"
  BY <1>1 DEF Cancelled, OpMoves
<1>2. CASE op.usage = "running"
  <2>1. op.row # "stopped"
    BY <1>2 DEF OpSound, BooksAgree
  <2>2. /\ new \in Rows /\ new.usage = "cancelled"
        /\ new.row = IF op.known THEN "stop_requested" ELSE "creation_failed"
        /\ new.dispatch = op.dispatch /\ new.receipt = op.receipt
        /\ new.receiptCall = op.receiptCall /\ new.known = op.known
        /\ new.settled = op.settled
    BY <1>2, <2>1, CancelledFields
  <2> QED
    BY <1>2, <2>2 DEF OpSound, BooksAgree, CallAgrees, OpMoves, HangupRows
<1> QED
  BY <1>1, <1>2

\* A settlement keeps the books of a started operation; it is free only if no call can be.
LEMMA SettledSound ==
    ASSUME NEW op \in Rows, NEW call \in Calls, NEW e \in Edges, OpSound(op, call, e),
           op.usage # "none", NEW kind \in {"released", "actual", "conservative"},
           kind = "released" => Free(call, e), NEW new, new = SettledAs(op, kind)
    PROVE  new \in Rows /\ OpSound(new, call, e) /\ OpMoves(op, new) /\ new.usage # "none"
<1>1. op.settled # "no" => op.usage = "cancelled"
  BY DEF OpSound, BooksAgree
<1>2. /\ new \in Rows
      /\ new.dispatch = op.dispatch /\ new.receipt = op.receipt
      /\ new.receiptCall = op.receiptCall /\ new.known = op.known
      /\ op.settled # "no" => new = op
      /\ op.settled = "no" =>
            /\ new.settled = kind
            /\ new.usage = IF op.usage = "running" THEN "cancelled" ELSE op.usage
            /\ new.row = IF op.usage = "running" /\ op.row # "stopped"
                         THEN IF op.known THEN "stop_requested" ELSE "creation_failed"
                         ELSE op.row
  BY <1>1, SettledFields
<1>3. CASE op.settled # "no"
  BY <1>2, <1>3 DEF OpMoves
<1>4. CASE op.settled = "no"
  <2>1. op.usage \in {"running", "cancelled"} /\ new.usage = "cancelled" /\ new.settled = kind
    BY <1>2, <1>4 DEF Rows
  <2>2. /\ op.usage = "running" => new.row = IF op.known THEN "stop_requested" ELSE "creation_failed"
        /\ op.usage = "cancelled" => new.row = op.row
    BY <1>2, <1>4 DEF OpSound, BooksAgree
  <2>3. BooksAgree(new)
    BY <1>2, <2>1, <2>2 DEF OpSound, BooksAgree, HangupRows
  <2>4. CallAgrees(new, call, e)
    BY <1>2, <2>1, <2>2 DEF OpSound, CallAgrees
  <2> QED
    BY <1>2, <1>4, <2>1, <2>3, <2>4 DEF OpSound, OpMoves
<1> QED
  BY <1>3, <1>4

\* What an operation is charged from its receipts: nothing only if no call can be.
LEMMA ChargeSound ==
    ASSUME NEW op \in Rows, NEW call \in Calls, NEW e \in Edges, OpSound(op, call, e)
    PROVE  /\ ChargeOf(op) \in {"released", "actual", "conservative"}
           /\ ChargeOf(op) = "released" => Free(call, e)
BY DEF ChargeOf, OpSound, CallAgrees, Free

\* A start that nobody dispatched is settled as free: nobody can dispatch it any more.
LEMMA UnclaimedSound ==
    ASSUME NEW op \in Rows, NEW call \in Calls, NEW e \in Edges, OpSound(op, call, e),
           op.usage = "running", op.dispatch = "none", NEW new, new = SettledUnclaimed(op)
    PROVE  new \in Rows /\ OpSound(new, call, e) /\ OpMoves(op, new)
<1>1. PICK failed : failed = [op EXCEPT !.dispatch = "lapsed", !.receipt = "failed",
                                        !.receiptCall = FALSE, !.row = "creation_failed"]
  OBVIOUS
<1>2. /\ op.settled = "no" /\ ~op.known /\ Free(call, e)
  BY DEF OpSound, BooksAgree, CallAgrees, Free
<1>3. /\ failed \in Rows /\ failed.dispatch = "lapsed" /\ failed.receipt = "failed"
      /\ ~failed.receiptCall /\ failed.row = "creation_failed" /\ failed.usage = "running"
      /\ ~failed.known /\ failed.settled = "no"
  BY <1>1, <1>2 DEF Rows
<1>4. new = SettledAs(failed, "released")
  BY <1>1 DEF SettledUnclaimed
<1>5. /\ new \in Rows /\ new.dispatch = "lapsed" /\ new.receipt = "failed"
      /\ new.receiptCall = failed.receiptCall /\ new.known = failed.known
      /\ new.settled = "released" /\ new.usage = "cancelled" /\ new.row = "creation_failed"
  BY <1>3, <1>4, SettledFields
<1>6. new.receiptCall \in BOOLEAN /\ new.known \in BOOLEAN /\ op.known \in BOOLEAN
      /\ ~new.receiptCall /\ ~new.known
  BY <1>3, <1>5 DEF Rows
<1> QED
  BY <1>2, <1>5, <1>6 DEF OpSound, BooksAgree, CallAgrees, OpMoves, Free

\* A dispatch that never reported is settled conservatively.
LEMMA StaleSound ==
    ASSUME NEW op \in Rows, NEW call \in Calls, NEW e \in Edges, OpSound(op, call, e),
           op.dispatch # "none", op.settled = "no", NEW new, new = SettledStale(op)
    PROVE  new \in Rows /\ OpSound(new, call, e) /\ OpMoves(op, new) /\ new.dispatch # "none"
<1>1. op.usage \in {"running", "cancelled"}
  BY DEF OpSound, BooksAgree, Rows
<1>2. CASE op.receipt # "none"
  <2>1. PICK kind \in {"released", "conservative"} :
          kind = IF op.receipt = "failed" THEN "released" ELSE "conservative"
    OBVIOUS
  <2>2. new = SettledAs(op, kind) /\ (kind = "released" => Free(call, e))
    BY <1>2, <2>1 DEF SettledStale, OpSound, CallAgrees
  <2>3. new.dispatch = op.dispatch
    BY <2>2, SettledFields DEF OpSound, BooksAgree
  <2> QED
    BY <1>1, <2>2, <2>3, SettledSound
<1>3. CASE op.receipt = "none"
  <2>1. ~op.known /\ op.known = FALSE
    BY <1>3 DEF OpSound, BooksAgree, Rows
  <2>2. PICK stale : stale = [op EXCEPT !.receipt = "uncertain", !.receiptCall = FALSE,
                                        !.row = "creation_failed", !.lapsed = FALSE]
    OBVIOUS
  <2>3. /\ stale \in Rows /\ stale.dispatch = op.dispatch /\ stale.receipt = "uncertain"
        /\ stale.receiptCall = FALSE /\ stale.row = "creation_failed" /\ stale.usage = op.usage
        /\ stale.known = FALSE /\ stale.settled = "no"
    BY <2>1, <2>2 DEF Rows
  <2>4. new = SettledAs(stale, "conservative")
    BY <1>3, <2>1, <2>2 DEF SettledStale
  <2>5. /\ new \in Rows /\ new.dispatch = op.dispatch /\ new.receipt = "uncertain"
        /\ new.receiptCall = FALSE /\ new.known = FALSE
        /\ new.settled = "conservative" /\ new.usage = "cancelled" /\ new.row = "creation_failed"
    BY <1>1, <2>3, <2>4, SettledFields
  <2> QED
    BY <2>1, <2>5 DEF OpSound, BooksAgree, CallAgrees, OpMoves
<1> QED
  BY <1>2, <1>3

\* What no step takes back, no two steps take back.
LEMMA MovesCompose ==
    ASSUME NEW a, NEW b, NEW c, OpMoves(a, b), OpMoves(b, c)
    PROVE  OpMoves(a, c)
BY DEF OpMoves

-----------------------------------------------------------------------------
(* Frames.                                                                    *)

\* The parts of the invariant, one by one.
LEMMA Parts ==
    ASSUME RealtimeInv
    PROVE  /\ ops \in [Operations -> Rows] /\ provider \in [Operations -> Calls]
           /\ edge \in [Operations -> Edges] /\ jobs \in [Sweepers -> Jobs] /\ ControlTyped
           /\ \A o \in Operations : OpSound(ops[o], provider[o], edge[o])
           /\ \A o \in Operations : ops[o] \in Rows /\ provider[o] \in Calls /\ edge[o] \in Edges
           /\ \A s \in Sweepers : JobSound(s)
BY DEF RealtimeInv, RealtimeTypeOK, Rows, Calls, Edges, Jobs, ControlTyped

\* The invariant after any step, from what the step does to each operation and sweeper.
LEMMA StepKeeps ==
    ASSUME RealtimeInv, ControlTyped',
           ops' \in [Operations -> Rows], provider' \in [Operations -> Calls],
           edge' \in [Operations -> Edges], jobs' \in [Sweepers -> Jobs],
           \A o \in Operations : /\ OpSound(ops'[o], provider'[o], edge'[o])
                                 /\ OpMoves(ops[o], ops'[o])
                                 /\ provider[o] = "ended" => provider'[o] = "ended",
           \A s \in Sweepers : jobs'[s] = jobs[s] \/ JobSound(s)'
    PROVE  RealtimeInv' /\ SettledMoves
<1>1. \A o \in Operations : ops'[o].settled # "no" => ops'[o].usage = "cancelled"
  BY DEF OpSound, BooksAgree
<1>2. RealtimeTypeOK'
  BY <1>1 DEF RealtimeTypeOK, Rows, Calls, Edges, Jobs, ControlTyped
<1>3. ASSUME NEW s \in Sweepers PROVE JobSound(s)'
  <2>1. CASE jobs'[s] = jobs[s]
    <3>1. JobSound(s)
      BY Parts
    <3> QED
      BY <2>1, <3>1 DEF JobSound, OpMoves
  <2> QED
    BY <2>1
<1>4. SettledMoves
  BY DEF SettledMoves, OpMoves
<1> QED
  BY <1>2, <1>3, <1>4 DEF RealtimeInv

\* A step of the books alone.
LEMMA BooksKeep ==
    ASSUME RealtimeInv, ControlTyped', UNCHANGED <<provider, edge, jobs>>,
           ops' \in [Operations -> Rows],
           \A o \in Operations : /\ OpSound(ops'[o], provider[o], edge[o])
                                 /\ OpMoves(ops[o], ops'[o])
    PROVE  RealtimeInv' /\ SettledMoves
BY Parts, StepKeeps

\* A step of one operation.
LEMMA OperationKeeps ==
    ASSUME RealtimeInv, ControlTyped', NEW o \in Operations,
           NEW op \in Rows, NEW call \in Calls, NEW e \in Edges,
           OpSound(op, call, e), OpMoves(ops[o], op), provider[o] = "ended" => call = "ended",
           ops' = [ops EXCEPT ![o] = op], provider' = [provider EXCEPT ![o] = call],
           edge' = [edge EXCEPT ![o] = e],
           jobs' \in [Sweepers -> Jobs],
           \A s \in Sweepers : jobs'[s] = jobs[s] \/ JobSound(s)'
    PROVE  RealtimeInv' /\ SettledMoves
<1>1. /\ ops' \in [Operations -> Rows] /\ provider' \in [Operations -> Calls]
      /\ edge' \in [Operations -> Edges]
  BY Parts
<1>2. ASSUME NEW x \in Operations
      PROVE  /\ OpSound(ops'[x], provider'[x], edge'[x])
             /\ OpMoves(ops[x], ops'[x])
             /\ provider[x] = "ended" => provider'[x] = "ended"
  <2>1. CASE x = o
    <3>1. ops'[x] = op /\ provider'[x] = call /\ edge'[x] = e
      BY <2>1, Parts
    <3> QED
      BY <2>1, <3>1
  <2>2. CASE x # o
    <3>1. ops'[x] = ops[x] /\ provider'[x] = provider[x] /\ edge'[x] = edge[x]
      BY <2>2, Parts
    <3> QED
      BY <3>1, Parts DEF OpMoves
  <2> QED
    BY <2>1, <2>2
<1> QED
  BY <1>1, <1>2, StepKeeps

\* An invocation may go on to a stage that knows no more than it does.
LEMMA GotoSound ==
    ASSUME NEW op \in Rows, NEW call \in Calls, NEW e \in Edges, OpSound(op, call, e),
           NEW pc \in {"idle", "start", "startAgain", "claim", "claimAgain", "wait", "activate",
                       "activateAgain", "fail", "stop", "hangup", "served", "over"},
           op.usage = "none" => pc \in {"idle", "start", "startAgain", "over"},
           op.dispatch = "none" =>
              pc \in {"idle", "start", "startAgain", "claim", "claimAgain", "over"},
           pc \in {"activate", "activateAgain", "hangup"} => e.call,
           NEW new, new = [e EXCEPT !.pc = pc]
    PROVE  new \in Edges /\ OpSound(op, call, new)
<1>1. new \in Edges /\ new.pc = pc /\ new.call = e.call /\ new.certain = e.certain
  BY DEF Edges
<1> QED
  BY <1>1 DEF OpSound, CallAgrees, EdgeKnows, Free

\* A call that exists may end.
LEMMA EndedSound ==
    ASSUME NEW op \in Rows, NEW call \in {"live", "ended"}, NEW e \in Edges, OpSound(op, call, e)
    PROVE  OpSound(op, "ended", e)
BY DEF OpSound, CallAgrees, EdgeKnows, Free

\* A step of the invocation alone.
LEMMA GotoKeeps ==
    ASSUME RealtimeInv, NEW o \in Operations, UNCHANGED <<database, provider, jobs>>,
           NEW pc \in {"idle", "start", "startAgain", "claim", "claimAgain", "wait", "activate",
                       "activateAgain", "fail", "stop", "hangup", "served", "over"},
           ops[o].usage = "none" => pc \in {"idle", "start", "startAgain", "over"},
           ops[o].dispatch = "none" =>
              pc \in {"idle", "start", "startAgain", "claim", "claimAgain", "over"},
           pc \in {"activate", "activateAgain", "hangup"} => edge[o].call,
           Goto(o, pc)
    PROVE  RealtimeInv' /\ SettledMoves
<1>1. PICK e : e = [edge[o] EXCEPT !.pc = pc]
  OBVIOUS
<1>2. e \in Edges /\ OpSound(ops[o], provider[o], e)
  BY <1>1, Parts, GotoSound
<1>3. /\ edge' = [edge EXCEPT ![o] = e] /\ provider' = [provider EXCEPT ![o] = provider[o]]
      /\ ops' = [ops EXCEPT ![o] = ops[o]] /\ jobs' = jobs
  BY <1>1, Parts DEF Goto, database
<1>4. ControlTyped' /\ jobs' \in [Sweepers -> Jobs] /\ OpMoves(ops[o], ops[o])
  BY <1>3, Parts DEF ControlTyped, database, OpMoves
<1> QED
  BY <1>2, <1>3, <1>4, Parts, OperationKeeps

\* A step of the invocation and of the row of its operation.
LEMMA RowGotoKeeps ==
    ASSUME RealtimeInv, NEW o \in Operations, ControlTyped', UNCHANGED <<provider, jobs>>,
           NEW op \in Rows, OpSound(op, provider[o], edge[o]), OpMoves(ops[o], op),
           ops' = [ops EXCEPT ![o] = op],
           NEW pc \in {"idle", "start", "startAgain", "claim", "claimAgain", "wait", "activate",
                       "activateAgain", "fail", "stop", "hangup", "served", "over"},
           op.usage = "none" => pc \in {"idle", "start", "startAgain", "over"},
           op.dispatch = "none" =>
              pc \in {"idle", "start", "startAgain", "claim", "claimAgain", "over"},
           pc \in {"activate", "activateAgain", "hangup"} => edge[o].call,
           Goto(o, pc)
    PROVE  RealtimeInv' /\ SettledMoves
<1>1. PICK e : e = [edge[o] EXCEPT !.pc = pc]
  OBVIOUS
<1>2. e \in Edges /\ OpSound(op, provider[o], e)
  BY <1>1, Parts, GotoSound
<1>3. /\ edge' = [edge EXCEPT ![o] = e] /\ provider' = [provider EXCEPT ![o] = provider[o]]
      /\ jobs' = jobs
  BY <1>1, Parts DEF Goto
<1> QED
  BY <1>2, <1>3, Parts, OperationKeeps

-----------------------------------------------------------------------------
(* What the settlements do to all operations.                                *)

\* Reaping settles stale work of an operation, and leaves every other alone.
LEMMA ReapedSound ==
    ASSUME RealtimeInv, NEW o \in Operations, NEW new, new = Reaped(ops)[o]
    PROVE  new \in Rows /\ OpSound(new, provider[o], edge[o]) /\ OpMoves(ops[o], new)
<1>1. ops[o] \in Rows /\ provider[o] \in Calls /\ edge[o] \in Edges
      /\ OpSound(ops[o], provider[o], edge[o])
  BY Parts
<1>2. \/ new = ops[o]
      \/ ops[o].settled = "no" /\ ops[o].dispatch = "lapsed" /\ new = SettledStale(ops[o])
      \/ ops[o].usage = "running" /\ ops[o].dispatch = "none" /\ new = SettledUnclaimed(ops[o])
  BY DEF Reaped
<1>3. CASE new = ops[o]
  BY <1>1, <1>3 DEF OpMoves
<1>4. CASE ops[o].settled = "no" /\ ops[o].dispatch = "lapsed" /\ new = SettledStale(ops[o])
  BY <1>1, <1>4, StaleSound
<1>5. CASE ops[o].usage = "running" /\ ops[o].dispatch = "none" /\ new = SettledUnclaimed(ops[o])
  BY <1>1, <1>5, UnclaimedSound
<1> QED
  BY <1>2, <1>3, <1>4, <1>5

\* Finishing the started operations of a set, from rows that are sound, is a step of the books.
LEMMA FinishKeeps ==
    ASSUME RealtimeInv, NEW S \in SUBSET Operations, NEW from, Finish(S, from),
           UNCHANGED <<master, grants, open, provider, edge, jobs>>,
           \A o \in Operations : /\ from[o] \in Rows
                                 /\ OpSound(from[o], provider[o], edge[o])
                                 /\ OpMoves(ops[o], from[o])
                                 /\ o \in S => from[o].usage # "none"
    PROVE  RealtimeInv' /\ SettledMoves
<1>1. ControlTyped'
  BY Parts DEF ControlTyped, Finish
<1>2. ASSUME NEW o \in Operations
      PROVE  ops'[o] \in Rows /\ OpSound(ops'[o], provider[o], edge[o]) /\ OpMoves(ops[o], ops'[o])
  <2>1. provider[o] \in Calls /\ edge[o] \in Edges /\ from[o] \in Rows
        /\ OpSound(from[o], provider[o], edge[o]) /\ OpMoves(ops[o], from[o])
    BY Parts
  <2>2. CASE o \in S
    <3>1. PICK kind : kind = ChargeOf(from[o])
      OBVIOUS
    <3>2. kind \in {"released", "actual", "conservative"}
          /\ (kind = "released" => Free(provider[o], edge[o]))
      BY <2>1, <3>1, ChargeSound
    <3>3. ops'[o] = SettledAs(from[o], kind)
      BY <2>2, <3>1 DEF Finish
    <3>4. from[o].usage # "none"
      BY <2>2
    <3>5. ops'[o] \in Rows /\ OpSound(ops'[o], provider[o], edge[o]) /\ OpMoves(from[o], ops'[o])
      BY <2>1, <3>2, <3>3, <3>4, SettledSound
    <3> QED
      BY <2>1, <3>5, MovesCompose
  <2>3. CASE o \notin S
    <3>1. ops'[o] = from[o]
      BY <2>3 DEF Finish
    <3> QED
      BY <2>1, <3>1
  <2> QED
    BY <2>2, <2>3
<1>3. ops' \in [Operations -> Rows]
  BY <1>2 DEF Finish
<1> QED
  BY <1>1, <1>2, <1>3, BooksKeep

\* Finishing one operation that was dispatched.
LEMMA FinishOneKeeps ==
    ASSUME RealtimeInv, NEW o \in Operations, ops[o].dispatch # "none", Finish({o}, ops),
           UNCHANGED <<master, grants, open, provider, edge, jobs>>
    PROVE  RealtimeInv' /\ SettledMoves
<1>1. {o} \in SUBSET Operations
  OBVIOUS
<1>2. \A x \in Operations : /\ ops[x] \in Rows
                            /\ OpSound(ops[x], provider[x], edge[x])
                            /\ OpMoves(ops[x], ops[x])
                            /\ x \in {o} => ops[x].usage # "none"
  BY Parts DEF OpMoves, OpSound, BooksAgree
<1> QED
  BY <1>1, <1>2, FinishKeeps

\* What a report on the provider leaves: bound to the call the invocation knows, and settled
\* unless it runs.
LEMMA FinalizedSound ==
    ASSUME RealtimeInv, NEW o \in Operations, NEW outcome \in {"activated", "failed", "uncertain"},
           Accepts(o, outcome), edge[o].pc \in {"activate", "activateAgain", "fail"},
           outcome = "activated" => edge[o].call, outcome = "failed" => edge[o].certain,
           NEW new, new = Finalized(o, outcome)
    PROVE  /\ new \in Rows /\ OpSound(new, provider[o], edge[o]) /\ OpMoves(ops[o], new)
           /\ new.usage # "none" /\ new.dispatch # "none"
<1>1. ops[o] \in Rows /\ provider[o] \in Calls /\ edge[o] \in Edges
      /\ OpSound(ops[o], provider[o], edge[o]) /\ edge[o].call \in BOOLEAN
  BY Parts DEF Edges
<1> DEFINE op == ops[o]
           call == provider[o]
           e == edge[o]
<1>2. op.dispatch # "none" /\ op.usage # "none"
  BY <1>1 DEF Accepts, OpSound, BooksAgree
<1>3. CASE Replayed(op, outcome)
  BY <1>1, <1>2, <1>3 DEF Finalized, OpMoves
<1>4. CASE ~Replayed(op, outcome)
  <2>1. PICK effective : effective = Effective(o, outcome)
    OBVIOUS
  <2>2. /\ effective \in {"activated", "failed", "uncertain"}
        /\ effective = "activated" => e.call /\ LiveAuthority(o)
        /\ effective = "failed" => e.certain
    BY <2>1 DEF Effective
  <2>3. \/ op.receipt = "none" /\ ~op.known
        \/ op.receipt = "activated" /\ outcome = "uncertain" /\ op.receiptCall = e.call /\ op.known
    BY <1>4 DEF Replayed, Accepts
  <2>4. PICK bound : bound = [op EXCEPT !.receiptCall = e.call, !.known = e.call]
    OBVIOUS
  <2>5. /\ bound \in Rows /\ bound.receiptCall = e.call /\ bound.known = e.call
        /\ bound.usage = op.usage /\ bound.settled = op.settled /\ bound.dispatch = op.dispatch
        /\ bound.receipt = op.receipt /\ bound.row = op.row
    BY <1>1, <2>4 DEF Rows
  <2>6. e.call => call \in {"live", "ended"}
    BY <1>1 DEF OpSound, EdgeKnows
  <2>7. e.certain => call = "refused"
    BY <1>1 DEF OpSound, EdgeKnows
  <2>8. CASE effective = "activated"
    <3>1. new = [bound EXCEPT !.receipt = "activated", !.row = "active"]
      BY <1>4, <2>1, <2>4, <2>8 DEF Finalized
    <3>2. op.usage = "running" /\ op.settled = "no" /\ e.call /\ op.receipt = "none"
      BY <2>1, <2>2, <2>3, <2>8 DEF LiveAuthority, Running, Effective
    <3>3. /\ new \in Rows /\ new.receiptCall = bound.receiptCall /\ new.known = bound.known
          /\ new.usage = bound.usage /\ new.settled = bound.settled
          /\ new.dispatch = bound.dispatch /\ new.receipt = "activated" /\ new.row = "active"
      BY <2>5, <3>1 DEF Rows
    <3> HIDE DEF op, call, e
    <3>4. OpSound(op, call, e)
      BY <1>1 DEF op, call, e
    <3>5. BooksAgree(new)
      BY <1>2, <2>5, <3>2, <3>3 DEF BooksAgree
    <3>6. CallAgrees(new, call, e)
      BY <1>2, <2>5, <2>6, <3>2, <3>3 DEF CallAgrees
    <3>7. EdgeKnows(call, e) /\ OpMoves(op, new)
      BY <3>2, <3>4 DEF OpSound, OpMoves
    <3> QED
      BY <1>2, <2>5, <3>3, <3>5, <3>6, <3>7 DEF OpSound, op, call, e
  <2>9. CASE effective # "activated"
    <3>1. PICK receipt : receipt = IF op.receipt = "none" THEN effective ELSE op.receipt
      OBVIOUS
    <3>2. receipt \in {"activated", "failed", "uncertain"}
          /\ (receipt = "failed" => e.certain /\ effective = "failed")
      BY <1>1, <2>2, <2>3, <2>9, <3>1 DEF Rows
    <3>3. PICK kind : kind = IF effective = "failed" THEN "released" ELSE "conservative"
      OBVIOUS
    <3>4. kind \in {"released", "actual", "conservative"} /\ (kind = "released" => e.certain)
      BY <2>2, <3>3
    <3>5. PICK row : row = IF bound.known THEN "stop_requested" ELSE "creation_failed"
      OBVIOUS
    <3>6. PICK told : told = [bound EXCEPT !.receipt = receipt, !.lapsed = FALSE, !.row = row]
      OBVIOUS
    <3>7. new = SettledAs(told, kind)
      <4>1. told = [bound EXCEPT !.receipt = IF op.receipt = "none" THEN effective ELSE @,
                                 !.lapsed = FALSE,
                                 !.row = IF bound.known THEN "stop_requested"
                                         ELSE "creation_failed"]
        BY <2>5, <3>1, <3>5, <3>6
      <4> QED
        BY <1>4, <2>1, <2>4, <2>9, <3>3, <4>1 DEF Finalized
    <3> HIDE DEF op, call, e
    <3>8. /\ told \in Rows /\ told.receipt = receipt /\ told.row = row
          /\ told.usage = bound.usage /\ told.settled = bound.settled
          /\ told.dispatch = bound.dispatch /\ told.receiptCall = bound.receiptCall
          /\ told.known = bound.known
      <4>1. PICK first : first = [bound EXCEPT !.receipt = receipt]
        OBVIOUS
      <4>2. /\ first \in Rows /\ first.receipt = receipt
            /\ first.usage = bound.usage /\ first.settled = bound.settled
            /\ first.dispatch = bound.dispatch /\ first.receiptCall = bound.receiptCall
            /\ first.known = bound.known
        BY <2>5, <3>2, <4>1 DEF Rows
      <4>3. PICK second : second = [first EXCEPT !.lapsed = FALSE]
        OBVIOUS
      <4>4. /\ second \in Rows /\ second.receipt = first.receipt
            /\ second.usage = first.usage /\ second.settled = first.settled
            /\ second.dispatch = first.dispatch /\ second.receiptCall = first.receiptCall
            /\ second.known = first.known
        BY <4>2, <4>3 DEF Rows
      <4>5. told = [second EXCEPT !.row = row]
        BY <3>6, <4>1, <4>3
      <4>6. row \in {"none", "creating", "active", "creation_failed", "stopped"} \cup HangupRows
        BY <3>5 DEF HangupRows
      <4>7. /\ told \in Rows /\ told.receipt = second.receipt /\ told.row = row
            /\ told.usage = second.usage /\ told.settled = second.settled
            /\ told.dispatch = second.dispatch /\ told.receiptCall = second.receiptCall
            /\ told.known = second.known
        BY <4>4, <4>5, <4>6 DEF Rows
      <4> QED
        BY <4>2, <4>4, <4>7
    <3>9. OpSound(op, call, e) /\ op \in Rows
      BY <1>1 DEF op, call, e
    <3>10. op.usage \in {"running", "cancelled"} /\ (op.settled # "no" => op.usage = "cancelled")
      BY <1>2, <3>9 DEF OpSound, BooksAgree, Rows
    <3>11. row \in {"stop_requested", "creation_failed"} /\ row # "stopped"
      BY <3>5
    <3>12. /\ new \in Rows
           /\ new.dispatch = told.dispatch /\ new.receipt = told.receipt
           /\ new.receiptCall = told.receiptCall /\ new.known = told.known
           /\ told.settled # "no" => new = told
           /\ told.settled = "no" =>
                 /\ new.settled = kind
                 /\ new.usage = IF told.usage = "running" THEN "cancelled" ELSE told.usage
                 /\ new.row = IF told.usage = "running" /\ told.row # "stopped"
                              THEN IF told.known THEN "stop_requested" ELSE "creation_failed"
                              ELSE told.row
      BY <3>4, <3>7, <3>8, SettledFields
    <3>13. /\ new.usage = "cancelled" /\ new.row = row
           /\ new.settled = IF op.settled = "no" THEN kind ELSE op.settled
      BY <2>5, <3>5, <3>8, <3>10, <3>11, <3>12
    <3>14. new.known = e.call /\ new.receiptCall = e.call /\ new.receipt = receipt
           /\ new.dispatch = op.dispatch
      BY <2>5, <3>8, <3>12
    <3>15. row = IF e.call THEN "stop_requested" ELSE "creation_failed"
      BY <2>5, <3>5
    <3>16. BooksAgree(new)
      BY <1>2, <3>2, <3>13, <3>14, <3>15 DEF BooksAgree, HangupRows
    <3>17. e.pc # "create"
      BY DEF e
    <3>18. CallAgrees(new, call, e)
      BY <1>2, <2>6, <2>7, <3>2, <3>4, <3>9, <3>11, <3>13, <3>14, <3>17
         DEF CallAgrees, OpSound, Free
    <3>19. op.known => e.call
      BY <2>3, <3>9 DEF OpSound, BooksAgree
    <3>20. OpMoves(op, new)
      BY <3>13, <3>14, <3>19 DEF OpMoves
    <3> QED
      BY <1>2, <3>9, <3>12, <3>13, <3>14, <3>16, <3>18, <3>20 DEF OpSound, op, call, e
  <2> QED
    BY <2>8, <2>9
<1> QED
  BY <1>3, <1>4

-----------------------------------------------------------------------------
(* The Edge invocation.                                                      *)

\* Beginning reaps stale work and may refuse the start.
LEMMA BeginKeeps ==
    ASSUME RealtimeInv, NEW o \in Operations, Begin(o)
    PROVE  RealtimeInv' /\ SettledMoves
<1>1. PICK next \in {"start", "over"} : Goto(o, next)
  BY DEF Begin
<1>2. ControlTyped' /\ jobs' = jobs /\ provider' = provider
  BY Parts DEF ControlTyped, Begin
<1>3. ASSUME NEW x \in Operations
      PROVE  ops'[x] \in Rows /\ OpSound(ops'[x], provider[x], edge[x]) /\ OpMoves(ops[x], ops'[x])
  <2>1. ops'[x] = Reaped(ops)[x]
    BY DEF Begin
  <2> QED
    BY <2>1, ReapedSound
<1>4. ops' \in [Operations -> Rows]
  BY <1>3 DEF Begin, Reaped
<1>5. ASSUME NEW x \in Operations
      PROVE  edge'[x] \in Edges /\ OpSound(ops'[x], provider'[x], edge'[x])
  <2>1. CASE x = o
    <3>1. edge'[x] = [edge[x] EXCEPT !.pc = next]
      BY <1>1, <2>1, Parts DEF Goto
    <3>2. provider[x] \in Calls /\ edge[x] \in Edges /\ provider'[x] = provider[x]
      BY <1>2, Parts
    <3>3. ops'[x] \in Rows /\ OpSound(ops'[x], provider[x], edge[x])
      BY <1>3
    <3>4. next \in {"idle", "start", "startAgain", "claim", "claimAgain", "wait", "activate",
                    "activateAgain", "fail", "stop", "hangup", "served", "over"}
          /\ next \in {"idle", "start", "startAgain", "over"}
          /\ next \in {"idle", "start", "startAgain", "claim", "claimAgain", "over"}
          /\ next \notin {"activate", "activateAgain", "hangup"}
      OBVIOUS
    <3>5. edge'[x] \in Edges /\ OpSound(ops'[x], provider[x], edge'[x])
      BY <3>1, <3>2, <3>3, <3>4, GotoSound
    <3> QED
      BY <3>2, <3>5
  <2>2. CASE x # o
    <3>1. edge'[x] = edge[x] /\ provider'[x] = provider[x]
      BY <1>1, <1>2, <2>2, Parts DEF Goto
    <3> QED
      BY <1>3, <3>1, Parts
  <2> QED
    BY <2>1, <2>2
<1>6. edge' \in [Operations -> Edges]
  BY <1>1, <1>5, Parts DEF Goto
<1> QED
  BY <1>2, <1>3, <1>4, <1>5, <1>6, Parts, StepKeeps

\* A start that commits makes a fresh row or finds the operation already started.
LEMMA StartCommitsKeeps ==
    ASSUME RealtimeInv, NEW o \in Operations, StartCommits(o)
    PROVE  RealtimeInv' /\ SettledMoves
<1>1. PICK next \in {"claim", "startAgain", "over"} : Goto(o, next)
  BY DEF StartCommits
<1>2. ControlTyped' /\ jobs' = jobs /\ provider' = provider
  BY Parts DEF ControlTyped, StartCommits
<1>3. ops[o] \in Rows /\ OpSound(ops[o], provider[o], edge[o])
  BY Parts
<1>4. next \in {"idle", "start", "startAgain", "claim", "claimAgain", "wait", "activate",
                "activateAgain", "fail", "stop", "hangup", "served", "over"}
      /\ next \in {"idle", "start", "startAgain", "claim", "claimAgain", "over"}
      /\ next \notin {"activate", "activateAgain", "hangup"}
  OBVIOUS
<1>5. CASE ops[o].usage # "none"
  <2>1. ops' = [ops EXCEPT ![o] = ops[o]] /\ OpMoves(ops[o], ops[o])
    BY <1>5, Parts DEF StartCommits, OpMoves
  <2> QED
    BY <1>1, <1>2, <1>3, <1>4, <1>5, <2>1, RowGotoKeeps
<1>6. CASE ops[o].usage = "none"
  <2>1. PICK op : op = [NotStarted EXCEPT !.usage = "running", !.row = "creating"]
    OBVIOUS
  <2>2. op = [usage |-> "running", settled |-> "no", dispatch |-> "none",
              receipt |-> "none", receiptCall |-> FALSE, row |-> "creating",
              known |-> FALSE, lapsed |-> FALSE, overdue |-> "no"]
    BY <2>1 DEF NotStarted
  <2>3. op \in Rows
    BY <2>2 DEF Rows
  <2>4. /\ op.usage = "running" /\ op.settled = "no" /\ op.dispatch = "none"
        /\ op.receipt = "none" /\ op.row = "creating" /\ op.known = FALSE
    BY <2>2
  <2>5. ops' = [ops EXCEPT ![o] = op]
    BY <1>6, <2>1 DEF StartCommits
  <2>6. ops[o].dispatch = "none" /\ ops[o].settled = "no" /\ ~ops[o].known
    BY <1>3, <1>6 DEF OpSound, BooksAgree
  <2>7. OpSound(op, provider[o], edge[o])
    <3>1. BooksAgree(op)
      BY <2>4 DEF BooksAgree
    <3>2. CallAgrees(op, provider[o], edge[o])
      BY <1>3, <2>4, <2>6 DEF OpSound, CallAgrees
    <3> QED
      BY <1>3, <3>1, <3>2 DEF OpSound
  <2>8. OpMoves(ops[o], op)
    BY <2>6 DEF OpMoves
  <2>9. op.usage # "none"
    BY <2>4
  <2> QED
    BY <1>1, <1>2, <1>4, <2>3, <2>5, <2>7, <2>8, <2>9, RowGotoKeeps
<1> QED
  BY <1>5, <1>6

\* A start that fails.
LEMMA StartFailsKeeps ==
    ASSUME RealtimeInv, NEW o \in Operations, StartFails(o)
    PROVE  RealtimeInv' /\ SettledMoves
<1>1. PICK next \in {"startAgain", "over"} : Goto(o, next)
  BY DEF StartFails
<1> QED
  BY <1>1, GotoKeeps DEF StartFails

\* The one claim of a start dispatches it; only now may the invocation ask the provider.
LEMMA ClaimCommitsKeeps ==
    ASSUME RealtimeInv, NEW o \in Operations, ClaimCommits(o)
    PROVE  RealtimeInv' /\ SettledMoves
<1>1. PICK next \in {"create", "claimAgain", "over"} : Goto(o, next)
  BY DEF ClaimCommits
<1>2. ControlTyped' /\ jobs' = jobs /\ provider' = provider
  BY Parts DEF ControlTyped, ClaimCommits
<1>3. ops[o] \in Rows /\ provider[o] \in Calls /\ edge[o] \in Edges
      /\ OpSound(ops[o], provider[o], edge[o])
  BY Parts
<1>4. ops[o].usage = "running" /\ ops[o].dispatch = "none"
  BY DEF ClaimCommits, MayClaim, Running
<1>5. ops[o].receipt = "none" /\ ops[o].settled = "no" /\ ~ops[o].known /\ provider[o] = "none"
  BY <1>3, <1>4 DEF OpSound, BooksAgree, CallAgrees
<1>6. PICK op : op = [ops[o] EXCEPT !.dispatch = "leased"]
  OBVIOUS
<1>7. /\ op \in Rows /\ op.dispatch = "leased" /\ op.usage = "running" /\ op.settled = "no"
      /\ op.receipt = "none" /\ op.known = ops[o].known /\ op.row = ops[o].row
  BY <1>3, <1>4, <1>5, <1>6 DEF Rows
<1>8. PICK e : e = [edge[o] EXCEPT !.pc = next]
  OBVIOUS
<1>9. e \in Edges /\ e.pc = next /\ e.call = edge[o].call /\ e.certain = edge[o].certain
  BY <1>3, <1>8 DEF Edges
<1>10. OpSound(op, provider[o], e)
  <2>1. BooksAgree(op)
    BY <1>3, <1>4, <1>5, <1>7 DEF OpSound, BooksAgree
  <2>2. CallAgrees(op, provider[o], e)
    <3>1. op.row # "stopped"
      BY <1>3, <1>4, <1>7 DEF OpSound, BooksAgree
    <3> QED
      BY <1>5, <1>7, <3>1 DEF CallAgrees
  <2>3. EdgeKnows(provider[o], e)
    BY <1>3, <1>5, <1>9 DEF OpSound, EdgeKnows
  <2> QED
    BY <2>1, <2>2, <2>3 DEF OpSound
<1>11. OpMoves(ops[o], op)
  BY <1>4, <1>5 DEF OpMoves
<1>12. /\ ops' = [ops EXCEPT ![o] = op] /\ edge' = [edge EXCEPT ![o] = e]
       /\ provider' = [provider EXCEPT ![o] = provider[o]]
  <2>1. ops' = [ops EXCEPT ![o].dispatch = "leased"]
    BY DEF ClaimCommits
  <2> QED
    BY <1>1, <1>2, <1>6, <1>8, <2>1, Parts DEF Goto
<1>13. jobs' \in [Sweepers -> Jobs] /\ \A s \in Sweepers : jobs'[s] = jobs[s]
  BY <1>2, Parts
<1> QED
  BY <1>2, <1>3, <1>7, <1>9, <1>10, <1>11, <1>12, <1>13, OperationKeeps

\* A refused claim recovers a dispatch whose lease ran out.
LEMMA ClaimRefusedKeeps ==
    ASSUME RealtimeInv, NEW o \in Operations, ClaimRefused(o)
    PROVE  RealtimeInv' /\ SettledMoves
<1>1. ControlTyped' /\ jobs' = jobs /\ provider' = provider /\ Goto(o, "over")
  BY Parts DEF ControlTyped, ClaimRefused
<1>2. ops[o] \in Rows /\ provider[o] \in Calls /\ edge[o] \in Edges
      /\ OpSound(ops[o], provider[o], edge[o])
  BY Parts
<1>3. CASE ops[o].dispatch = "lapsed" /\ ops[o].settled = "no"
  <2>1. PICK op : op = SettledStale(ops[o])
    OBVIOUS
  <2>2. op \in Rows /\ OpSound(op, provider[o], edge[o]) /\ OpMoves(ops[o], op)
    BY <1>2, <1>3, <2>1, StaleSound
  <2>3. ops' = [ops EXCEPT ![o] = op]
    BY <1>3, <2>1 DEF ClaimRefused
  <2> QED
    BY <1>1, <2>2, <2>3, RowGotoKeeps
<1>4. CASE ~(ops[o].dispatch = "lapsed" /\ ops[o].settled = "no")
  <2>1. ops' = [ops EXCEPT ![o] = ops[o]] /\ OpMoves(ops[o], ops[o])
    BY <1>4, Parts DEF ClaimRefused, OpMoves
  <2> QED
    BY <1>1, <1>2, <2>1, RowGotoKeeps
<1> QED
  BY <1>3, <1>4

\* A claim that fails.
LEMMA ClaimFailsKeeps ==
    ASSUME RealtimeInv, NEW o \in Operations, ClaimFails(o)
    PROVE  RealtimeInv' /\ SettledMoves
<1>1. PICK next \in {"claimAgain", "over"} : Goto(o, next)
  BY DEF ClaimFails
<1>2. OpSound(ops[o], provider[o], edge[o]) /\ ops[o].usage # "none"
  BY Parts DEF ClaimFails, OpSound, CallAgrees
<1> QED
  BY <1>1, <1>2, GotoKeeps DEF ClaimFails

\* The invocation asks the provider, once.
LEMMA AskProviderKeeps ==
    ASSUME RealtimeInv, NEW o \in Operations, AskProvider(o)
    PROVE  RealtimeInv' /\ SettledMoves
<1>1. ops[o] \in Rows /\ provider[o] \in Calls /\ edge[o] \in Edges
      /\ OpSound(ops[o], provider[o], edge[o]) /\ edge[o].pc = "create"
  BY Parts DEF AskProvider
<1>2. PICK e : e = [edge[o] EXCEPT !.pc = "wait"]
  OBVIOUS
<1>3. e \in Edges /\ e.pc = "wait" /\ e.call = edge[o].call /\ e.certain = edge[o].certain
  BY <1>1, <1>2 DEF Edges
<1>4. "asked" \in Calls
  BY DEF Calls
<1>5. ControlTyped' /\ jobs' \in [Sweepers -> Jobs] /\ jobs' = jobs /\ ops' = ops
  BY Parts DEF AskProvider, database, ControlTyped
<1>6. /\ ops' = [ops EXCEPT ![o] = ops[o]] /\ edge' = [edge EXCEPT ![o] = e]
      /\ provider' = [provider EXCEPT ![o] = "asked"]
  BY <1>2, <1>5, Parts DEF AskProvider, Goto
<1>7. provider[o] = "none" /\ OpMoves(ops[o], ops[o])
  BY <1>1 DEF OpSound, EdgeKnows, OpMoves
<1>8. OpSound(ops[o], "asked", e)
  BY <1>1, <1>3, <1>7 DEF OpSound, CallAgrees, EdgeKnows, Free
<1> QED
  BY <1>1, <1>3, <1>4, <1>5, <1>6, <1>7, <1>8, OperationKeeps

\* Any answer of the provider, or none: what the invocation takes it for is so.
LEMMA LearnsKeeps ==
    ASSUME RealtimeInv, NEW o \in Operations, edge[o].pc = "wait",
           NEW pc \in {"activate", "fail"}, NEW known \in BOOLEAN, NEW certain \in BOOLEAN,
           pc = "activate" => known, known => provider[o] \in {"live", "ended"},
           certain => provider[o] = "refused",
           edge' = [edge EXCEPT ![o] = [pc |-> pc, call |-> known, certain |-> certain]],
           UNCHANGED <<database, provider, jobs>>
    PROVE  RealtimeInv' /\ SettledMoves
<1>1. ops[o] \in Rows /\ provider[o] \in Calls /\ edge[o] \in Edges
      /\ OpSound(ops[o], provider[o], edge[o])
  BY Parts
<1>2. PICK e : e = [pc |-> pc, call |-> known, certain |-> certain]
  OBVIOUS
<1>3. e.pc = pc /\ e.call = known /\ e.certain = certain
  BY <1>2
<1>4. e \in Edges
  BY <1>2 DEF Edges
<1>5. ControlTyped' /\ jobs' \in [Sweepers -> Jobs] /\ jobs' = jobs /\ ops' = ops
  BY Parts DEF database, ControlTyped
<1>6. /\ ops' = [ops EXCEPT ![o] = ops[o]] /\ edge' = [edge EXCEPT ![o] = e]
      /\ provider' = [provider EXCEPT ![o] = provider[o]]
  BY <1>2, <1>5, Parts
<1>7. OpMoves(ops[o], ops[o])
  BY DEF OpMoves
<1>8. OpSound(ops[o], provider[o], e)
  BY <1>1, <1>3 DEF OpSound, CallAgrees, EdgeKnows, Free
<1> QED
  BY <1>1, <1>4, <1>5, <1>6, <1>7, <1>8, OperationKeeps

\* The provider's answer, its error, and no answer at all.
LEMMA AnswersKeep ==
    ASSUME RealtimeInv, NEW o \in Operations, CallAnswered(o) \/ CallRefused(o) \/ CallUnknown(o)
    PROVE  RealtimeInv' /\ SettledMoves
<1>1. CASE CallAnswered(o)
  <2>1. PICK pc \in {"activate", "fail"} :
          edge' = [edge EXCEPT ![o] = [pc |-> pc, call |-> TRUE, certain |-> FALSE]]
    BY <1>1 DEF CallAnswered
  <2> QED
    BY <1>1, <2>1, LearnsKeeps DEF CallAnswered
<1>2. CASE CallRefused(o)
  BY <1>2, LearnsKeeps DEF CallRefused
<1>3. CASE CallUnknown(o)
  BY <1>3, LearnsKeeps DEF CallUnknown
<1> QED
  BY <1>1, <1>2, <1>3

\* An activation that commits.
LEMMA ActivateCommitsKeeps ==
    ASSUME RealtimeInv, NEW o \in Operations, ActivateCommits(o)
    PROVE  RealtimeInv' /\ SettledMoves
<1>1. PICK next \in {"served", "hangup", "activateAgain", "fail"} : Goto(o, next)
  BY DEF ActivateCommits
<1>2. ControlTyped' /\ jobs' = jobs /\ provider' = provider
  BY Parts DEF ControlTyped, ActivateCommits
<1>3. edge[o].pc \in {"activate", "activateAgain", "fail"} /\ edge[o].call
  BY Parts DEF ActivateCommits, OpSound, EdgeKnows
<1>4. PICK op : op = Finalized(o, "activated")
  OBVIOUS
<1>5. /\ op \in Rows /\ OpSound(op, provider[o], edge[o]) /\ OpMoves(ops[o], op)
      /\ op.usage # "none" /\ op.dispatch # "none"
  BY <1>3, <1>4, FinalizedSound DEF ActivateCommits
<1>6. ops' = [ops EXCEPT ![o] = op]
  BY <1>4 DEF ActivateCommits
<1> QED
  BY <1>1, <1>2, <1>3, <1>5, <1>6, RowGotoKeeps

\* An activation that fails.
LEMMA ActivateFailsKeeps ==
    ASSUME RealtimeInv, NEW o \in Operations, ActivateFails(o)
    PROVE  RealtimeInv' /\ SettledMoves
<1>1. PICK next \in {"activateAgain", "fail"} : Goto(o, next)
  BY DEF ActivateFails
<1>2. edge[o].call /\ ops[o].usage # "none" /\ ops[o].dispatch # "none"
  BY Parts DEF ActivateFails, OpSound, EdgeKnows, CallAgrees
<1> QED
  BY <1>1, <1>2, GotoKeeps DEF ActivateFails

\* The report of a failure that commits.
LEMMA FailCommitsKeeps ==
    ASSUME RealtimeInv, NEW o \in Operations, FailCommits(o)
    PROVE  RealtimeInv' /\ SettledMoves
<1>1. PICK next \in {AfterFail(o), "stop"} : Goto(o, next)
  BY DEF FailCommits
<1>2. next \in {"hangup", "over", "stop"} /\ (next = "hangup" => edge[o].call)
  BY <1>1 DEF AfterFail
<1>3. ControlTyped' /\ jobs' = jobs /\ provider' = provider
  BY Parts DEF ControlTyped, FailCommits
<1>4. PICK outcome \in {"failed", "uncertain"} : outcome = FailureOf(o)
  BY DEF FailureOf
<1>5. PICK op : op = Finalized(o, outcome)
  OBVIOUS
<1>6. /\ outcome \in {"activated", "failed", "uncertain"} /\ outcome # "activated"
      /\ outcome = "failed" => edge[o].certain
  BY <1>4 DEF FailureOf
<1>7. Accepts(o, outcome) /\ edge[o].pc \in {"activate", "activateAgain", "fail"}
      /\ ops' = [ops EXCEPT ![o] = op]
  BY <1>4, <1>5 DEF FailCommits
<1>8. /\ op \in Rows /\ OpSound(op, provider[o], edge[o]) /\ OpMoves(ops[o], op)
      /\ op.usage # "none" /\ op.dispatch # "none"
  BY <1>5, <1>6, <1>7, FinalizedSound
<1>9. next \in {"idle", "start", "startAgain", "claim", "claimAgain", "wait", "activate",
                "activateAgain", "fail", "stop", "hangup", "served", "over"}
      /\ (next \in {"activate", "activateAgain", "hangup"} => edge[o].call)
  BY <1>2
<1> QED
  BY <1>1, <1>3, <1>7, <1>8, <1>9, RowGotoKeeps

\* The report of a failure that fails.
LEMMA FailFailsKeeps ==
    ASSUME RealtimeInv, NEW o \in Operations, FailFails(o)
    PROVE  RealtimeInv' /\ SettledMoves
<1>1. ops[o].usage # "none" /\ ops[o].dispatch # "none"
  BY Parts DEF FailFails, OpSound, CallAgrees
<1> QED
  BY <1>1, GotoKeeps DEF FailFails

\* The last resort settles the operation, or does nothing.
LEMMA StopAfterFailureKeeps ==
    ASSUME RealtimeInv, NEW o \in Operations, StopAfterFailure(o)
    PROVE  RealtimeInv' /\ SettledMoves
<1>1. ControlTyped' /\ jobs' = jobs /\ provider' = provider
  BY Parts DEF ControlTyped, StopAfterFailure, Finish
<1>2. ops[o] \in Rows /\ provider[o] \in Calls /\ edge[o] \in Edges
      /\ OpSound(ops[o], provider[o], edge[o])
      /\ ops[o].usage # "none" /\ ops[o].dispatch # "none"
  BY Parts DEF StopAfterFailure, OpSound, CallAgrees
<1>3. PICK next \in {"hangup", "over"} : Goto(o, next) /\ (next = "hangup" => edge[o].call)
  BY DEF StopAfterFailure, AfterFail
<1>4. PICK kind : kind = ChargeOf(ops[o])
  OBVIOUS
<1>5. kind \in {"released", "actual", "conservative"}
      /\ (kind = "released" => Free(provider[o], edge[o]))
  BY <1>2, <1>4, ChargeSound
<1>6. PICK op : op = IF Finish({o}, ops) THEN SettledAs(ops[o], kind) ELSE ops[o]
  OBVIOUS
<1>7. /\ op \in Rows /\ OpSound(op, provider[o], edge[o]) /\ OpMoves(ops[o], op)
      /\ op.usage # "none" /\ op.dispatch # "none"
  <2>1. PICK settled : settled = SettledAs(ops[o], kind)
    OBVIOUS
  <2>2. /\ settled \in Rows /\ OpSound(settled, provider[o], edge[o])
        /\ OpMoves(ops[o], settled) /\ settled.usage # "none"
    BY <1>2, <1>5, <2>1, SettledSound
  <2>3. settled.dispatch # "none"
    BY <1>2, <1>5, <2>1, SettledFields
  <2>4. op = settled \/ op = ops[o]
    BY <1>6, <2>1
  <2> QED
    BY <1>2, <2>2, <2>3, <2>4 DEF OpMoves
<1>8. ops' = [ops EXCEPT ![o] = op]
  <2>1. CASE Finish({o}, ops)
    BY <1>4, <1>6, <2>1, Parts DEF Finish
  <2>2. CASE ~Finish({o}, ops)
    BY <1>6, <2>2, Parts DEF StopAfterFailure
  <2> QED
    BY <2>1, <2>2
<1>9. next \in {"idle", "start", "startAgain", "claim", "claimAgain", "wait", "activate",
                "activateAgain", "fail", "stop", "hangup", "served", "over"}
      /\ (next \in {"activate", "activateAgain", "hangup"} => edge[o].call)
  BY <1>3
<1> QED
  BY <1>1, <1>3, <1>7, <1>8, <1>9, RowGotoKeeps

\* A step at the provider and of the invocation, with the books as they are.
LEMMA CallKeeps ==
    ASSUME RealtimeInv, NEW o \in Operations, NEW call \in Calls, NEW e \in Edges,
           OpSound(ops[o], call, e), provider[o] = "ended" => call = "ended",
           provider' = [provider EXCEPT ![o] = call], edge' = [edge EXCEPT ![o] = e],
           UNCHANGED <<database, jobs>>
    PROVE  RealtimeInv' /\ SettledMoves
<1>1. ControlTyped' /\ jobs' \in [Sweepers -> Jobs] /\ jobs' = jobs /\ ops' = ops
  BY Parts DEF database, ControlTyped
<1>2. ops' = [ops EXCEPT ![o] = ops[o]] /\ OpMoves(ops[o], ops[o])
  BY <1>1, Parts DEF OpMoves
<1> QED
  BY <1>1, <1>2, Parts, OperationKeeps

\* The invocation hangs up a call that it knows.
LEMMA DirectHangupKeeps ==
    ASSUME RealtimeInv, NEW o \in Operations, DirectHangup(o)
    PROVE  RealtimeInv' /\ SettledMoves
<1>1. ops[o] \in Rows /\ provider[o] \in Calls /\ edge[o] \in Edges
      /\ OpSound(ops[o], provider[o], edge[o])
  BY Parts
<1>2. provider[o] \in {"live", "ended"}
  BY <1>1 DEF OpSound, EdgeKnows, DirectHangup
<1>3. PICK e : e = [edge[o] EXCEPT !.pc = "over"]
  OBVIOUS
<1>4. e \in Edges /\ OpSound(ops[o], provider[o], e)
  BY <1>1, <1>3, GotoSound
<1>5. OpSound(ops[o], "ended", e)
  BY <1>1, <1>2, <1>4, EndedSound
<1>6. edge' = [edge EXCEPT ![o] = e] /\ UNCHANGED <<database, jobs>>
  BY <1>3, Parts DEF DirectHangup, Goto
<1>7. PICK call \in {provider[o], "ended"} : provider' = [provider EXCEPT ![o] = call]
  BY Parts DEF DirectHangup
<1>8. call \in Calls /\ OpSound(ops[o], call, e) /\ (provider[o] = "ended" => call = "ended")
  BY <1>1, <1>4, <1>5, <1>7 DEF Calls
<1> QED
  BY <1>4, <1>6, <1>7, <1>8, CallKeeps

\* An invocation that dies takes with it what only it knew.
LEMMA CrashKeeps ==
    ASSUME RealtimeInv, NEW o \in Operations, Crash(o)
    PROVE  RealtimeInv' /\ SettledMoves
<1>1. ops[o] \in Rows /\ provider[o] \in Calls /\ edge[o] \in Edges
      /\ OpSound(ops[o], provider[o], edge[o])
  BY Parts
<1>2. PICK e : e = [pc |-> "over", call |-> FALSE, certain |-> FALSE]
  OBVIOUS
<1>3. e \in Edges
  BY <1>2 DEF Edges
<1>4. e.pc = "over" /\ ~e.call /\ ~e.certain
  BY <1>2
<1>5. OpSound(ops[o], provider[o], e)
  BY <1>1, <1>4 DEF OpSound, CallAgrees, EdgeKnows, Free
<1>6. edge' = [edge EXCEPT ![o] = e] /\ provider' = [provider EXCEPT ![o] = provider[o]]
      /\ UNCHANGED <<database, jobs>>
  BY <1>2, Parts DEF Crash
<1> QED
  BY <1>1, <1>3, <1>5, <1>6, CallKeeps

\* The provider accepts or refuses a request.
LEMMA ProviderDecidesKeeps ==
    ASSUME RealtimeInv, NEW o \in Operations, ProviderDecides(o)
    PROVE  RealtimeInv' /\ SettledMoves
<1>1. ops[o] \in Rows /\ edge[o] \in Edges /\ OpSound(ops[o], "asked", edge[o])
      /\ provider[o] = "asked"
  BY Parts DEF ProviderDecides
<1>2. PICK answer \in {"live", "refused"} : provider' = [provider EXCEPT ![o] = answer]
  BY DEF ProviderDecides
<1>3. answer \in Calls /\ OpSound(ops[o], answer, edge[o])
  BY <1>1 DEF Calls, OpSound, CallAgrees, EdgeKnows, Free
<1>4. edge' = [edge EXCEPT ![o] = edge[o]] /\ UNCHANGED <<database, jobs>>
  BY Parts DEF ProviderDecides
<1> QED
  BY <1>1, <1>2, <1>3, <1>4, CallKeeps

\* The provider ends a call by itself.
LEMMA ProviderEndsKeeps ==
    ASSUME RealtimeInv, NEW o \in Operations, ProviderEnds(o)
    PROVE  RealtimeInv' /\ SettledMoves
<1>1. ops[o] \in Rows /\ edge[o] \in Edges /\ OpSound(ops[o], provider[o], edge[o])
      /\ provider[o] \in {"live", "ended"}
  BY Parts DEF ProviderEnds
<1>2. OpSound(ops[o], "ended", edge[o]) /\ "ended" \in Calls
  BY <1>1, EndedSound DEF Calls
<1>3. /\ provider' = [provider EXCEPT ![o] = "ended"] /\ edge' = [edge EXCEPT ![o] = edge[o]]
      /\ UNCHANGED <<database, jobs>>
  BY Parts DEF ProviderEnds
<1> QED
  BY <1>1, <1>2, <1>3, CallKeeps

-----------------------------------------------------------------------------
(* Browsers and administrators.                                              *)

\* A step that writes the row of one operation and otherwise only the controls.
LEMMA RowKeeps ==
    ASSUME RealtimeInv, NEW o \in Operations, ControlTyped', UNCHANGED <<provider, edge, jobs>>,
           NEW op \in Rows, OpSound(op, provider[o], edge[o]), OpMoves(ops[o], op),
           ops' = [ops EXCEPT ![o] = op]
    PROVE  RealtimeInv' /\ SettledMoves
<1>1. /\ provider' = [provider EXCEPT ![o] = provider[o]] /\ edge' = [edge EXCEPT ![o] = edge[o]]
      /\ jobs' \in [Sweepers -> Jobs] /\ jobs' = jobs
  BY Parts
<1> QED
  BY <1>1, Parts, OperationKeeps

\* A step that writes the controls only.
LEMMA ControlKeeps ==
    ASSUME RealtimeInv, ControlTyped', UNCHANGED <<ops, provider, edge, jobs>>
    PROVE  RealtimeInv' /\ SettledMoves
<1>1. \A o \in Operations : OpMoves(ops[o], ops'[o])
  BY DEF OpMoves
<1> QED
  BY <1>1, Parts, BooksKeep

\* A browser stops an operation.
LEMMA StopFeatureKeeps ==
    ASSUME RealtimeInv, NEW o \in Operations, StopFeature(o)
    PROVE  RealtimeInv' /\ SettledMoves
BY FinishOneKeeps DEF StopFeature, MayStop

\* How long an operation was silent is not in its books.
LEMMA OverdueSound ==
    ASSUME RealtimeInv, NEW o \in Operations, NEW due \in {"no", "silent", "elapsed"},
           NEW op, op = [ops[o] EXCEPT !.overdue = due]
    PROVE  op \in Rows /\ OpSound(op, provider[o], edge[o]) /\ OpMoves(ops[o], op)
<1>1. ops[o] \in Rows /\ OpSound(ops[o], provider[o], edge[o])
  BY Parts
<1>2. /\ op \in Rows /\ op.usage = ops[o].usage /\ op.settled = ops[o].settled
      /\ op.dispatch = ops[o].dispatch /\ op.receipt = ops[o].receipt
      /\ op.receiptCall = ops[o].receiptCall /\ op.row = ops[o].row /\ op.known = ops[o].known
  BY <1>1 DEF Rows
<1> QED
  BY <1>1, <1>2 DEF OpSound, BooksAgree, CallAgrees, OpMoves

\* A heartbeat keeps a live operation alive, and finishes any other.
LEMMA HeartbeatKeeps ==
    ASSUME RealtimeInv, NEW o \in Operations, Heartbeat(o)
    PROVE  RealtimeInv' /\ SettledMoves
<1>1. CASE Finish({o}, ops)
  BY <1>1, FinishOneKeeps DEF Heartbeat, MayStop
<1>2. CASE ops' = [ops EXCEPT ![o].overdue = "no"] /\ UNCHANGED <<enabled, caption>>
  <2>1. PICK op : op = [ops[o] EXCEPT !.overdue = "no"]
    OBVIOUS
  <2>2. op \in Rows /\ OpSound(op, provider[o], edge[o]) /\ OpMoves(ops[o], op)
    BY <2>1, OverdueSound
  <2>3. ops' = [ops EXCEPT ![o] = op] /\ ControlTyped' /\ UNCHANGED <<provider, edge, jobs>>
    BY <1>2, <2>1, Parts DEF Heartbeat, ControlTyped
  <2> QED
    BY <2>2, <2>3, RowKeeps
<1> QED
  BY <1>1, <1>2 DEF Heartbeat

\* A caption is published, or its operation finished.
LEMMA PublishKeeps ==
    ASSUME RealtimeInv, NEW o \in Operations, Publish(o)
    PROVE  RealtimeInv' /\ SettledMoves
<1>1. ops[o].dispatch # "none"
  BY DEF Publish, LiveAuthority
<1>2. CASE Finish({o}, ops)
  BY <1>1, <1>2, FinishOneKeeps DEF Publish
<1>3. CASE caption' = o /\ UNCHANGED <<ops, enabled>>
  <2>1. ControlTyped' /\ UNCHANGED <<ops, provider, edge, jobs>>
    BY <1>3, Parts DEF Publish, ControlTyped
  <2> QED
    BY <2>1, ControlKeeps
<1> QED
  BY <1>2, <1>3 DEF Publish

\* Authorisations are granted, and lapse.
LEMMA GrantKeeps ==
    ASSUME RealtimeInv, Grant \/ MasterLapses
    PROVE  RealtimeInv' /\ SettledMoves
<1>1. grants \in 0..MaxGrants /\ MaxGrants \in Nat
  BY Parts, RealtimeAssumption DEF ControlTyped
<1>2. grants' \in 0..MaxGrants
  BY <1>1 DEF Grant, MasterLapses
<1>3. ControlTyped' /\ UNCHANGED <<ops, provider, edge, jobs>>
  BY <1>2, Parts DEF ControlTyped, Grant, MasterLapses
<1> QED
  BY <1>3, ControlKeeps

\* Revoked, or the lecture closed: the running operations are cancelled.
LEMMA StoppedKeeps ==
    ASSUME RealtimeInv, Revoke \/ CloseLecture
    PROVE  RealtimeInv' /\ SettledMoves
<1>1. ControlTyped' /\ UNCHANGED <<provider, edge, jobs>>
  BY Parts DEF ControlTyped, Revoke, CloseLecture
<1>2. ASSUME NEW o \in Operations
      PROVE  ops'[o] \in Rows /\ OpSound(ops'[o], provider[o], edge[o]) /\ OpMoves(ops[o], ops'[o])
  <2>1. ops'[o] = Cancelled(ops[o])
    BY DEF Revoke, CloseLecture, Stopped
  <2> QED
    BY <2>1, Parts, CancelledSound
<1>3. ops' \in [Operations -> Rows]
  BY <1>2 DEF Revoke, CloseLecture, Stopped
<1> QED
  BY <1>1, <1>2, <1>3, BooksKeep

\* The captions switched off: the running operations are settled.
LEMMA StopAllKeeps ==
    ASSUME RealtimeInv, StopAll
    PROVE  RealtimeInv' /\ SettledMoves
<1>1. ControlTyped' /\ UNCHANGED <<provider, edge, jobs>>
  BY Parts DEF ControlTyped, StopAll
<1>2. ASSUME NEW o \in Operations
      PROVE  ops'[o] \in Rows /\ OpSound(ops'[o], provider[o], edge[o]) /\ OpMoves(ops[o], ops'[o])
  <2>1. ops[o] \in Rows /\ provider[o] \in Calls /\ edge[o] \in Edges
        /\ OpSound(ops[o], provider[o], edge[o])
    BY Parts
  <2>2. CASE Running(o)
    <3>1. PICK kind : kind = ChargeOf(ops[o])
      OBVIOUS
    <3>2. kind \in {"released", "actual", "conservative"}
          /\ (kind = "released" => Free(provider[o], edge[o]))
      BY <2>1, <3>1, ChargeSound
    <3>3. ops'[o] = SettledAs(ops[o], kind) /\ ops[o].usage # "none"
      BY <2>2, <3>1 DEF StopAll, Running
    <3> QED
      BY <2>1, <3>2, <3>3, SettledSound
  <2>3. CASE ~Running(o)
    <3>1. ops'[o] = ops[o]
      BY <2>3 DEF StopAll
    <3> QED
      BY <2>1, <3>1 DEF OpMoves
  <2> QED
    BY <2>2, <2>3
<1>3. ops' \in [Operations -> Rows]
  BY <1>2 DEF StopAll
<1> QED
  BY <1>1, <1>2, <1>3, BooksKeep

-----------------------------------------------------------------------------
(* Time and maintenance.                                                     *)

\* An operation falls silent, or its time is used up.
LEMMA AgesKeeps ==
    ASSUME RealtimeInv, NEW o \in Operations, FallsSilent(o) \/ TimeElapses(o)
    PROVE  RealtimeInv' /\ SettledMoves
<1>1. PICK due \in {"silent", "elapsed"} : Ages(o, due)
  BY DEF FallsSilent, TimeElapses
<1>2. PICK op : op = [ops[o] EXCEPT !.overdue = due]
  OBVIOUS
<1>3. op \in Rows /\ OpSound(op, provider[o], edge[o]) /\ OpMoves(ops[o], op)
  BY <1>1, <1>2, OverdueSound
<1>4. ops' = [ops EXCEPT ![o] = op] /\ ControlTyped' /\ UNCHANGED <<provider, edge, jobs>>
  BY <1>1, <1>2, Parts DEF Ages, ControlTyped
<1> QED
  BY <1>3, <1>4, RowKeeps

\* A dispatch runs out.
LEMMA DispatchLapsesKeeps ==
    ASSUME RealtimeInv, NEW o \in Operations, DispatchLapses(o)
    PROVE  RealtimeInv' /\ SettledMoves
<1>1. ops[o] \in Rows /\ OpSound(ops[o], provider[o], edge[o]) /\ ops[o].dispatch = "leased"
  BY Parts DEF DispatchLapses
<1>2. PICK op : op = [ops[o] EXCEPT !.dispatch = "lapsed"]
  OBVIOUS
<1>3. /\ op \in Rows /\ op.usage = ops[o].usage /\ op.settled = ops[o].settled
      /\ op.dispatch = "lapsed" /\ op.receipt = ops[o].receipt
      /\ op.receiptCall = ops[o].receiptCall /\ op.row = ops[o].row /\ op.known = ops[o].known
  BY <1>1, <1>2 DEF Rows
<1>4. OpSound(op, provider[o], edge[o]) /\ OpMoves(ops[o], op)
  BY <1>1, <1>3 DEF OpSound, BooksAgree, CallAgrees, OpMoves
<1>5. ops' = [ops EXCEPT ![o] = op] /\ ControlTyped' /\ UNCHANGED <<provider, edge, jobs>>
  BY <1>2, Parts DEF DispatchLapses, ControlTyped
<1> QED
  BY <1>3, <1>4, <1>5, RowKeeps

\* A hangup runs out.
LEMMA HangupLapsesKeeps ==
    ASSUME RealtimeInv, NEW o \in Operations, HangupLapses(o)
    PROVE  RealtimeInv' /\ SettledMoves
<1>1. ops[o] \in Rows /\ OpSound(ops[o], provider[o], edge[o])
  BY Parts
<1>2. PICK op : op = [ops[o] EXCEPT !.lapsed = TRUE]
  OBVIOUS
<1>3. /\ op \in Rows /\ op.usage = ops[o].usage /\ op.settled = ops[o].settled
      /\ op.dispatch = ops[o].dispatch /\ op.receipt = ops[o].receipt
      /\ op.receiptCall = ops[o].receiptCall /\ op.row = ops[o].row /\ op.known = ops[o].known
  BY <1>1, <1>2 DEF Rows
<1>4. OpSound(op, provider[o], edge[o]) /\ OpMoves(ops[o], op)
  BY <1>1, <1>3 DEF OpSound, BooksAgree, CallAgrees, OpMoves
<1>5. ops' = [ops EXCEPT ![o] = op] /\ ControlTyped' /\ UNCHANGED <<provider, edge, jobs>>
  BY <1>2, Parts DEF HangupLapses, ControlTyped
<1> QED
  BY <1>3, <1>4, <1>5, RowKeeps

\* The maintenance reaps and then finishes what is due.
LEMMA MaintainKeeps ==
    ASSUME RealtimeInv, Maintain
    PROVE  RealtimeInv' /\ SettledMoves
<1>1. PICK from : from = Reaped(ops)
  OBVIOUS
<1>2. PICK S : S = {o \in Operations : Due(from[o])}
  OBVIOUS
<1>3. Finish(S, from) /\ UNCHANGED <<master, grants, open, provider, edge, jobs>>
  BY <1>1, <1>2 DEF Maintain
<1>4. S \in SUBSET Operations
  BY <1>2
<1>5. ASSUME NEW o \in Operations
      PROVE  /\ from[o] \in Rows /\ OpSound(from[o], provider[o], edge[o])
             /\ OpMoves(ops[o], from[o])
             /\ o \in S => from[o].usage # "none"
  <2>1. from[o] \in Rows /\ OpSound(from[o], provider[o], edge[o]) /\ OpMoves(ops[o], from[o])
    BY <1>1, ReapedSound
  <2>2. o \in S => from[o].usage # "none"
    BY <1>2 DEF Due
  <2> QED
    BY <2>1, <2>2
<1> QED
  BY <1>3, <1>4, <1>5, FinishKeeps

-----------------------------------------------------------------------------
(* The hangup sweep.                                                         *)

\* A sweeper takes up the call of an operation that has ended.
LEMMA ClaimKeeps ==
    ASSUME RealtimeInv, NEW s \in Sweepers, NEW o \in Operations, Claim(s, o)
    PROVE  RealtimeInv' /\ SettledMoves
<1>1. ops[o] \in Rows /\ provider[o] \in Calls /\ edge[o] \in Edges
      /\ OpSound(ops[o], provider[o], edge[o])
  BY Parts
<1>2. ops[o].known /\ ops[o].row \in HangupRows
  BY DEF Claim, Claimable, HangupRows
<1>3. ops[o].usage # "running" /\ ops[o].usage # "none"
  BY <1>1, <1>2 DEF OpSound, BooksAgree, HangupRows
<1>4. PICK first : first = [ops[o] EXCEPT !.row = "hanging_up"]
  OBVIOUS
<1>5. /\ first \in Rows /\ first.usage = ops[o].usage /\ first.settled = ops[o].settled
      /\ first.dispatch = ops[o].dispatch /\ first.receipt = ops[o].receipt
      /\ first.receiptCall = ops[o].receiptCall /\ first.row = "hanging_up"
      /\ first.known = ops[o].known
  BY <1>1, <1>4 DEF Rows, HangupRows
<1>6. PICK op : op = [first EXCEPT !.lapsed = FALSE]
  OBVIOUS
<1>7. /\ op \in Rows /\ op.usage = first.usage /\ op.settled = first.settled
      /\ op.dispatch = first.dispatch /\ op.receipt = first.receipt
      /\ op.receiptCall = first.receiptCall /\ op.row = first.row /\ op.known = first.known
  BY <1>5, <1>6 DEF Rows
<1>8. /\ op.usage = ops[o].usage /\ op.settled = ops[o].settled
      /\ op.dispatch = ops[o].dispatch /\ op.receipt = ops[o].receipt
      /\ op.receiptCall = ops[o].receiptCall /\ op.row = "hanging_up" /\ op.known = ops[o].known
  BY <1>5, <1>7
<1>9. OpSound(op, provider[o], edge[o]) /\ OpMoves(ops[o], op)
  BY <1>1, <1>3, <1>8 DEF OpSound, BooksAgree, CallAgrees, OpMoves, HangupRows
<1>10. ops' = [ops EXCEPT ![o] = op]
  BY <1>4, <1>6, Parts DEF Claim
<1>11. /\ provider' = [provider EXCEPT ![o] = provider[o]] /\ edge' = [edge EXCEPT ![o] = edge[o]]
       /\ ControlTyped'
  BY Parts DEF Claim, ControlTyped
<1>12. PICK job : job = [op |-> o, outcome |-> "none"]
  OBVIOUS
<1>13. job \in Jobs /\ job.op = o /\ job.outcome = "none"
  BY <1>12 DEF Jobs
<1>14. jobs' = [jobs EXCEPT ![s] = job]
  BY <1>12 DEF Claim
<1>15. jobs' \in [Sweepers -> Jobs]
  BY <1>13, <1>14, Parts
<1>16. ASSUME NEW t \in Sweepers PROVE jobs'[t] = jobs[t] \/ JobSound(t)'
  <2>1. CASE t = s
    <3>1. jobs'[t].op = o /\ jobs'[t].outcome = "none"
      BY <1>13, <1>14, <2>1, Parts
    <3>2. ops'[o].known /\ ops'[o].usage # "running"
      BY <1>2, <1>3, <1>8, <1>10, Parts
    <3> QED
      BY <3>1, <3>2 DEF JobSound
  <2>2. CASE t # s
    BY <1>14, <2>2, Parts
  <2> QED
    BY <2>1, <2>2
<1> QED
  BY <1>1, <1>7, <1>9, <1>10, <1>11, <1>15, <1>16, OperationKeeps

\* A sweeper hangs up, or fails to: it says "ok" only of a call that is over.
LEMMA HangUpKeeps ==
    ASSUME RealtimeInv, NEW s \in Sweepers, HangUp(s) \/ HangUpFails(s)
    PROVE  RealtimeInv' /\ SettledMoves
<1>1. PICK o : o = jobs[s].op
  OBVIOUS
<1>2. o # NoOperation
  BY <1>1 DEF HangUp, HangUpFails
<1>3. jobs[s] # Idle
  BY <1>1, <1>2 DEF Idle
<1>4. o \in Operations /\ ops[o].known /\ ops[o].usage # "running"
  BY <1>1, <1>3, Parts DEF JobSound
<1>5. ops[o] \in Rows /\ provider[o] \in Calls /\ edge[o] \in Edges
      /\ OpSound(ops[o], provider[o], edge[o]) /\ jobs[s] \in Jobs
  BY <1>4, Parts
<1>6. provider[o] \in {"live", "ended"}
  BY <1>4, <1>5 DEF OpSound, CallAgrees
<1>7. OpSound(ops[o], "ended", edge[o]) /\ "ended" \in Calls
  BY <1>5, <1>6, EndedSound DEF Calls
<1>8. ASSUME NEW call \in Calls, OpSound(ops[o], call, edge[o]),
             provider[o] = "ended" => call = "ended",
             NEW outcome \in {"ok", "error"}, outcome = "ok" => call = "ended",
             provider' = [provider EXCEPT ![o] = call],
             jobs' = [jobs EXCEPT ![s].outcome = outcome], UNCHANGED <<database, edge>>
      PROVE  RealtimeInv' /\ SettledMoves
  <2>1. PICK job : job = [jobs[s] EXCEPT !.outcome = outcome]
    OBVIOUS
  <2>2. job \in Jobs /\ job.op = o /\ job.outcome = outcome
    BY <1>1, <1>5, <2>1 DEF Jobs
  <2>3. jobs' = [jobs EXCEPT ![s] = job]
    BY <1>8, <2>1
  <2>4. jobs' \in [Sweepers -> Jobs]
    BY <2>2, <2>3, Parts
  <2>5. /\ ops' = [ops EXCEPT ![o] = ops[o]] /\ edge' = [edge EXCEPT ![o] = edge[o]]
        /\ ops' = ops /\ ControlTyped' /\ OpMoves(ops[o], ops[o])
    BY <1>8, Parts DEF database, ControlTyped, OpMoves
  <2>6. ASSUME NEW t \in Sweepers PROVE jobs'[t] = jobs[t] \/ JobSound(t)'
    <3>1. CASE t = s
      <4>1. jobs'[t].op = o /\ jobs'[t].outcome = outcome
        BY <2>2, <2>3, <3>1, Parts
      <4>2. ops'[o].known /\ ops'[o].usage # "running" /\ (outcome = "ok" => provider'[o] = "ended")
        BY <1>4, <1>8, <2>5, Parts
      <4> QED
        BY <1>4, <4>1, <4>2 DEF JobSound
    <3>2. CASE t # s
      BY <2>3, <3>2, Parts
    <3> QED
      BY <3>1, <3>2
  <2> QED
    BY <1>4, <1>5, <1>8, <2>4, <2>5, <2>6, OperationKeeps
<1>9. CASE HangUp(s)
  <2>1. /\ provider' = [provider EXCEPT ![o] = "ended"]
        /\ jobs' = [jobs EXCEPT ![s].outcome = "ok"] /\ UNCHANGED <<database, edge>>
    BY <1>1, <1>9 DEF HangUp
  <2>2. "ok" \in {"ok", "error"}
    OBVIOUS
  <2> QED
    BY <1>7, <1>8, <2>1, <2>2
<1>10. CASE HangUpFails(s)
  <2>1. PICK call \in {provider[o], "ended"} : provider' = [provider EXCEPT ![o] = call]
    BY <1>1, <1>4, <1>10, Parts DEF HangUpFails
  <2>2. call \in Calls /\ OpSound(ops[o], call, edge[o]) /\ (provider[o] = "ended" => call = "ended")
    BY <1>5, <1>7, <2>1
  <2>3. jobs' = [jobs EXCEPT ![s].outcome = "error"] /\ UNCHANGED <<database, edge>>
    BY <1>10 DEF HangUpFails
  <2> QED
    BY <1>8, <2>1, <2>2, <2>3
<1> QED
  BY <1>9, <1>10

\* A sweeper that is done, with or without a report, takes up nothing.
LEMMA ReleasesJob ==
    ASSUME RealtimeInv, NEW s \in Sweepers, jobs' = [jobs EXCEPT ![s] = Idle]
    PROVE  /\ jobs' \in [Sweepers -> Jobs]
           /\ \A t \in Sweepers : jobs'[t] = jobs[t] \/ JobSound(t)'
<1>1. Idle \in Jobs
  BY DEF Idle, Jobs
<1>2. jobs' \in [Sweepers -> Jobs]
  BY <1>1, Parts
<1>3. ASSUME NEW t \in Sweepers PROVE jobs'[t] = jobs[t] \/ JobSound(t)'
  <2>1. CASE t = s
    <3>1. jobs'[t] = Idle
      BY <2>1, Parts
    <3> QED
      BY <3>1 DEF JobSound
  <2>2. CASE t # s
    BY <2>2, Parts
  <2> QED
    BY <2>1, <2>2
<1> QED
  BY <1>2, <1>3

\* A sweeper reports: the row is closed only for a call that is over.
LEMMA ReportKeeps ==
    ASSUME RealtimeInv, NEW s \in Sweepers, Report(s)
    PROVE  RealtimeInv' /\ SettledMoves
<1>1. PICK o : o = jobs[s].op
  OBVIOUS
<1>2. jobs[s].outcome # "none"
  BY DEF Report
<1>3. jobs[s] # Idle
  BY <1>2 DEF Idle
<1>4. /\ o \in Operations /\ ops[o].known /\ ops[o].usage # "running"
      /\ jobs[s].outcome = "ok" => provider[o] = "ended"
  BY <1>1, <1>3, Parts DEF JobSound
<1>5. ops[o] \in Rows /\ provider[o] \in Calls /\ edge[o] \in Edges
      /\ OpSound(ops[o], provider[o], edge[o])
  BY <1>4, Parts
<1>6. /\ provider' = [provider EXCEPT ![o] = provider[o]] /\ edge' = [edge EXCEPT ![o] = edge[o]]
      /\ ControlTyped'
  BY Parts DEF Report, ControlTyped
<1>7. jobs' \in [Sweepers -> Jobs] /\ \A t \in Sweepers : jobs'[t] = jobs[t] \/ JobSound(t)'
  BY ReleasesJob DEF Report
<1>8. CASE ops' = ops
  <2>1. ops' = [ops EXCEPT ![o] = ops[o]] /\ OpMoves(ops[o], ops[o])
    BY <1>8, Parts DEF OpMoves
  <2> QED
    BY <1>4, <1>5, <1>6, <1>7, <2>1, OperationKeeps
<1>9. CASE ops' # ops
  <2>1. PICK row : row = HangupResult(jobs[s].outcome)
    OBVIOUS
  <2>2. ops' = [ops EXCEPT ![o].row = row, ![o].lapsed = FALSE]
    BY <1>1, <1>9, <2>1 DEF Report
  <2>3. row \in {"stopped", "retry"} /\ (row = "stopped" => provider[o] = "ended")
    BY <1>4, <2>1 DEF HangupResult
  <2>4. row \in {"none", "creating", "active", "creation_failed", "stopped"} \cup HangupRows
    BY <2>3 DEF HangupRows
  <2>5. PICK first : first = [ops[o] EXCEPT !.row = row]
    OBVIOUS
  <2>6. /\ first \in Rows /\ first.usage = ops[o].usage /\ first.settled = ops[o].settled
        /\ first.dispatch = ops[o].dispatch /\ first.receipt = ops[o].receipt
        /\ first.receiptCall = ops[o].receiptCall /\ first.row = row
        /\ first.known = ops[o].known
    BY <1>5, <2>4, <2>5 DEF Rows
  <2>7. PICK op : op = [first EXCEPT !.lapsed = FALSE]
    OBVIOUS
  <2>8. /\ op \in Rows /\ op.usage = first.usage /\ op.settled = first.settled
        /\ op.dispatch = first.dispatch /\ op.receipt = first.receipt
        /\ op.receiptCall = first.receiptCall /\ op.row = first.row /\ op.known = first.known
    BY <2>6, <2>7 DEF Rows
  <2>9. /\ op.usage = ops[o].usage /\ op.settled = ops[o].settled
        /\ op.dispatch = ops[o].dispatch /\ op.receipt = ops[o].receipt
        /\ op.receiptCall = ops[o].receiptCall /\ op.row = row /\ op.known = ops[o].known
    BY <2>6, <2>8
  <2>10. row \in HangupRows \cup {"stopped"}
    BY <2>3 DEF HangupRows
  <2>11. BooksAgree(op)
    BY <1>4, <1>5, <2>9, <2>10 DEF OpSound, BooksAgree
  <2>12. CallAgrees(op, provider[o], edge[o])
    BY <1>5, <2>3, <2>9 DEF OpSound, CallAgrees
  <2>13. OpSound(op, provider[o], edge[o]) /\ OpMoves(ops[o], op)
    BY <1>5, <2>9, <2>11, <2>12 DEF OpSound, OpMoves
  <2>14. ops' = [ops EXCEPT ![o] = op]
    BY <1>4, <2>2, <2>5, <2>7, Parts
  <2> QED
    BY <1>4, <1>5, <1>6, <1>7, <2>8, <2>13, <2>14, OperationKeeps
<1> QED
  BY <1>8, <1>9

\* A sweeper dies with its job.
LEMMA SweeperDiesKeeps ==
    ASSUME RealtimeInv, NEW s \in Sweepers, SweeperDies(s)
    PROVE  RealtimeInv' /\ SettledMoves
<1>1. jobs' \in [Sweepers -> Jobs] /\ \A t \in Sweepers : jobs'[t] = jobs[t] \/ JobSound(t)'
  BY ReleasesJob DEF SweeperDies
<1>2. ops' = ops /\ provider' = provider /\ edge' = edge /\ ControlTyped'
  BY Parts DEF SweeperDies, database, ControlTyped
<1>3. \A o \in Operations : /\ OpSound(ops'[o], provider'[o], edge'[o])
                            /\ OpMoves(ops[o], ops'[o])
                            /\ provider[o] = "ended" => provider'[o] = "ended"
  BY <1>2, Parts DEF OpMoves
<1> QED
  BY <1>1, <1>2, <1>3, Parts, StepKeeps

-----------------------------------------------------------------------------
(* The invariant.                                                            *)

\* No operation has begun.
LEMMA InitSound == RealtimeInit => RealtimeInv
<1>1. SUFFICES ASSUME RealtimeInit PROVE RealtimeInv
  OBVIOUS
<1>2. NotStarted \in Rows
  BY DEF NotStarted, Rows
<1>3. /\ NotStarted.usage = "none" /\ NotStarted.settled = "no" /\ NotStarted.dispatch = "none"
      /\ NotStarted.receipt = "none" /\ NotStarted.row = "none" /\ ~NotStarted.known
  BY DEF NotStarted
<1>4. PICK e : e = [pc |-> "idle", call |-> FALSE, certain |-> FALSE]
  OBVIOUS
<1>5. e \in Edges
  BY <1>4 DEF Edges
<1>6. e.pc = "idle" /\ ~e.call /\ ~e.certain
  BY <1>4
<1>7. Idle \in Jobs
  BY DEF Idle, Jobs
<1>8. /\ ops = [o \in Operations |-> NotStarted] /\ provider = [o \in Operations |-> "none"]
      /\ edge = [o \in Operations |-> e] /\ jobs = [s \in Sweepers |-> Idle]
  BY <1>1, <1>4 DEF RealtimeInit
<1>9. ControlTyped
  <2>1. 0 \in 0..MaxGrants
    BY RealtimeAssumption
  <2> QED
    BY <1>1, <2>1 DEF RealtimeInit, ControlTyped
<1>10. /\ ops \in [Operations -> Rows] /\ provider \in [Operations -> Calls]
       /\ edge \in [Operations -> Edges] /\ jobs \in [Sweepers -> Jobs]
  BY <1>2, <1>5, <1>7, <1>8 DEF Calls
<1>11. \A o \in Operations : ops[o].settled # "no" => ops[o].usage = "cancelled"
  BY <1>3, <1>8
<1>12. RealtimeTypeOK
  BY <1>9, <1>10, <1>11 DEF RealtimeTypeOK, Rows, Calls, Edges, Jobs, ControlTyped
<1>13. OpSound(NotStarted, "none", e)
  BY <1>3, <1>6 DEF OpSound, BooksAgree, CallAgrees, EdgeKnows, Free
<1>14. \A o \in Operations : OpSound(ops[o], provider[o], edge[o])
  BY <1>8, <1>13
<1>15. \A s \in Sweepers : JobSound(s)
  BY <1>8 DEF JobSound
<1> QED
  BY <1>12, <1>14, <1>15 DEF RealtimeInv

\* Every step of an invocation.
LEMMA EdgeStepKeeps ==
    ASSUME RealtimeInv, NEW o \in Operations, EdgeStep(o)
    PROVE  RealtimeInv' /\ SettledMoves
BY BeginKeeps, StartCommitsKeeps, StartFailsKeeps, ClaimCommitsKeeps, ClaimRefusedKeeps,
   ClaimFailsKeeps, AskProviderKeeps, AnswersKeep, ActivateCommitsKeeps, ActivateFailsKeeps,
   FailCommitsKeeps, FailFailsKeeps, StopAfterFailureKeeps, DirectHangupKeeps, CrashKeeps
   DEF EdgeStep

\* Every step of the whole keeps the invariant and every settlement.
LEMMA NextKeeps ==
    ASSUME RealtimeInv, [RealtimeNext]_realtimeVars
    PROVE  RealtimeInv' /\ SettledMoves
<1>1. CASE \E o \in Operations : EdgeStep(o) \/ ProviderDecides(o) \/ ProviderEnds(o)
  BY <1>1, EdgeStepKeeps, ProviderDecidesKeeps, ProviderEndsKeeps
<1>2. CASE UserStep
  BY <1>2, StopFeatureKeeps, HeartbeatKeeps, PublishKeeps, GrantKeeps, StoppedKeeps, StopAllKeeps
     DEF UserStep
<1>3. CASE \E o \in Operations : \/ FallsSilent(o) \/ TimeElapses(o)
                                 \/ DispatchLapses(o) \/ HangupLapses(o)
  BY <1>3, AgesKeeps, DispatchLapsesKeeps, HangupLapsesKeeps
<1>4. CASE Maintain
  BY <1>4, MaintainKeeps
<1>5. CASE \E s \in Sweepers : SweepStep(s)
  BY <1>5, ClaimKeeps, HangUpKeeps, ReportKeeps, SweeperDiesKeeps DEF SweepStep
<1>6. CASE UNCHANGED realtimeVars
  <2>1. ops' = ops /\ UNCHANGED <<provider, edge, jobs>> /\ ControlTyped'
    BY <1>6, Parts DEF realtimeVars, database, ControlTyped
  <2> QED
    BY <2>1, ControlKeeps
<1> QED
  BY <1>1, <1>2, <1>3, <1>4, <1>5, <1>6 DEF RealtimeNext

\* The invariant implies what is promised.
LEMMA InvAccounts == RealtimeInv => CallsAccounted
<1>1. SUFFICES ASSUME RealtimeInv PROVE CallsAccounted
  OBVIOUS
<1>2. LiveIsTracked
  <2>1. SUFFICES ASSUME NEW o \in Operations, provider[o] = "live", ops[o].known
                 PROVE  IF Running(o) THEN ops[o].row = "active" ELSE ops[o].row \in HangupRows
    BY DEF LiveIsTracked
  <2>2. BooksAgree(ops[o]) /\ CallAgrees(ops[o], provider[o], edge[o])
    BY <1>1, Parts DEF OpSound
  <2>3. ops[o].row # "stopped"
    BY <2>1, <2>2 DEF CallAgrees
  <2> QED
    BY <2>1, <2>2, <2>3 DEF BooksAgree, Running
<1>3. SweptHasEnded
  BY <1>1, Parts DEF SweptHasEnded, JobSound, Running
<1>4. NeverFree
  BY <1>1, Parts DEF NeverFree, OpSound, CallAgrees, Free
<1> QED
  BY <1>1, <1>2, <1>3, <1>4 DEF CallsAccounted, RealtimeInv

\* In every behaviour the books agree with the calls at the provider and with what the
\* invocations and sweepers know (the RPCs of issue-realtime-client-secret, the ledger's trigger,
\* run_phase6_6_maintenance and the hangup sweep).
THEOREM RealtimeGuaranteed == RealtimeSpec => []RealtimeInv
<1>1. RealtimeInit => RealtimeInv
  BY InitSound
<1>2. RealtimeInv /\ [RealtimeNext]_realtimeVars => RealtimeInv'
  BY NextKeeps
<1> QED
  BY <1>1, <1>2, PTL DEF RealtimeSpec

\* A live call the database knows never drops out of the sweep's sight, no running caption is
\* swept, and an operation settled as free has no call and will have none.
THEOREM CallsAreAccounted == RealtimeSpec => []CallsAccounted
BY RealtimeGuaranteed, InvAccounts, PTL

\* The first settlement of an operation stands, whoever comes to settle it again.
THEOREM SettledForGood == RealtimeSpec => SettledOnce
<1>1. RealtimeInv /\ [RealtimeNext]_realtimeVars
      => [\A o \in Operations :
             ops[o].settled # "no" => ops'[o].settled = ops[o].settled]_realtimeVars
  BY NextKeeps DEF SettledMoves
<1> QED
  BY <1>1, RealtimeGuaranteed, PTL DEF RealtimeSpec, SettledOnce

=============================================================================
