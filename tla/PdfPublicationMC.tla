-------------------------- MODULE PdfPublicationMC --------------------------
(* Small lectures for TLC: one publication, and two versions of one document. *)
EXTENDS PdfPublication, TLC

CONSTANTS p1, p2

OnePublication == {p1}
TwoVersions == {p1, p2}
MCDocumentOf == (p1 :> "slides") @@ (p2 :> "slides")
MCVersionOf  == (p1 :> "a") @@ (p2 :> "b")
MCManifestVersions == 1..MaxManifestVersion
RequestSymmetry == Permutations(Requests)
InvocationSymmetry == Permutations(Requests) \cup Permutations(Cleaners)

Stored ==
  [NoRow EXCEPT !.state = "uploaded", !.generation = 1, !.attempt = 1,
                !.uploaded = TRUE]

Committed ==
  [Stored EXCEPT !.state = "committed", !.operation = 1,
                    !.committedVersion = 1, !.committedAccess = 1,
                    !.targetAccess = 2]

LedgerAs(status) == [NoLedger EXCEPT !.status = status, !.generation = 1]

Quiet ==
  /\ lectureOpen = TRUE
  /\ request = [r \in Requests \cup Cleaners |-> Idle]
  /\ crashes = 0

\* p1 has been uploaded, committed and activated; p2 may replace it.
PublishedInit ==
  /\ Quiet
  /\ accessVersion = 2
  /\ row = (p1 :> [Committed EXCEPT !.state = "active",
                                        !.activatedVersion = 2])
             @@ (p2 :> NoRow)
  /\ ledger = (p1 :> [LedgerAs("active") EXCEPT !.version = 2,
                        !.previousAccess = 1, !.targetAccess = 2])
                @@ (p2 :> NoLedger)
  /\ manifest = [exists |-> TRUE, access |-> 2, version |-> 2,
                 documents |-> (p1 :> "visible") @@ (p2 :> "absent")]
  /\ object = (p1 :> "pdf") @@ (p2 :> "absent")

ReplacementSpec == PublishedInit /\ [][TimelyNext]_vars

ConvergenceSpec == PublishedInit /\ [][TimelyNext]_vars /\ Fairness

\* p1 was committed and aborted while an upload that is about to recover its
\* ledger, the commit and the activation are still on their way.
LateInit ==
  /\ lectureOpen = TRUE /\ crashes = 0 /\ accessVersion = 1
  /\ row = (p1 :> [Discard(Committed, "aborted") EXCEPT !.lease = "none"])
  /\ ledger = (p1 :> [LedgerAs("committed") EXCEPT !.version = 1,
                        !.previousAccess = 1])
  /\ manifest = [exists |-> TRUE, access |-> 1, version |-> 1,
                 documents |-> (p1 :> "staged")]
  /\ object = (p1 :> "pdf")
  /\ \E u, c, a \in Requests :
       /\ u # c /\ u # a /\ c # a
       /\ request = [r \in Requests \cup Cleaners |->
            CASE r = u -> [Send(r, p1, "upload", 1) EXCEPT
                             !.pc = "recover", !.seen = LedgerAs("receiving")]
              [] r = c -> [Send(r, p1, "commit", 1) EXCEPT
                             !.operation = 1, !.previousAccess = 1]
              [] r = a -> [Send(r, p1, "activate", 1) EXCEPT
                             !.operation = 1, !.previousAccess = 1,
                             !.targetAccess = 2]
              [] OTHER -> Idle]

LateSpec == LateInit /\ [][TimelyNext]_vars

=============================================================================
