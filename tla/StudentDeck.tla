----------------------------- MODULE StudentDeck -----------------------------
(***************************************************************************)
(* What the students of one lecture are promised about its PDF documents:   *)
(* the lecture has a published deck, one version or none per document; a    *)
(* student who asks gets exactly that deck, or nothing for the moment.  A    *)
(* publication changes one document, to a version that replaces the old one  *)
(* at once; a version that was given up is never seen.                      *)
(***************************************************************************)
CONSTANTS Documents, Versions, NoVersion, Nothing

VARIABLES
  published,   \* the deck of the lecture
  view         \* what a student gets now

deckVars == <<published, view>>

Decks == [Documents -> Versions \cup {NoVersion}]

Init ==
  /\ published \in Decks
  /\ view \in {published, Nothing}

\* Students see the new deck with the publication or some time after it, but
\* they cannot be left with the old one.
Publish(d, v) ==
  /\ published[d] # v
  /\ published' = [published EXCEPT ![d] = v]
  /\ view' \in {published', Nothing}

Withhold == view' = Nothing /\ UNCHANGED published

Serve == view' = published /\ UNCHANGED published

Next ==
  \/ \E d \in Documents, v \in Versions : Publish(d, v)
  \/ Withhold \/ Serve

Spec == Init /\ [][Next]_deckVars

=============================================================================
