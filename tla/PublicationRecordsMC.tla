------------------------ MODULE PublicationRecordsMC ------------------------
(* A lecture with two versions of one document.                              *)
EXTENDS PublicationRecords, TLC

CONSTANTS p1, p2

TwoVersions == {p1, p2}
MCDocumentOf == (p1 :> "slides") @@ (p2 :> "slides")
MCVersionOf  == (p1 :> "a") @@ (p2 :> "b")

=============================================================================
