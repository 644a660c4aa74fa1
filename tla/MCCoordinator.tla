--------------------------- MODULE MCCoordinator ---------------------------
EXTENDS Coordinator, TLC

CONSTANTS c1, c2, s1, s2, n1, n2

MCCaptures2 == {c1, c2}
MCSubmitters == {s1, s2}
MCNotes == {n1, n2}
MCNoteOf2 == c1 :> n1 @@ c2 :> n2
=============================================================================
