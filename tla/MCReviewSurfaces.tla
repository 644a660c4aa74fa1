-------------------------- MODULE MCReviewSurfaces -------------------------
EXTENDS ReviewSurfaces, TLC

CONSTANTS c1, c2, s1, n1, n2

MCCaptures2 == {c1, c2}
MCSubmitters == {s1}
MCNotes == {n1, n2}
MCNoteOf2 == c1 :> n1 @@ c2 :> n2
\* One capture of each origin at least.
MCPhone == {c2}
=============================================================================
