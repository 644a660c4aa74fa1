--------------------------- MODULE MCDirectives ---------------------------
EXTENDS Directives
CONSTANTS d1, d2, d3, d4, x, y, z

MCAll     == {d1, d2, d3, d4}
MCFulfillable == {d1, d2, d3}
MCPoison  == {d3}
\* The agent takes on one that the runner also serves; nobody here serves d4.
MCAgent   == {d1}
\* The two of one content are the watched file, read by one watcher and by the next; it appears
\* empty and is then written.
MCFolder == {d1, d2}
MCTexts == <<Nothing, x>>
MCContents == {x, y, z}
\* The first two carry the same content.
MCContent == [d \in Requests |-> CASE d = d1 -> x [] d = d2 -> x [] d = d3 -> y [] d = d4 -> z]
=============================================================================
