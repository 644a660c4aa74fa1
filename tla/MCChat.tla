------------------------------- MODULE MCChat -------------------------------
EXTENDS Chat

CONSTANTS a, b

MCNotes == {a, b}
MCFilters == {{}, {a}}
MCThreads == 1..2
=============================================================================
