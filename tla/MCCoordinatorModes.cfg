CONSTANTS
  c1 = c1  c2 = c2  c3 = c3  s1 = s1  n1 = n1  n2 = n2
  Captures <- MCCaptures3
  Submitters <- MCSubmitter1
  Notes <- MCNotes
  NoteOf <- MCNoteOf3
  MaxPending = 1
  RecentCap = 1
  BacklogCap = 2
  ReviewMode = "parked"
  EnrichOn = TRUE
  None = None
SPECIFICATION ModesSpec
INVARIANTS SavedIsCommitted EnrichmentYields
