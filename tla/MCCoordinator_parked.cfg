CONSTANTS
  c1 = c1  c2 = c2  s1 = s1  s2 = s2  n1 = n1  n2 = n2
  Captures <- MCCaptures2
  Submitters <- MCSubmitters
  Notes <- MCNotes
  NoteOf <- MCNoteOf2
  MaxPending = 1
  RecentCap = 2
  BacklogCap = 1
  ReviewMode = "parked"
  EnrichOn = TRUE
  None = None
SPECIFICATION FairSpec
INVARIANTS QueueMirror CommitOnlyApproved
PROPERTIES FirstDecisionWins NoSecondWorker LinePromise StopEndsWorker AcceptedIsServed
