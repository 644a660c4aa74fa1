CONSTANTS
  c1 = c1  c2 = c2  s1 = s1  n1 = n1  n2 = n2
  Captures <- MCCaptures2
  Submitters <- MCSubmitters
  Notes <- MCNotes
  NoteOf <- MCNoteOf2
  PhoneCaptures <- MCPhone
  MaxPending = 1
  RecentCap = 1
  BacklogCap = 1
  ReviewMode = "parked"
  EnrichOn = FALSE
  MaxRestarts = 1
  MaxReplies = 1
  None = None
SPECIFICATION PhoneFair
INVARIANT AnswersShown
PROPERTY PhoneSeesPending
