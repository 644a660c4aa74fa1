CONSTANTS
  a = a  b = b
  Notes <- MCNotes
  Filters <- MCFilters
  Threads <- MCThreads
  MaxTurns = 1
  MaxSubmits = 3
  None = None
SPECIFICATION FairSpec
INVARIANTS GroundedInScope DialoguePaired
PROPERTY InputReturns
CHECK_DEADLOCK FALSE
