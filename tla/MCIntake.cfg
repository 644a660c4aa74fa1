CONSTANTS
  r1 = r1  r2 = r2  memo = memo  x = x  y = y
  Requests <- MCRequests
  Words <- MCWords
  Media <- MCMedia
  Audible <- MCAudible
  Texts <- MCTexts
  MaxCopies = 2
  MaxFaults = 1
  None = None
SPECIFICATION FairSpec
INVARIANTS PlanComplete MediaKept CopiesFiledOnce
PROPERTY CapturesOrganized
CHECK_DEADLOCK FALSE
