CONSTANTS
  a = a  b = b  c = c  w1 = w1  w2 = w2  v1 = v1  v2 = v2
  Ids <- MCIds
  Writers <- MCTwoWriters
  Main = w1
  Values <- MCValues
  Created = v1
  DiskErrors = TRUE
  TornWrites = FALSE
  MaxLines = 3
  MaxCrashes = 1
  TableNotes <- MCTableNotes
  DimOf <- MCDimOf
  MaxAdds = 5
  MaxDeletes = 2
  MaxOpens = 3
  None = None
SPECIFICATION RepositorySpec
SYMMETRY Symmetric
INVARIANTS NoPhantom DeletedForGood RestartAgreesAlone IdenticalAlone HonestAnswers
CHECK_DEADLOCK FALSE
