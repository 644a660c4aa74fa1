CONSTANTS
  d1 = d1  d2 = d2  d3 = d3  d4 = d4  x = x  y = y  z = z
  Requests <- MCAll
  Fulfillable <- MCFulfillable
  Poison <- MCPoison
  Contents <- MCContents
  Content <- MCContent
  Takes = {1}
  Watches = {TRUE, FALSE}
  MaxPerPass = 1
  Agent <- MCAgent
  Folder <- MCFolder
  Texts <- MCTexts
  MaxWatches = 2
  MaxFaults = 1
  MaxCrashes = 1
  Nothing = Nothing
SPECIFICATION FairDirectives
INVARIANTS DoneIsCaptured OneEffect
PROPERTY NothingStuck
CHECK_DEADLOCK FALSE
