CONSTANTS
  s = s  u = u
  Ids = {1, 2, 3, 4}
  Entities <- MCEntities
  Stems <- MCStems
  Slugs <- MCSlugs
  Suffixed <- MCSuffixed
  Title <- MCTitle
  Related <- MCRelated
  Mentions <- MCMentions
  Distinct = {1, 4}
  Worker = worker
  Chat = chat
  MaxEdits = 1
  MaxTouches = 2
  MaxCrashes = 1
  None = None
SPECIFICATION VaultSpec
INVARIANTS VaultAgrees BodiesKept
PROPERTIES DeletionsAreTheUsers
CHECK_DEADLOCK FALSE
