CONSTANTS
  a = a  b = b  g = g  s = s  d = d  name = name
  Inputs <- MCInputs
  AgentTexts <- MCAgentTexts
  Mentions <- MCMentions
  Near <- MCNear
  Twin <- MCTwin
  Source <- MCSource
  MaxCommands = 2
  MaxCrashes = 1
  MaxAgent = 1
  MaxRemoved = 1
  None = None
SPECIFICATION Spec
INVARIANTS TombstonesEarned RebuildComplete HistoryKept Reversible
CHECK_DEADLOCK FALSE
