SPECIFICATION SpecSessions
CHECK_DEADLOCK FALSE
CONSTANTS
  ToolKeys = {"k1", "k2"}
  EditContents = {"x", "y"}
  TurnTokens = {1}
  UnknownTokens = UnknownTokens
  MaxCallsPerTurn = 2
  MaxTurns = 3
  MaxTotalTokens = 3
  MaxToolCalls = 2
  MaxConsecutiveFailedCalls = 2
  MaxOscillatingEdits = 1
  MaxRepair = 1
INVARIANT ToolCallsWithinLimit
