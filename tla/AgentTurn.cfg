SPECIFICATION FairTurnSpec
CONSTANTS
  CallIds = {"c1", "c2"}
  MaxIterations = 2
  ToolBudget = 2
  MaxRetries = 1
  MaxItems = 4
INVARIANT
    HistoryIsSendable
PROPERTY
    TurnEnds
