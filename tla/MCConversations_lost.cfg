\* Text that the client put in the other of its two forms never reaches a responses API.
SPECIFICATION Spec
CONSTANTS
  Clients <- AllClients
  Upstreams <- AllUpstreams
  Names = {"f", "g"}
  Sizes = {1, 3}
  MaxTurns = 5
  MaxCalls = 2
  MaxPrompt = 6
  MinBudget = 4
  Slack = 5
  MaxGoal = 6
  MaxSystem = 2
  Waived = {"strings", "lists"}
INVARIANTS UserTextSurvives
CHECK_DEADLOCK FALSE
