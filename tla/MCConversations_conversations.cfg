SPECIFICATION Spec
CONSTANTS
  Clients <- AllClients
  Upstreams <- AllUpstreams
  Names = {"f", "g"}
  Sizes = {1, 3}
  MaxTurns = 5
  MaxCalls = 2
  MaxPrompt = 6
  MinBudget = 4
  Slack = 5
  MaxGoal = 6
  MaxSystem = 2
  Waived <- None
INVARIANTS TypeOK SaidInOrder ResultsNamed UserTextSurvives ThinkingStaysHome UpstreamAccepts
CHECK_DEADLOCK FALSE
