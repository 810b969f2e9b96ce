SPECIFICATION TeamSpec
CONSTANTS
  Parts <- MCParts
  Underscored <- MCUnderscored
  Scenarios <- MCScenarios
  Concrete <- MCRequests
  MaxEdits = 2
INVARIANTS EveryDenyAnswered GrantsAreSeen
PROPERTIES AdviceSatisfiesTheCheck AdviceConverges
CHECK_DEADLOCK FALSE
