CONSTANTS
    EventCap = 2
    ProgressCap = 1
    Scenarios <- MCScenarios
SPECIFICATION Spec
INVARIANTS TypeOK CancelReaches IdleWhenOver SavedConfigLoads ModesAgree
