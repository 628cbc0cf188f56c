\* Every graph of three features and one missing id, two priorities.
CONSTANTS
  N = 3
  Missing = 0
  Dependencies <- AllDependencies
  Priority = {1, 2}
SPECIFICATION FairSpec
CHECK_DEADLOCK FALSE
INVARIANT DependenciesFirst
INVARIANT MostUrgentFirst
INVARIANT LeftOverExplained
PROPERTY Terminates
