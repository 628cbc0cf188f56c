\* Two features and two loops; two runs and two requests, two versions of the plan.
SPECIFICATION PartSpec
CONSTANTS
  N = 2
  Loop = {l1, l2}
  MaxConcurrency = 1
  Threshold = 2
  SkipVerification = FALSE
  Manual = {2}
  Graphs <- Chains
  ByHand = {1}
  HasContext = {1}
  MaxResuming = 1
  Run = {r1, r2}
  Call = {c1, c2}
  NoRun = NoRun
INVARIANTS
  CapacityBound
  StopsWhenFailing
PROPERTIES
  DependenciesDone
  LoopsEnd
  WorkIsTakenUp
  TimelyWaitsEnd
