\* A stop, a second run of the feature and nobody who answers.
CONSTANTS
  Run = {r1, r2}
  Call = {}
  MaxVersion = 1
  NoRun = NoRun
SPECIFICATION FairSpec
PROPERTY NoEternalWait
