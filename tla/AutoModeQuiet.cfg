\* Three runs of one feature; two runs, two features and a step.
CONSTANTS
  Feature = {f1}
  Run = {r1, r2, r3}
  Step = {}
  Manual = {f1}
  Ops = {"execute", "resume", "resumeInterrupted", "move", "delete", "crash", "abortErrors", "lostWrites"}
  NoRun = NoRun
  NoFeature = NoFeature
  PairFeature = {f1, f2}
  PairRun = {r1, r2}
SPECIFICATION QuietSpec
INVARIANT AtMostOneRun
PROPERTY ProgressNothingStuck
