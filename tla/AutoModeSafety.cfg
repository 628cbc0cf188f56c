\* One feature, three runs, one pipeline step, everything may happen.
CONSTANTS
  Feature = {f1}
  Run = {r1, r2, r3}
  Step = {1}
  Manual = {}
  Ops = {"execute", "resume", "followUp", "stop", "resumeInterrupted", "move", "delete", "deleteStep", "crash", "abortErrors", "lostWrites"}
  NoRun = NoRun
  NoFeature = NoFeature
SPECIFICATION Spec
SYMMETRY RunSymmetry
INVARIANT TypeOK
INVARIANT EntryOwned
INVARIANT NoOrphan
