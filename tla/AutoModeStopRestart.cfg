\* Stop and start the same feature again.
CONSTANTS
  Feature = {f1}
  Run = {r1, r2, r3}
  Step = {}
  Manual = {}
  Ops = {"execute", "stop"}
  NoRun = NoRun
  NoFeature = NoFeature
SPECIFICATION Spec
INVARIANT NoDuplicateExecution
