\* Two runs of the feature, two requests, two versions of the plan.
CONSTANTS
  Run = {r1, r2}
  Call = {c1, c2}
  MaxVersion = 2
  NoRun = NoRun
SPECIFICATION Spec
SYMMETRY Symmetry
INVARIANT ApprovalsConsistent
PROPERTY ApprovedAsShown
