\* Two edits, one after the other, of two projects that may have no file.
CONSTANTS
  Project = {j1, j2}
  Edit = {e1, e2}
  OldStep = {o1}
  MaxOrder = 0
  Customs = {{}}
  NoFile = NoFile
SPECIFICATION PipelineSpec
CHECK_DEADLOCK FALSE
INVARIANT EmptyWithoutFile
