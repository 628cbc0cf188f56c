\* The three uses of a file, with the constants of the module itself those of the
\* serial one; a plan of three changes for three features; pipelines.
CONSTANTS
  Proc = {p1, p2}
  Update = {u1, u2}
  MaxBackups = 1
  MaxStamp = 2
  Distinct = FALSE
  Serial = TRUE
  Faults = {"crash", "readFails", "writeFails", "ignoredFails"}
  NoUpdate = NoUpdate
  None = None
  Torn = Torn
  PairUpdate = {u1, u2}
  Writer = p3
  LongHistory = {u1, u2, u3, u4}
  Feature = {f1, f2, f3}
  New = {n1}
  MaxChanges = 3
  MaxWritten = 1
  Uses = {{"repeats"}, {"deletes", "edits"}}
  Project = {j1, j2}
  Edit = {e1, e2}
  OldStep = {o1, o2}
  MaxOrder = 1
  Customs = {{}, {"orders"}, {"overlap"}, {"overlap", "unreadable"}}
  NoFile = NoFile
SPECIFICATION UsageSpec
CHECK_DEADLOCK FALSE
SYMMETRY UsageSymmetry
INVARIANT UsageTypeOK
INVARIANT MainComplete
INVARIANT NoUpdateLost
INVARIANT DamagedBackupsTrail
PROPERTY ConcurrentWritesKeepWhole
PROPERTY ImplementsRecord
INVARIANT OneDeletionClean
INVARIANT StepsStay
PROPERTY DeletionKeepsOrder
