\* Two features, one or two at a time, and one failure.
CONSTANTS
  N = 2
  Limits = {1, 2}
  Load = {l1, l2}
  Check = {k1, k2}
  MaxFailures = 1
  Conditions = {{}, {"steps"}, {"late"}, {"fail"}, {"toggle"}}
SPECIFICATION BoardSpec
CHECK_DEADLOCK FALSE
INVARIANT TypeOK
INVARIANT WithinLimit
PROPERTY PendingCleared
PROPERTY EverythingDone
