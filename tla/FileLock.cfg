\* Three callers of the lock at once.
CONSTANTS
  Caller = {c1, c2, c3}
  Crowds = {3}
  NoCaller = NoCaller
SPECIFICATION LockSpec
CHECK_DEADLOCK FALSE
INVARIANT Exclusive
