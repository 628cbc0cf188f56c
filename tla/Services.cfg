\* Three messages of a session, four callers of a lock, three validations of an
\* issue, and three starts of servers.
CONSTANTS
  Message = {m1, m2, m3}
  Traffics = {{}, {"lookup"}, {"clear"}, {"fail"}, {"clear", "lookup", "edit"}, {"stop", "fail", "lookup"}, {"stop", "clear", "edit"}}
  NoMessage = NoMessage
  Caller = {c1, c2, c3, c4}
  Crowds = {1, 2, 3}
  NoCaller = NoCaller
  Issue = {i1}
  Task = {t1, t2, t3}
  Demands = {{}, {"stop"}, {"deaf"}, {"stop", "deaf"}, {"view"}, {"stop", "view"}}
  NoTask = NoTask
  Worktree = {w1, w2}
  Start = {s1, s2, s3}
  MaxPort = 2
  Habits = {{}, {"stop", "overlap"}}
  NoStart = NoStart
SPECIFICATION ServicesSpec
CHECK_DEADLOCK FALSE
INVARIANT ServicesTypeOK
INVARIANT RunningOwned
INVARIANT OneAtATime
INVARIANT PairExclusive
INVARIANT SlotHeld
INVARIANT ServersAccounted
INVARIANT OneServerEach
PROPERTY QueueDrains
PROPERTY WaitersEnter
PROPERTY SlotFreed
