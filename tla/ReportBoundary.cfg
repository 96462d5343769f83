\* The smallest instance with a report: at most one page view, and the clock.
SPECIFICATION MCSpec
CONSTANTS
  None = None
  Gone = Gone
  Nobody = Nobody
  p1 = p1
  u1 = u1
  u2 = u2
  u3 = u3
  s1 = s1
  s2 = s2
  x1 = x1
  x2 = x2
  i1 = i1
  i2 = i2
  b1 = b1
  b2 = b2
  v1 = v1
  v2 = v2
  MaxTime = 5
  Projects = {p1}
  Users = {u1, u2}
  Subjects = {s1, s2}
  Invitations = {i1, i2}
  Sessions = {x1}
  Emails = {"ann", "Ann", "bob"}
  Folded <- MCFolded
  Browsers = {b1, b2}
  MaxLogins = 3
  SessionTtl = 1
  Visitors = {v1, v2}
  MaxRequests = 1
  RequestTime = 1
  MaxAtOnce = 2
  SessionIdle = 2
  SessionMaxDuration = 2
  DayLength = 2
  RawRetention = 4
  Periods = {2, 4}
  PurgeAfterInvalidation = 1
  PendingExpiresAfter = 2
  TerminalRetention = 3
  EmailRetention = 2
  MaxPasses = 1
CHECK_DEADLOCK FALSE
INVARIANTS
  NothingCountedTwice
