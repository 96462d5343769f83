\* A project that was published before its deletion was requested.
SPECIFICATION FairSpec
CONSTANTS
  None = None
  Projects = {p1}
  Keys = {k1}
  MaxJobs = 1
  Runners = {r1}
  Admins = {}
  Uploaders = {}
  Tokens = {t1, t2}
  Limit = 1
  MaxFaults = 0
CHECK_DEADLOCK FALSE
PROPERTIES
  DueJobsAreExecuted
