\* One lifecycle request that overlaps a deletion request.
SPECIFICATION Spec
CONSTANTS
  None = None
  Projects = {p1}
  Keys = {k1}
  MaxJobs = 1
  Runners = {}
  Admins = {a1}
  Uploaders = {}
  Tokens = {t1}
  Limit = 1
  MaxFaults = 0
CHECK_DEADLOCK FALSE
INVARIANTS
  ActiveJobKeepsArchived
