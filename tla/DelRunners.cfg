\* Two runners, one project and a lifecycle request or two projects, no upload.
SPECIFICATION MCFairSpec
CONSTANTS
  None = None
  p1 = p1
  p2 = p2
  k1 = k1
  Projects = {p1, p2}
  Keys = {k1, k2}
  MaxJobs = 2
  Runners = {r1, r2}
  Admins = {a1}
  Uploaders = {}
  Tokens = {1, 2, 3}
  Limit = 2
  MaxFaults = 2
CHECK_DEADLOCK FALSE
INVARIANTS
  TypeOK
  CompletedMeansErased
PROPERTIES
  StaleRunnersHarmless
  KeepsPromise
  ErasableJobsEnd
