\* One runner, two uploads: the upload guard against requests, purge and sweep.
SPECIFICATION Spec
CONSTANTS
  None = None
  Projects = {p1}
  Keys = {k1, k2, k3}
  MaxJobs = 2
  Runners = {r1}
  Admins = {}
  Uploaders = {u1, u2}
  Tokens = {t1, t2, t3}
  Limit = 2
  MaxFaults = 3
SYMMETRY Symmetric
CHECK_DEADLOCK FALSE
INVARIANTS
  ErasureIsTotal
  AcknowledgedBytesKept
  ManifestIsExact
  NoSilentOrphan
  DeletionInv
PROPERTIES
  KeepsPromise
