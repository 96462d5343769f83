\* Two requests at a time that may remove the last two administrators.
SPECIFICATION Spec
CONSTANTS
  None = None
  m1 = m1
  m2 = m2
  p1 = p1
  o1 = o1
  Users = {u1, u2}
  Projects = {p1}
  Organizations = {}
  Mappings = {}
  Target <- TargetNone
  Administers <- AdministersNone
  Grants = {g1, g2}
  Sessions = {}
  Callers = {c1, c2}
  Founders = 2
SYMMETRY Symmetric
CHECK_DEADLOCK FALSE
INVARIANTS
  LastAdminKept
