\* A login that overlaps the disabling of a mapping.
SPECIFICATION Spec
CONSTANTS
  None = None
  m1 = m1
  m2 = m2
  p1 = p1
  o1 = o1
  Users = {u1, u2}
  Projects = {p1}
  Organizations = {o1}
  Mappings = {m1, m2}
  Target <- TargetTwoScopes
  Administers <- AdministersTwoScopes
  Grants = {g1, g2, g3}
  Sessions = {}
  Callers = {c1, c2}
  Founders = 1
SYMMETRY Symmetric
CHECK_DEADLOCK FALSE
INVARIANTS
  DisabledMappingGrantsNothing
