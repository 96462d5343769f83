\* Two requests at a time over one project, an admin and a contributor mapping.
SPECIFICATION Spec
CONSTANTS
  None = None
  m1 = m1
  m2 = m2
  p1 = p1
  o1 = o1
  Users = {u1, u2}
  Projects = {p1}
  Organizations = {}
  Mappings = {m1, m2}
  Target <- TargetOneScope
  Administers <- AdministersOneScope
  Grants = {g1, g2, g3}
  Sessions = {s1}
  Callers = {c1, c2}
  Founders = 1
SYMMETRY Symmetric
CHECK_DEADLOCK FALSE
INVARIANTS
  TypeOK
  SessionsAreCurrent
  AnonymizedLeavesNoSession
PROPERTIES
  OnlyRacesOrphan
  ReconciliationIsExact
