\* One request at a time is enough: a rotation by hand between its statements.
SPECIFICATION Spec
CONSTANTS
  None = None
  n1 = n1
  n2 = n2
  n3 = n3
  plain = plain
  empty = empty
  Projects = {p1}
  Clients = {c1, c2}
  Names = {n1, n3}
  SlugOf <- NormalizedTwo
  ClientSlugs = {s1, s2, s3}
  Accesses = {a1, a2, a3}
  MaxRevision = 2
  Callers = {k1}
SYMMETRY Symmetric
INVARIANTS
  NoOrphanPublication
