\* Two creations may reserve the same name.
SPECIFICATION Spec
CONSTANTS
  h1 = h1
  h2 = h2
  m = m
  p1 = p1
  p2 = p2
  d1 = d1
  d2 = d2
  None = None
  Handlers = {h1, h2}
  Monitor = m
  Ports = {p1, p2}
  Domains = {d1, d2}
  MaxId = 2
  MaxCtr = 2
  MaxCreates = 2
  MaxDeletes = 0
  Requests = {"create"}
  Faults = {}
  AutoManageMongoDB = FALSE
  CertProvider = "selfsigned"
SYMMETRY Symmetry
INVARIANTS
  DomainsAreUnique
