\* A deleted deployment's port is given to another one.
SPECIFICATION Spec
CONSTANTS
  h1 = h1
  m = m
  p1 = p1
  p2 = p2
  d1 = d1
  d2 = d2
  None = None
  Handlers = {h1}
  Monitor = m
  Ports = {p1, p2}
  Domains = {d1, d2}
  MaxId = 3
  MaxCtr = 2
  MaxCreates = 2
  MaxDeletes = 1
  Requests = {"create", "delete"}
  Faults = {}
  AutoManageMongoDB = FALSE
  CertProvider = "selfsigned"
SYMMETRY Symmetry
INVARIANTS
  RouteReachesItsOwn
