\* A sweep saves a row it read before the creation went on.
SPECIFICATION Spec
CONSTANTS
  h1 = h1
  m = m
  p1 = p1
  d1 = d1
  None = None
  Handlers = {h1}
  Monitor = m
  Ports = {p1}
  Domains = {d1}
  MaxId = 1
  MaxCtr = 1
  MaxCreates = 1
  MaxDeletes = 0
  Requests = {"create"}
  Faults = {}
  AutoManageMongoDB = FALSE
  CertProvider = "selfsigned"
SYMMETRY Symmetry
INVARIANTS
  AckedHasContainer
