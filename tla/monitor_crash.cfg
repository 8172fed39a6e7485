\* A sweep meets a container that a delete has just removed.
SPECIFICATION Spec
CONSTANTS
  h1 = h1
  m = m
  p1 = p1
  d1 = d1
  None = None
  Handlers = {h1}
  Monitor = m
  Ports = {p1}
  Domains = {d1}
  MaxId = 2
  MaxCtr = 1
  MaxCreates = 1
  MaxDeletes = 1
  Requests = {"create", "delete"}
  Faults = {}
  AutoManageMongoDB = FALSE
  CertProvider = "selfsigned"
SYMMETRY Symmetry
INVARIANTS
  MonitorSurvives
