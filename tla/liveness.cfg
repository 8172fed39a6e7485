\* Requests end and the monitor lives and converges; nothing is deleted or killed.
SPECIFICATION FairSpec
CONSTANTS
  h1 = h1
  h2 = h2
  m = m
  p1 = p1
  d1 = d1
  None = None
  Handlers = {h1, h2}
  Monitor = m
  Ports = {p1}
  Domains = {d1}
  MaxId = 1
  MaxCtr = 2
  MaxCreates = 1
  MaxDeletes = 0
  Requests = {"create", "list"}
  Faults = {"exit", "start", "reload"}
  AutoManageMongoDB = TRUE
  CertProvider = "selfsigned"
INVARIANTS
  MonitorSurvives
  RowsAreDeployments
PROPERTIES
  RequestsEnd
  StatusSettles
