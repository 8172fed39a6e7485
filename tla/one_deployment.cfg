\* One deployment, created, deleted and listed by two handlers while the
\* monitor sweeps; every failure may happen.
SPECIFICATION Spec
CONSTANTS
  h1 = h1
  h2 = h2
  m = m
  p1 = p1
  d1 = d1
  None = None
  Handlers = {h1, h2}
  Monitor = m
  Ports = {p1}
  Domains = {d1}
  MaxId = 2
  MaxCtr = 1
  MaxCreates = 1
  MaxDeletes = 1
  Requests = {"create", "delete", "list", "DeleteDeployment"}
  Faults = {"create", "start", "remove", "disk", "reload", "inspect", "exit", "kill"}
  AutoManageMongoDB = FALSE
  CertProvider = "selfsigned"
SYMMETRY Symmetry
INVARIANTS
  TypeOK
  StatusHasContainer
  URLIsReserved
PROPERTIES
  DeletedIsFinal
  ImplementsRegistry
