\* One request at a time beside the monitor; Docker and
\* nginx may fail and the daemon be killed.
SPECIFICATION Spec
CONSTANTS
  h1 = h1
  m = m
  p1 = p1
  p2 = p2
  d1 = d1
  d2 = d2
  None = None
  Handlers = {h1}
  Monitor = m
  Ports = {p1, p2}
  Domains = {d1, d2}
  MaxId = 3
  MaxCtr = 2
  MaxCreates = 2
  MaxDeletes = 1
  Requests = {"create", "delete"}
  Faults = {"create", "start", "remove", "reload", "exit", "kill"}
  AutoManageMongoDB = FALSE
  CertProvider = "selfsigned"
SYMMETRY Symmetry
INVARIANTS
  DomainsAreUnique
  PortsAreUnique
  SitesAreLoadable
  AckedIsRouted
  OnlyDeletedAreMisrouted
PROPERTIES
  DeletesOneRow
