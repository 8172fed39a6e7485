\* A delete whose lookup fails with another error than 'not found'.
SPECIFICATION Spec
CONSTANTS
  h1 = h1
  m = m
  p1 = p1
  p2 = p2
  d1 = d1
  d2 = d2
  None = None
  Handlers = {h1}
  Monitor = m
  Ports = {p1, p2}
  Domains = {d1, d2}
  MaxId = 4
  MaxCtr = 2
  MaxCreates = 2
  MaxDeletes = 2
  Requests = {"create", "delete"}
  Faults = {"lookup"}
  AutoManageMongoDB = FALSE
  CertProvider = "selfsigned"
SYMMETRY Symmetry
PROPERTIES
  DeletesOneRow
