\* A user who may list and not create, two session keys, two processes of the client at once; the clock runs
\* far enough for a session to expire, and for one refreshed in time not to.
SPECIFICATION ClientFairSpec
CONSTANTS
  h1 = h1
  h2 = h2
  k1 = k1
  k2 = k2
  guest = guest
  create = create
  list = list
  None = None
  Handlers = {h1, h2}
  Keys = {k1, k2}
  Users = {guest}
  Permissions = {create, list}
  PermissionsOf <- MCPermissionsOf
  Week = 1
  MaxTime = 2
INVARIANTS
  ClientTypeOK
  SavedSessionIsIssued
PROPERTIES
  DeadStaysDead
  LogoutHolds
  CommandsEnd
