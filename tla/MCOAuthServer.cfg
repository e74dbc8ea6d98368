SPECIFICATION Spec
CONSTANTS
  b1 = b1  b2 = b2  u1 = u1  u2 = u2
  Clients = {c1}
  Uris <- MCUris
  Rows <- MCRows
  Edits <- MCEdits
  AllowedHosts = {"app"}
  Browsers = {b1}
  Users = {u1}
  AccountOf <- MCOneAccount
  Resources = {mcp}
  SignIns = {s1}
  Codes = {k1, k2}
  Refreshes = {t1, t2}
  Requests = {r1, r2}
  PendingLife = 1  CodeLife = 2  RefreshLife = 2
  MaxTime = 3
  MaxRemoved = 1  MaxFaults = 2
  Nobody = Nobody  Nothing = Nothing
INVARIANTS
  TypeOK
  SingleUse
  Chronology
  CodeNotWasted
  GivenIsRecorded
PROPERTY
  KeepsGrant
  RemovedForGood
SYMMETRY Symmetry
CHECK_DEADLOCK FALSE
