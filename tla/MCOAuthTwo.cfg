SPECIFICATION Spec
CONSTANTS
  b1 = b1  b2 = b2  u1 = u1  u2 = u2
  Clients = {c1, c2}
  Uris <- MCTwoUris
  Rows <- MCTwoRows
  Edits = {}
  AllowedHosts = {"app", "localhost"}
  Browsers = {b1, b2}
  Users = {u1, u2}
  AccountOf <- MCTwoAccounts
  Resources = {mcp, other}
  SignIns = {s1, s2}
  Codes = {k1, k2}
  Refreshes = {t1, t2}
  Requests = {r1, r2}
  PendingLife = 1  CodeLife = 1  RefreshLife = 1
  MaxTime = 0
  MaxRemoved = 0  MaxFaults = 0
  Nobody = Nobody  Nothing = Nothing
INVARIANT
  Provenance
SYMMETRY SymmetryOfTwo
CHECK_DEADLOCK FALSE
