CONSTANTS
  ann = ann  bob = bob  Bob = Bob
  Keys = {ann}
  Accounts = {ann}
  Sessions = {s1, s2}
  SuperAdmins = {}
  TheCap = 0
  TheMaxConns = 1
  Limits = {0}
  MaxAmount = 1
  MaxBytes = 1
  LastMonth = 0
  TLS = FALSE
  Username <- MCUsername
  Lower <- MCLower
  LimitBytes <- MCLimitBytes
  MaxConns <- MCMaxConns
SPECIFICATION Spec
INVARIANT
  ConnLimitHolds
