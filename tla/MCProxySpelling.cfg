CONSTANTS
  ann = ann  bob = bob  Bob = Bob
  Keys = {bob, Bob}
  Accounts = {bob}
  Sessions = {s1}
  SuperAdmins = {}
  TheCap = 1
  TheMaxConns = 0
  Limits = {1}
  MaxAmount = 1
  MaxBytes = 3
  LastMonth = 0
  TLS = FALSE
  Username <- MCUsername
  Lower <- MCLower
  LimitBytes <- MCLimitBytes
  MaxConns <- MCMaxConns
SPECIFICATION Spec
INVARIANT
  CapHoldsForAnySpelling
