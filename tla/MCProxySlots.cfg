CONSTANTS
  ann = ann  bob = bob  Bob = Bob
  Keys = {bob, Bob}
  Accounts = {bob}
  Sessions = {s1, s2}
  SuperAdmins = {bob}
  TheCap = 0
  TheMaxConns = 1
  Limits = {0}
  MaxAmount = 0
  MaxBytes = 0
  LastMonth = 0
  TLS = TRUE
  Username <- MCUsername
  Lower <- MCLower
  LimitBytes <- MCLimitBytes
  MaxConns <- MCMaxConns
SPECIFICATION FairSpec
INVARIANTS
  SlotAccounting
PROPERTY
  ShutdownCompletes
