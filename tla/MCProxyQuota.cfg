CONSTANTS
  ann = ann  bob = bob  Bob = Bob
  Keys = {ann}
  Accounts = {ann}
  Sessions = {s1, s2}
  SuperAdmins = {}
  TheCap = 2
  TheMaxConns = 1
  Limits = {2}
  MaxAmount = 2
  MaxBytes = 6
  LastMonth = 1
  TLS = FALSE
  Username <- MCUsername
  Lower <- MCLower
  LimitBytes <- MCLimitBytes
  MaxConns <- MCMaxConns
SPECIFICATION Spec
SYMMETRY Symmetry
INVARIANTS
  BytesConserved
  DiskNeverAhead
  CapOvershootBounded
