CONSTANTS
  bob = bob  Bob = Bob
  home = home  office = office  street = street
  good = good  bad = bad
  Requests = {r1, r2}
  Logins = {bob, Bob}
  Accounts = {bob}
  Enabled = {bob}
  Passwords = {good, bad}
  SuperAdmins = {bob}
  Addrs = {home, office, street}
  Whitelist = {home, office}
  AdminAddrs = {office}
  MinTokens = 1
  CredCacheTTL = 5
  Seconds = {5}
  LastTime = 15
  PacAddrs = {street}
  PacLimit = 2
  Minute = 10
  Attempts <- MCAttempts
  Lower <- MCLower
  Username <- MCUsername
  Password <- MCPassword
  RPM <- MCRPM
  Expires <- MCExpires
SPECIFICATION Spec
SYMMETRY Symmetry
INVARIANTS
  RateBound
  PacBound
  AdmittedAreEntitled
PROPERTY
  RefusedOnlyWhenSpent
