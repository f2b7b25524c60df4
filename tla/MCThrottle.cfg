SPECIFICATION FairSpec
CONSTANTS
  Copiers = {up, down}
  Rate = 1
  MaxTokens = 3
  Buffer = 2
  MaxSleep = 2
  Far = 7
  Window = 2
INVARIANTS
  Overdraft
  BurstBound
PROPERTY
  ThrottleYields
