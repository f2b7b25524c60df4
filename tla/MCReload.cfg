\* The pair is renewed twice.
CONSTANT LastGen = 3
SPECIFICATION FairSpec
INVARIANT
  TypeOK
PROPERTIES
  SignalledPairServed
  OlderOnlyFromEarlyReload
