CONSTANTS
  Conns = {c1, c2, c3}
  MaxConns = 2
  DrainTicks = 3
SPECIFICATION FairSpec
\* The process ends.
CHECK_DEADLOCK FALSE
INVARIANTS
  HandlersAccounted
  DrainedMeansIdle
  SignalIsNotFatal
  DrainCompletes
PROPERTY
  SignalStops
  ImplementsGate
