CONSTANTS
  Kinds <- AllKinds
  MaxSent = 2
SPECIFICATION Spec
\* A tunnel that has closed stays closed.
CHECK_DEADLOCK FALSE
INVARIANTS
  NeverOvercharged
  EndedCopierCharged
  ConnectChargesInFull
  DeliveredInFull
PROPERTIES
  PlainTunnelCloses
  SocksTunnelCloses
  SilentTunnelCloses
  CopiersFinish
