CONSTANTS
  Kinds <- ThrottledConnect
  MaxSent = 2
SPECIFICATION Spec
\* A tunnel that has closed stays closed.
CHECK_DEADLOCK FALSE
PROPERTY
  TunnelCloses
