CONSTANTS
  Deadline = 3
  DialTimeout = 3
  MaxData = 2
SPECIFICATION FairSpec
\* A connection that has been closed stays closed.
CHECK_DEADLOCK FALSE
INVARIANTS
  DialogueLegal
  EarlyDataKept
  HandshakeBounded
PROPERTIES
  DialAnswered
  HandshakeEnds
  LeaverLetGo
