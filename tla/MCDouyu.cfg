\* Two client threads: handlers overlap.
SPECIFICATION Spec
CONSTANTS
  ClientThread = {t1, t2}
  MaxMsg = 2
  MaxWrites = 2
  Punctual = FALSE
SYMMETRY Symmetry
INVARIANTS
  TypeOK
  OneRead
  HeartbeatGoesOn
  PublishedOnce
PROPERTY ImplementsSession
CHECK_DEADLOCK FALSE
