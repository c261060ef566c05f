\* Two client threads; handshake, stray frames, and frames of up to two messages.
SPECIFICATION FairSpec
CONSTANTS
  ClientThread = {t1, t2}
  Batch = {1, 2}
  MaxFrames = 6
  None = None
INVARIANTS
  TypeOK
  Protocol
  InOrder
PROPERTIES
  ImplementsSession
  CloseEnds
CHECK_DEADLOCK FALSE
