\* Two client threads, a body in two chunks.
SPECIFICATION FairSpec
CONSTANTS
  ClientThread = {t1, t2}
  Body = 2
  MaxMsg = 2
  MaxWrites = 1
INVARIANTS
  TypeOK
  OneStep
  HeartbeatGoesOn
  PublishedOnce
  ParsedBody
PROPERTIES
  ImplementsSession
  CloseEndsRequest
CHECK_DEADLOCK FALSE
