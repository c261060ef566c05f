\* Two client threads, two chains of heartbeats.
SPECIFICATION FairSpec
CONSTANTS
  ClientThread = {t1, t2}
  MaxLogins = 2
  None = None
INVARIANTS
  TypeOK
  OneChainPerLogin
  ReportMeansClosed
PROPERTIES
  ImplementsSession
  CloseEnds
CHECK_DEADLOCK FALSE
