\* Two handlers and one client thread over a session of YY, whose close() may
\* return, hang or crash.
SPECIFICATION FairSpec
CONSTANTS
  Conn = {1, 2}
  ServerThread = {s1, s2}
  ClientThread = {t1}
  Platform = "YY"
  None = None
INVARIANTS
  TypeOK
  ClosedIsEmpty
PROPERTIES
  ThreadsFinish
  ImplementsAtomic
CHECK_DEADLOCK FALSE
