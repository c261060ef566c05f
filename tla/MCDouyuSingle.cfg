\* One client thread: messages keep their order, and close() ends the session.
SPECIFICATION FairSpec
CONSTANTS
  ClientThread = {t1}
  MaxMsg = 3
  MaxWrites = 2
  Punctual = TRUE
INVARIANT InOrder
PROPERTY CloseEnds
CHECK_DEADLOCK FALSE
