\* What the close reason sent to a viewer says of publish.
SPECIFICATION Spec
CONSTANTS
  Conn = {1, 2}
  Room = {"y"}
  BadRoom = {}
  Inst = {i1}
  ClientThread = {t1}
  Kind <- KindYY
  MaxExtra = 0
  None = None

INVARIANT OnlyFailedSendCloses
CHECK_DEADLOCK FALSE
