\* Liveness with one session of each family.
SPECIFICATION FairSpec
CONSTANTS
  Conn = {1, 2, 3}
  Room = {"d", "h"}
  BadRoom = {}
  Inst = {i1}
  ClientThread = {t1}
  Kind <- KindLive
  MaxExtra = 1
  None = None

PROPERTIES
  LostListenerDropped
  CloseTakesEffect
CHECK_DEADLOCK FALSE
