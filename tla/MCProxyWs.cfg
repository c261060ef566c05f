\* Two websocket rooms, whose close() may lose rp_rw_mtx or crash.
SPECIFICATION Spec
CONSTANTS
  Conn = {1, 2}
  Room = {"h", "y"}
  BadRoom = {}
  Inst = {i1, i2}
  ClientThread = {t1}
  Kind <- KindWs
  MaxExtra = 1
  None = None
SYMMETRY Symmetry
INVARIANTS
  ViewerAttached
  ClosedStaysSilent
  DeadIsUnmapped
CHECK_DEADLOCK FALSE
