\* Two tcp rooms and one that is refused: viewers change rooms, come and go.
SPECIFICATION Spec
CONSTANTS
  Conn = {1, 2}
  Room = {"d", "b"}
  BadRoom = {"x"}
  Inst = {i1, i2}
  ClientThread = {t1}
  Kind <- KindTcp
  MaxExtra = 0
  None = None
SYMMETRY Symmetry
INVARIANTS
  TypeOK
  MappedListenerIsCurrent
  StartedOnce
  ViewerAttached
  ClosedStaysSilent
  OrphanHasReport
  DeadIsUnmapped
CHECK_DEADLOCK FALSE
