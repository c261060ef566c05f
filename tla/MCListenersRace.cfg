\* One handler and one client thread are enough for a race.
SPECIFICATION Spec
CONSTANTS
  Conn = {1, 2}
  ServerThread = {s1}
  ClientThread = {t1}
  Platform = "douyu"
  None = None
INVARIANT NoRace
