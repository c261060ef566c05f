\* What a report says of the connection.
SPECIFICATION Spec
CONSTANTS
  ClientThread = {t1}
  MaxMsg = 1
  MaxWrites = 2
  Punctual = TRUE
INVARIANT ReportMeansClosed
CHECK_DEADLOCK FALSE
