----------------------------- MODULE WsClient ------------------------------
(***************************************************************************)
(* One client connection of websocketpp, as the sessions of huajiao and YY *)
(* use it: its state, which operations succeed in which state, and which   *)
(* handler its end calls.  The client is multithreaded, so that all        *)
(* handlers of a connection run on its strand, one at a time; send and     *)
(* close may be called by any thread, and timers of the endpoint are not   *)
(* on the strand.                                                          *)
(***************************************************************************)
CONSTANTS
  ClientThread, \* threads that run platform_io_service
  None

VARIABLES
  conn,  \* m_state of the connection
  over,  \* how it ended: "no", "failed" or "closed", and "told" the session
  strand \* the thread that runs a handler of the connection, or None

WsType ==
  /\ conn \in {"connecting", "open", "closing", "closed"}
  /\ over \in {"no", "failed", "closed", "told"}
  /\ strand \in ClientThread \cup {None}

\* client.connect has been called.
WsInit ==
  /\ conn = "connecting"
  /\ over = "no"
  /\ strand = None

\* The handshake's response is valid.  What was read with it waits until the
\* open handler has returned.
Open ==
  /\ strand = None
  /\ conn = "connecting"
  /\ conn' = "open"
  /\ UNCHANGED over

\* The upstream's close frame is answered by another; one that answers ours
\* changes nothing.
ReceiveClose ==
  /\ strand = None
  /\ conn = "open"
  /\ conn' = "closing"
  /\ UNCHANGED <<over, strand>>

\* A read or a write fails, or a handshake takes too long.
Terminate ==
  /\ strand = None
  /\ conn # "closed"
  /\ conn' = "closed"
  /\ over' = IF conn = "connecting" THEN "failed" ELSE "closed"
  /\ UNCHANGED strand

\* A message that comes after the connection left the state "open" is dropped.
Deliverable == strand = None /\ conn = "open"

CanSend == conn = "open"

\* client.close with its error ignored.
Closing == IF conn = "open" THEN "closing" ELSE conn
=============================================================================
