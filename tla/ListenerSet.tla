---------------------------- MODULE ListenerSet ----------------------------
(***************************************************************************)
(* What the listeners of one registered session look like to the rest of   *)
(* the proxy when every operation of platform_base is taken as one step:   *)
(* the specification that module Listeners, which takes the two mutexes    *)
(* and the single accesses apart, is shown to implement.                   *)
(***************************************************************************)
EXTENDS Naturals

CONSTANT Conn  \* viewer connections, in the order of the set of listeners

VARIABLES
  listeners, \* m_listeners
  open,      \* connections a send succeeds on
  mapped,    \* the session is in rp_map
  closed     \* close() was called on it

vars == <<listeners, open, mapped, closed>>

Init ==
  /\ listeners \in (SUBSET Conn) \ {{}}
  /\ open = Conn
  /\ mapped = TRUE
  /\ closed = FALSE

Lose(c) ==
  /\ c \in open
  /\ open' = open \ {c}
  /\ UNCHANGED <<listeners, mapped, closed>>

Join(c) ==
  /\ mapped
  /\ listeners' = listeners \cup {c}
  /\ UNCHANGED <<open, mapped, closed>>

\* The last one to leave closes the session and takes it off the map.
Leave(c) ==
  /\ mapped
  /\ listeners' = listeners \ {c}
  /\ closed' = (listeners' = {})
  /\ mapped' = (listeners' # {})
  /\ UNCHANGED open

\* publish closes an open connection only after an earlier listener failed,
\* and erases only listeners whose connection is no longer open.
Kick(c) ==
  /\ c \in open \cap listeners
  /\ \E d \in Conn \ open : d < c
  /\ open' = open \ {c}
  /\ UNCHANGED <<listeners, mapped, closed>>

Drop(c) ==
  /\ c \in listeners \ open
  /\ listeners' = listeners \ {c}
  /\ UNCHANGED <<open, mapped, closed>>

Unmap ==
  /\ mapped' = FALSE
  /\ UNCHANGED <<listeners, open, closed>>

Next ==
  \/ \E c \in Conn : Lose(c) \/ Join(c) \/ Leave(c) \/ Kick(c) \/ Drop(c)
  \/ Unmap

Spec == Init /\ [][Next]_vars
=============================================================================
