---------------------------- MODULE TcpSession -----------------------------
(***************************************************************************)
(* What the registry relies on of one douyu or bilibili session: the       *)
(* stages of its upstream connection that module Proxy keeps in up[i], and *)
(* which publishes and reports a session makes in which of them.  The      *)
(* modules of the platforms are shown to implement it.                     *)
(***************************************************************************)

CONSTANTS
  ClientThread, \* threads that run platform_io_service
  Platform      \* "douyu" or "bilibili"

VARIABLES
  up,       \* the stage of the upstream connection
  said,     \* flips with every publish, so that none is a stuttering step
  waiting,  \* whether each client thread is in on_platform_close for it
  reported, \* it called its close callback
  closed    \* close() was called

vars == <<up, said, waiting, reported, closed>>

TypeOK ==
  /\ up \in {"resolving", "socket", "aborting", "draining", "ended"}
  /\ said \in BOOLEAN
  /\ waiting \in [ClientThread -> BOOLEAN]
  /\ reported \in BOOLEAN
  /\ closed \in BOOLEAN

Init ==
  /\ up = "resolving"
  /\ said = FALSE
  /\ waiting = [t \in ClientThread |-> FALSE]
  /\ reported = FALSE
  /\ closed = FALSE

\* A resolve succeeds; bilibili resolves its second host after its first.
Progress ==
  /\ \/ up = "resolving" /\ up' = "socket"
     \/ up \in {"socket", "aborting"} /\ Platform = "bilibili" /\ up' = "resolving"
  /\ UNCHANGED <<said, waiting, reported, closed>>

\* close() aborts what goes on at the socket, and nothing else.
Close ==
  /\ ~closed
  /\ closed' = TRUE
  /\ up' = IF up = "socket" THEN "aborting" ELSE up
  /\ UNCHANGED <<said, waiting, reported>>

Publish ==
  /\ up \in {"socket", "aborting", "draining"}
  /\ said' = ~said
  /\ UNCHANGED <<up, waiting, reported, closed>>

Report(t) ==
  /\ ~waiting[t]
  /\ said' = ~said
  /\ waiting' = [waiting EXCEPT ![t] = TRUE]
  /\ reported' = TRUE
  /\ UNCHANGED closed

\* The report that ends the session.
FinalReport(t) ==
  /\ up \in {"resolving", "socket", "aborting"}
  /\ up' = "draining"
  /\ Report(t)

\* Those of operations aborted by the first failure, and of a douyu message
\* without its end.
ExtraReport(t) ==
  /\ up = "draining" \/ (up = "socket" /\ Platform = "douyu")
  /\ Report(t)
  /\ UNCHANGED up

OnPlatformClose(t) ==
  /\ waiting[t]
  /\ waiting' = [waiting EXCEPT ![t] = FALSE]
  /\ UNCHANGED <<up, said, reported, closed>>

End ==
  /\ up = "draining"
  /\ \A t \in ClientThread : ~waiting[t]
  /\ up' = "ended"
  /\ UNCHANGED <<said, waiting, reported, closed>>

Next ==
  \/ Progress \/ Close \/ Publish \/ End
  \/ \E t \in ClientThread : FinalReport(t) \/ ExtraReport(t) \/ OnPlatformClose(t)

Spec == Init /\ [][Next]_vars
=============================================================================
