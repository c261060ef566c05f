----------------------------- MODULE WsSession -----------------------------
(***************************************************************************)
(* What the registry relies on of one huajiao or YY session: the stages of *)
(* its upstream connection that module Proxy keeps in up[i], which         *)
(* publishes and reports a session makes in which of them, and when its    *)
(* close() does not come back.  The modules of the platforms are shown to  *)
(* implement it.                                                           *)
(***************************************************************************)

CONSTANTS
  ClientThread, \* threads that run platform_io_service
  Platform      \* "huajiao" or "YY"

VARIABLES
  up,       \* the stage of the upstream connection
  hbTimer,  \* whether m_hb_timer is not null
  fault,    \* "none", "deadlock" (rp_rw_mtx is held for ever) or "crash"
  said,     \* flips with every publish, so that none is a stuttering step
  waiting,  \* whether each client thread is in on_platform_close for it
  reported, \* it called its close callback
  closed    \* close() was called

vars == <<up, hbTimer, fault, said, waiting, reported, closed>>

TypeOK ==
  /\ up \in {"connecting", "open", "closing", "terminated", "draining", "ended"}
  /\ hbTimer \in BOOLEAN
  /\ fault \in {"none", "deadlock", "crash"}
  /\ said \in BOOLEAN
  /\ waiting \in [ClientThread -> BOOLEAN]
  /\ reported \in BOOLEAN
  /\ closed \in BOOLEAN

Init ==
  /\ up = "connecting"
  /\ hbTimer = FALSE
  /\ fault = "none"
  /\ said = FALSE
  /\ waiting = [t \in ClientThread |-> FALSE]
  /\ reported = FALSE
  /\ closed = FALSE

\* It opens, is closed by the upstream, or goes down.
Progress ==
  /\ \/ up = "connecting" /\ up' = "open"
     \/ up = "open" /\ up' = "closing"
     \/ up \in {"open", "closing"} /\ up' = "terminated"
  /\ UNCHANGED <<hbTimer, fault, said, waiting, reported, closed>>

\* close() uses YY's timer and then reports whatever client.close complains of,
\* under rp_rw_mtx, which the report needs.
Close ==
  /\ fault = "none" /\ ~closed
  /\ closed' = TRUE
  /\ IF Platform = "YY" /\ ~hbTimer
     THEN fault' = "crash" /\ UNCHANGED <<up, reported>>
     ELSE IF up = "open"
     THEN up' = "closing" /\ UNCHANGED <<fault, reported>>
     ELSE fault' = "deadlock" /\ reported' = TRUE /\ UNCHANGED up
  /\ UNCHANGED <<hbTimer, said, waiting>>

Login ==
  /\ Platform = "YY" /\ up \in {"open", "closing"}
  /\ hbTimer' = TRUE
  /\ UNCHANGED <<up, fault, said, waiting, reported, closed>>

Publish ==
  /\ up \in {"open", "closing"}
  /\ said' = ~said
  /\ UNCHANGED <<up, hbTimer, fault, waiting, reported, closed>>

Report(t) ==
  /\ ~waiting[t]
  /\ said' = ~said
  /\ waiting' = [waiting EXCEPT ![t] = TRUE]
  /\ reported' = TRUE
  /\ UNCHANGED <<hbTimer, fault, closed>>

\* The report of the fail handler or the close handler.
FinalReport(t) ==
  /\ \/ up = "connecting"
     \/ up = "terminated" /\ (Platform = "YY" => hbTimer)
  /\ up' = "draining"
  /\ Report(t)

\* That of a send that fails, and of YY's timer and bad messages.
ExtraReport(t) ==
  /\ \/ up \in {"draining", "terminated"} /\ hbTimer
     \/ up = "open" /\ Platform = "YY"
     \/ up = "closing"
  /\ Report(t)
  /\ UNCHANGED up

\* YY cancels a timer that is null.
NullTimer ==
  /\ Platform = "YY" /\ ~hbTimer
  /\ \/ up = "terminated" /\ said' = ~said
     \/ up = "closing" /\ reported /\ UNCHANGED said
  /\ fault' = "crash"
  /\ UNCHANGED <<up, hbTimer, waiting, reported, closed>>

\* A session that reported while open closes its connection next.
OnPlatformClose(t) ==
  /\ fault = "none"
  /\ waiting[t]
  /\ waiting' = [waiting EXCEPT ![t] = FALSE]
  /\ up' = IF up = "open" THEN "closing" ELSE up
  /\ UNCHANGED <<hbTimer, fault, said, reported, closed>>

End ==
  /\ up = "draining"
  /\ \A t \in ClientThread : ~waiting[t]
  /\ up' = "ended"
  /\ UNCHANGED <<hbTimer, fault, said, waiting, reported, closed>>

Next ==
  /\ fault # "crash"
  /\ \/ Progress \/ Close \/ Login \/ Publish \/ NullTimer \/ End
     \/ \E t \in ClientThread : FinalReport(t) \/ ExtraReport(t) \/ OnPlatformClose(t)

Spec == Init /\ [][Next]_vars
=============================================================================
