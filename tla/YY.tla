-------------------------------- MODULE YY ---------------------------------
(***************************************************************************)
(* One YY session (src/platforms/YY/YY.cpp): the handlers of its websocket *)
(* connection, which run on the connection's strand, and the heartbeats,   *)
(* which run on any client thread.  Every request to log in starts a chain *)
(* of timers of its own, and m_hb_timer points to the one set last.        *)
(***************************************************************************)
EXTENDS Naturals, FiniteSets

CONSTANTS
  ClientThread, \* threads that run platform_io_service
  MaxLogins,    \* bound: requests to log in that the upstream sends
  None

ASSUME MaxLoginsAssumption == MaxLogins \in Nat
ASSUME NoneAssumption      == None \notin ClientThread \cup Nat

Timer == 0..MaxLogins
Resp  == {"bad", "login", "init", "chat", "other"}

VARIABLES
  conn, over, strand, \* the connection, see WsClient
  pc,       \* where each thread is
  resp,     \* what the message at hand asks for, "bad" when it is not JSON
  ec,       \* the error code of its handler is set
  then,     \* where its handler goes on after a report
  timer,    \* the timers: "free", "armed", "expired" or "aborted"
  hb,       \* m_hb_timer: a timer, or None
  handle,   \* start() has returned and m_hdl is assigned
  closing,  \* close(): "no", "timer" (client.close is still to do) or "done"
  unmapped, \* an on_platform_close of this session has returned
  fault,    \* "none", "deadlock" (rp_rw_mtx is held for ever) or "crash"
  said,     \* history: flips with every publish
  reported, \* history: the close callback was called
  logins    \* history: requests to log in

connection == <<conn, over, strand>>
message    == <<resp, ec, then>>
timers     == <<timer, hb>>
registry   == <<handle, closing, unmapped, fault>>
history    == <<said, reported, logins>>
vars       == <<connection, pc, message, timers, registry, history>>

INSTANCE WsClient

\* Where a message's handler can be, and a heartbeat's.
MessagePc == {"type", "json", "act", "arm", "cancel", "return"}
CallPc    == {"call", "callReturn"}

TypeOK ==
  /\ WsType
  /\ pc \in [ClientThread -> MessagePc \cup CallPc \cup {"idle", "shut", "beat"}]
  /\ \A t \in ClientThread : pc[t] \in (MessagePc \ {"arm"}) \cup {"callReturn"} => strand = t
  /\ resp \in Resp
  /\ ec \in BOOLEAN
  /\ then \in MessagePc
  /\ timer \in [Timer -> {"free", "armed", "expired", "aborted"}]
  /\ hb \in Timer \cup {None}
  /\ handle \in BOOLEAN
  /\ closing \in {"no", "timer", "done"}
  /\ unmapped \in BOOLEAN
  /\ fault \in {"none", "deadlock", "crash"}
  /\ said \in BOOLEAN
  /\ reported \in BOOLEAN
  /\ logins \in 0..MaxLogins

Init ==
  /\ WsInit
  /\ pc = [t \in ClientThread |-> "idle"]
  /\ resp = "other"
  /\ ec = FALSE
  /\ then = "return"
  /\ timer = [i \in Timer |-> "free"]
  /\ hb = None
  /\ handle = FALSE
  /\ closing = "no"
  /\ unmapped = FALSE
  /\ fault = "none"
  /\ said = FALSE
  /\ reported = FALSE
  /\ logins = 0

Goto(t, from, to) == pc[t] = from /\ pc' = [pc EXCEPT ![t] = to]

\* start() returns to login, which still holds rp_rw_mtx.
AssignHandle ==
  /\ ~handle
  /\ handle' = TRUE
  /\ UNCHANGED <<connection, pc, message, timers, closing, unmapped, fault, history>>

\* The library: the connection opens, is closed by the upstream, or goes down.
\* on_client_open does nothing.
Library ==
  /\ \/ Open /\ UNCHANGED strand
     \/ ReceiveClose
     \/ Terminate
  /\ UNCHANGED <<pc, message, timers, registry, history>>

-----------------------------------------------------------------------------
(* Reports.                                                                *)

\* publish the reason and call the close callback.
Report(t, from, to) ==
  /\ Goto(t, from, to)
  /\ said' = ~said
  /\ reported' = TRUE
  /\ UNCHANGED <<logins, registry>>

\* The callback waits for rp_rw_mtx, which close() is called under.
OnPlatformClose(t) ==
  /\ handle /\ closing # "timer" /\ fault = "none"
  /\ \/ Goto(t, "call", "shut")
     \/ Goto(t, "callReturn", "return")
  /\ unmapped' = TRUE
  /\ UNCHANGED <<connection, message, timers, handle, closing, fault, history>>

\* Faulty variant: an error is reported and the connection left alone.
Shut_Forgotten(t) ==
  /\ Goto(t, "shut", IF strand = t THEN then ELSE "idle")
  /\ UNCHANGED <<connection, message, timers, registry, history>>

\* client.close after a report.  A message's handler then goes on.
Shut(t) ==
  /\ Goto(t, "shut", IF strand = t THEN then ELSE "idle")
  /\ conn' = Closing
  /\ UNCHANGED <<over, strand, message, timers, registry, history>>

\* The handler returns to the strand, and what it knew is gone.
Return(t) ==
  /\ Goto(t, "return", "idle")
  /\ strand' = None
  /\ resp' = "other" /\ ec' = FALSE /\ then' = "return"
  /\ UNCHANGED <<conn, over, timers, registry, history>>

-----------------------------------------------------------------------------
(* Timers of the endpoint.                                                 *)

Pending == {i \in Timer : timer[i] # "free"}

Cancelled(i) == [timer EXCEPT ![i] = IF @ = "armed" THEN "aborted" ELSE @]

Expire(i) ==
  /\ timer[i] = "armed"
  /\ timer' = [timer EXCEPT ![i] = "expired"]
  /\ UNCHANGED <<connection, pc, message, hb, registry, history>>

\* Set another timer: m_hb_timer forgets the last one, which may be running.
SetTimer(t) ==
  /\ Goto(t, "arm", IF strand = t THEN "return" ELSE "idle")
  /\ LET i == CHOOSE j \in Timer \ (Pending \cup {hb}) : TRUE
     IN /\ timer' = [timer EXCEPT ![i] = "armed"]
        /\ hb' = i
  /\ UNCHANGED <<connection, message, registry, history>>

\* m_hb_timer is null until the first login.
CancelTimer(t) ==
  /\ Goto(t, "cancel", "return")
  /\ IF hb = None
     THEN fault' = "crash" /\ UNCHANGED timers
     ELSE timer' = Cancelled(hb) /\ UNCHANGED <<hb, fault>>
  /\ UNCHANGED <<connection, message, handle, closing, unmapped, history>>

\* handle_heartbeat, when the timer was cancelled and when it expired.
HeartbeatAborted(t, i) ==
  /\ timer[i] = "aborted"
  /\ timer' = [timer EXCEPT ![i] = "free"]
  /\ Report(t, "idle", "call")
  /\ UNCHANGED <<connection, message, hb>>

HeartbeatExpired(t, i) ==
  /\ timer[i] = "expired"
  /\ timer' = [timer EXCEPT ![i] = "free"]
  /\ Goto(t, "idle", "beat")
  /\ UNCHANGED <<connection, message, hb, registry, history>>

\* Faulty variant: the timer is set again whether or not the send failed.
SendHeartbeat_Always(t) ==
  /\ Goto(t, "beat", "arm")
  /\ UNCHANGED <<connection, message, timers, registry, history>>

\* A heartbeat is sent and the timer set again, unless the send fails.
SendHeartbeat(t) ==
  /\ \/ /\ CanSend /\ handle
        /\ Goto(t, "beat", "arm")
        /\ UNCHANGED <<registry, history>>
     \/ /\ ~CanSend \/ ~handle
        /\ Report(t, "beat", "call")
  /\ UNCHANGED <<connection, message, timers>>

-----------------------------------------------------------------------------
(* Messages.                                                               *)

\* A message that is not text is reported, and handled like any other.
OnClientMessage(t) ==
  /\ Deliverable
  /\ strand' = t
  /\ \E text \in BOOLEAN : Goto(t, "idle", IF text THEN "json" ELSE "type")
  /\ \E r \in Resp :
       /\ resp' = r
       /\ IF r = "login"
          THEN logins < MaxLogins /\ logins' = logins + 1
          ELSE UNCHANGED logins
  /\ UNCHANGED <<conn, over, ec, then, timers, registry, said, reported>>

\* An error: report it, close the connection and go on.
MessageError(t, from, to) ==
  /\ Report(t, from, "call")
  /\ then' = to
  /\ ec' = TRUE
  /\ UNCHANGED <<connection, resp, timers>>

NotText(t) == MessageError(t, "type", "json")

ParseJson(t) ==
  \/ resp = "bad" /\ MessageError(t, "json", "return")
  \/ /\ resp # "bad"
     /\ Goto(t, "json", "act")
     /\ UNCHANGED <<connection, message, timers, registry, history>>

\* Faulty variant: the answer to init sets the timer, too.
Answer_Arms(t) ==
  \/ /\ CanSend /\ ~ec
     /\ resp \in {"login", "init"}
     /\ Goto(t, "act", "arm")
     /\ UNCHANGED <<connection, message, timers, registry, history>>
  \/ /\ ~CanSend \/ ec
     /\ \/ resp = "login" /\ MessageError(t, "act", "arm")
        \/ resp = "init" /\ MessageError(t, "act", "cancel")

\* A login is answered and the timer set, even when the answer could not be
\* sent, which it cannot when the handler's error code was set before.  When
\* init cannot be answered the timer is cancelled.
Answer(t) ==
  \/ /\ CanSend /\ ~ec
     /\ \/ resp = "login" /\ Goto(t, "act", "arm")
        \/ resp = "init" /\ Goto(t, "act", "return")
     /\ UNCHANGED <<connection, message, timers, registry, history>>
  \/ /\ ~CanSend \/ ec
     /\ \/ resp = "login" /\ MessageError(t, "act", "arm")
        \/ resp = "init" /\ MessageError(t, "act", "cancel")

\* A chat message is published unless its XML is not as expected.
Chat(t) ==
  /\ Goto(t, "act", "return")
  /\ \/ resp = "chat" /\ said' = ~said
     \/ resp \in {"chat", "other"} /\ UNCHANGED said
  /\ UNCHANGED <<connection, message, timers, registry, reported, logins>>

-----------------------------------------------------------------------------
(* The end of the connection, and close().                                 *)

\* Faulty variant: the fail handler does not run on the strand.
OnClientFail_NoStrand(t) ==
  /\ strand = None /\ over = "failed"
  /\ over' = "told"
  /\ Report(t, "idle", "callReturn")
  /\ UNCHANGED <<conn, strand, message, timers>>

OnClientFail(t) ==
  /\ strand = None /\ over = "failed"
  /\ over' = "told" /\ strand' = t
  /\ Report(t, "idle", "callReturn")
  /\ UNCHANGED <<conn, message, timers>>

\* Publish the end, cancel the timer and call the close callback.
OnClientClose(t) ==
  /\ strand = None /\ over = "closed"
  /\ strand' = t
  /\ IF hb = None
     THEN /\ Goto(t, "idle", "return")
          /\ fault' = "crash"
          /\ said' = ~said
          /\ UNCHANGED <<over, timer, handle, closing, unmapped, reported, logins>>
     ELSE /\ over' = "told"
          /\ timer' = Cancelled(hb)
          /\ Report(t, "idle", "callReturn")
  /\ UNCHANGED <<conn, message, hb>>

\* close(), called under rp_rw_mtx while the session is registered, cancels the
\* timer and closes the connection.  It reports an error of client.close, and
\* never comes back from the report.
CloseTimer ==
  /\ handle /\ closing = "no" /\ ~unmapped
  /\ IF hb = None
     THEN /\ fault' = "crash"
          /\ closing' = "done"
          /\ UNCHANGED timers
     ELSE /\ timer' = Cancelled(hb)
          /\ closing' = "timer"
          /\ UNCHANGED <<hb, fault>>
  /\ UNCHANGED <<connection, handle, pc, message, unmapped, history>>

CloseConnection ==
  /\ closing = "timer"
  /\ closing' = "done"
  /\ conn' = Closing
  /\ IF conn = "open"
     THEN UNCHANGED <<fault, reported>>
     ELSE fault' = "deadlock" /\ reported' = TRUE
  /\ UNCHANGED <<over, strand, handle, unmapped, pc, message, timers, said, logins>>

-----------------------------------------------------------------------------
\* A thread goes on in the handler it runs.
Go(t) ==
  \/ OnPlatformClose(t) \/ Shut(t) \/ Return(t) \/ SetTimer(t) \/ CancelTimer(t)
  \/ SendHeartbeat(t) \/ NotText(t) \/ ParseJson(t) \/ Answer(t) \/ Chat(t)

\* A thread takes the handler of the connection's end or of a timer.
Begin(t) ==
  \/ OnClientFail(t) \/ OnClientClose(t)
  \/ \E i \in Timer : HeartbeatAborted(t, i) \/ HeartbeatExpired(t, i)

Next ==
  /\ fault # "crash"
  /\ \/ \E t \in ClientThread : Go(t) \/ Begin(t) \/ OnClientMessage(t)
     \/ \E i \in Timer : Expire(i)
     \/ Library \/ AssignHandle
     \/ CloseTimer \/ CloseConnection

Spec == Init /\ [][Next]_vars

\* Handlers go on and return, a free thread takes a handler that is due, timers
\* expire and close() is not left half way.  A closing connection goes down:
\* the library sets a timer for its closing handshake.
Running(A) == fault # "crash" /\ A

Fairness ==
  /\ \A t \in ClientThread : WF_vars(Running(Go(t))) /\ WF_vars(Running(Begin(t)))
  /\ \A i \in Timer : WF_vars(Running(Expire(i)))
  /\ WF_vars(Running(AssignHandle)) /\ WF_vars(Running(CloseConnection))
  /\ WF_vars(Running(conn = "closing" /\ Library))

FairSpec == Spec /\ Fairness

-----------------------------------------------------------------------------
(* Properties.                                                             *)

Idle  == \A t \in ClientThread : pc[t] = "idle"
Quiet == over = "told" /\ Idle /\ Pending = {}

\* The stage of the session as the registry sees it: after a report the
\* connection is as good as closed, and it has ended for the registry when the
\* handler of its end has been called.
Stage ==
  CASE conn = "open" ->
         IF \E t \in ClientThread : pc[t] = "shut" THEN "closing" ELSE "open"
    [] conn = "closed" /\ over = "failed" -> "connecting"
    [] conn = "closed" /\ over = "closed" -> "terminated"
    [] conn = "closed" /\ over = "told"   -> IF Quiet THEN "ended" ELSE "draining"
    [] OTHER -> conn

\* The threads whose report waits for rp_rw_mtx.
Waiting == [t \in ClientThread |-> pc[t] \in CallPc]

Session == INSTANCE WsSession WITH
  Platform <- "YY",
  up <- Stage,
  hbTimer <- hb # None,
  waiting <- Waiting,
  closed <- closing = "done"

\* YY.cpp as a whole makes the publishes and reports that the registry's model
\* (module Proxy) relies on, in the stages it relies on, and hangs or crashes
\* only where the registry's model says it can.
ImplementsSession == Session!Spec

\* YY.cpp:80-82, 119-132: every login starts one chain of heartbeats, and until
\* something is reported or closed none of them ends, forks or is forgotten,
\* although m_hb_timer points to the timer of one of them only.
Beating == {t \in ClientThread :
              pc[t] \in {"beat", "arm"} \/ (strand = t /\ resp = "login"
                                            /\ pc[t] \in {"type", "json", "act"})}
OneChainPerLogin ==
  ~reported /\ closing = "no" =>
    Cardinality(Pending) + Cardinality(Beating) = logins

\* What dmp_cs.hpp:38-39 says of a report, "connection closed": when the
\* handlers that reported have returned, the connection is not open.
ReportMeansClosed == reported /\ Idle => conn # "open"

\* close() of a connected session (YY.cpp:40-46) ends it, although it cancels
\* the timer of one chain only and heartbeats overlap it.
CloseEnds == closing = "done" ~> Stage = "ended" \/ fault # "none"
=============================================================================
