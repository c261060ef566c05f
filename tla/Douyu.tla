------------------------------- MODULE Douyu -------------------------------
(***************************************************************************)
(* One douyu session (src/platforms/douyu/douyu.cpp): its asynchronous     *)
(* operations, and their handlers on the client threads, with close()      *)
(* called by a server thread in between.  A frame has at least one byte of *)
(* data.                                                                   *)
(***************************************************************************)
EXTENDS Naturals, Sequences

CONSTANTS
  ClientThread, \* threads that run platform_io_service
  MaxMsg,       \* bound: messages the upstream sends
  MaxWrites,    \* bound: outstanding writes with which the timer still expires
  Punctual      \* whether 45 seconds are enough to run the handlers that are due

ASSUME MaxMsgAssumption    == MaxMsg \in Nat
ASSUME MaxWritesAssumption == MaxWrites \in Nat
ASSUME PunctualAssumption  == Punctual \in BOOLEAN

Op       == {"resolve", "connect", "header", "data", "write", "wait"}
SocketOp == {"connect", "header", "data", "write"}
Kind     == {"loginres", "chatmsg", "unterminated", "other"}

VARIABLES
  ops,      \* how many operations of each kind are started, done and failed
  socket,   \* m_socket: "new", "open" or "closed"
  pc,       \* where each thread is
  msg,      \* the message it handles: its kind, or "error"
  num,      \* and its number
  closing,  \* close(): "no", "socket" (the timer is still to do) or "done"
  unmapped, \* an on_platform_close of this session has returned
  received, \* messages received
  chats,    \* history: numbers of the chat messages received
  out,      \* history: numbers of the chat messages published
  said,     \* history: flips with every publish
  reported, \* history: the close callback was called
  final,    \* history: a report was made because an operation failed
  login     \* history: the upstream accepted the login

locals   == <<msg, num>>
registry == <<closing, unmapped>>
upstream == <<received, chats>>
reports  == <<said, reported, final>>
vars     == <<ops, socket, pc, locals, registry, upstream, out, reports, login>>

INSTANCE AsyncOps

CallPc == {"callReturn", "callShut", "callClose"}

TypeOK ==
  /\ OpsType
  /\ pc \in [ClientThread -> CallPc \cup
               {"idle", "dispatch", "arm", "return", "shut", "close", "cancel"}]
  /\ msg \in [ClientThread -> Kind \cup {"error"}]
  /\ num \in [ClientThread -> 0..MaxMsg]
  /\ closing \in {"no", "socket", "done"}
  /\ unmapped \in BOOLEAN
  /\ received \in 0..MaxMsg
  /\ chats \in SUBSET (1..MaxMsg)
  /\ out \in Seq(1..MaxMsg)
  /\ said \in BOOLEAN
  /\ reported \in BOOLEAN
  /\ final \in BOOLEAN
  /\ login \in BOOLEAN

Init ==
  /\ OpsInit
  /\ pc = [t \in ClientThread |-> "idle"]
  /\ msg = [t \in ClientThread |-> "other"]
  /\ num = [t \in ClientThread |-> 0]
  /\ closing = "no"
  /\ unmapped = FALSE
  /\ received = 0
  /\ chats = {}
  /\ out = <<>>
  /\ said = FALSE
  /\ reported = FALSE
  /\ final = FALSE
  /\ login = FALSE

-----------------------------------------------------------------------------
\* No handler is running or due.
Calm == /\ \A t \in ClientThread : pc[t] = "idle"
        /\ \A o \in Op : Due(o) = 0

\* An operation completes.  A read of data ends with a message, of which there
\* are MaxMsg; a wait only fails when it is cancelled.
Complete(o) ==
  /\ \/ /\ o = "data" => received < MaxMsg
        /\ o = "wait" => Outstanding("write") < MaxWrites /\ (Punctual => Calm)
        /\ Finish(o, "done")
     \/ o # "wait" /\ Finish(o, "failed")
  /\ UNCHANGED <<socket, pc, locals, registry, upstream, out, reports, login>>

-----------------------------------------------------------------------------
(* Reports.                                                                *)

Goto(t, from, to) == pc[t] = from /\ pc' = [pc EXCEPT ![t] = to]

\* publish the reason, then call the close callback.
Report(t, from, to, failure) ==
  /\ Goto(t, from, to)
  /\ said' = ~said
  /\ reported' = TRUE
  /\ final' = (final \/ failure \/ socket = "closed")
  /\ UNCHANGED <<socket, locals, registry, upstream, out, login>>

\* The callback waits for rp_rw_mtx, which close() is called under.
OnPlatformClose(t) ==
  /\ closing # "socket"
  /\ \/ Goto(t, "callReturn", "return")
     \/ Goto(t, "callShut", "shut")
     \/ Goto(t, "callClose", "close")
  /\ unmapped' = TRUE
  /\ UNCHANGED <<ops, socket, locals, closing, upstream, out, reports, login>>

Return(t) ==
  /\ Goto(t, "return", "idle")
  /\ UNCHANGED <<ops, socket, locals, registry, upstream, out, reports, login>>

ShutSocket(t) ==
  /\ Goto(t, "shut", "idle") \/ Goto(t, "close", "cancel")
  /\ Shut
  /\ UNCHANGED <<locals, registry, upstream, out, reports, login>>

\* Faulty variant: a failing handler leaves the timer alone.
CancelTimer_Forgotten(t) ==
  /\ Goto(t, "cancel", "idle")
  /\ UNCHANGED <<ops, socket, locals, registry, upstream, out, reports, login>>

CancelTimer(t) ==
  /\ Goto(t, "cancel", "idle")
  /\ ops' = Abort(ops, {"wait"})
  /\ UNCHANGED <<socket, locals, registry, upstream, out, reports, login>>

\* close(), called under rp_rw_mtx while the session is registered.
CloseSocket ==
  /\ closing = "no" /\ ~unmapped
  /\ closing' = "socket"
  /\ Shut
  /\ UNCHANGED <<pc, locals, unmapped, upstream, out, reports, login>>

CloseTimer ==
  /\ closing = "socket"
  /\ closing' = "done"
  /\ ops' = Abort(ops, {"wait"})
  /\ UNCHANGED <<socket, pc, locals, unmapped, upstream, out, reports, login>>

-----------------------------------------------------------------------------
(* Handlers.                                                               *)

\* Faulty variant: an operation aborted by close() is not reported.
OnError_Quiet(t, o) ==
  /\ ops[o].failed > 0 /\ pc[t] = "idle"
  /\ o # "data"
  /\ ops' = Consumed(o, "failed")
  /\ IF socket = "closed"
     THEN UNCHANGED <<socket, pc, locals, registry, upstream, out, reports, login>>
     ELSE Report(t, "idle", "callClose", TRUE)

\* The handler of a failed operation other than a read of data: after the
\* report a resolve or a connect is left at that, a wait closes the socket and
\* the rest cancel the timer, too.
OnError(t, o) ==
  /\ ops[o].failed > 0
  /\ o # "data"
  /\ ops' = Consumed(o, "failed")
  /\ Report(t, "idle", IF o \in {"resolve", "connect"} THEN "callReturn"
                       ELSE IF o = "wait" THEN "callShut" ELSE "callClose", TRUE)

on(t, o) == pc[t] = "idle" /\ ops[o].done > 0

\* async_connect opens the socket.
OnResolve(t) ==
  /\ on(t, "resolve")
  /\ socket' = "open"
  /\ ops' = Start(Consumed("resolve", "done"), "connect")
  /\ UNCHANGED <<pc, locals, registry, upstream, out, reports, login>>

OnConnect(t) ==
  /\ on(t, "connect")
  /\ ops' = Start(Start(Consumed("connect", "done"), "write"), "header")
  /\ UNCHANGED <<socket, pc, locals, registry, upstream, out, reports, login>>

OnWritten(t) ==
  /\ on(t, "write")
  /\ ops' = Consumed("write", "done")
  /\ UNCHANGED <<socket, pc, locals, registry, upstream, out, reports, login>>

HandleHeader(t) ==
  /\ on(t, "header")
  /\ ops' = Start(Consumed("header", "done"), "data")
  /\ UNCHANGED <<socket, pc, locals, registry, upstream, out, reports, login>>

\* The next read is started before the data are looked at.
HandleData(t) ==
  /\ Goto(t, "idle", "dispatch")
  /\ \/ /\ ops["data"].failed > 0
        /\ ops' = Start(Consumed("data", "failed"), "header")
        /\ msg' = [msg EXCEPT ![t] = "error"]
        /\ UNCHANGED <<num, upstream>>
     \/ /\ ops["data"].done > 0
        /\ ops' = Start(Consumed("data", "done"), "header")
        /\ received' = received + 1
        /\ num' = [num EXCEPT ![t] = received']
        /\ \E k \in Kind :
             /\ msg' = [msg EXCEPT ![t] = k]
             /\ chats' = IF k = "chatmsg" THEN chats \cup {received'} ELSE chats
  /\ UNCHANGED <<socket, registry, out, reports, login>>

\* A message without its end is reported, but the socket stays as it is.
DispatchError(t) ==
  /\ \/ msg[t] = "error" /\ Report(t, "dispatch", "callClose", TRUE)
     \/ msg[t] = "unterminated" /\ Report(t, "dispatch", "callReturn", FALSE)
  /\ UNCHANGED ops

\* Faulty variant: a message without a handler starts one more read.
DispatchOther_Read(t) ==
  /\ msg[t] = "other"
  /\ Goto(t, "dispatch", "idle")
  /\ ops' = Start(ops, "header")
  /\ UNCHANGED <<socket, locals, registry, upstream, out, reports, login>>

DispatchOther(t) ==
  /\ msg[t] = "other"
  /\ Goto(t, "dispatch", "idle")
  /\ UNCHANGED <<ops, socket, locals, registry, upstream, out, reports, login>>

\* Faulty variant: a message that was published is looked at again.
HandleChatmsg_Again(t) ==
  /\ msg[t] = "chatmsg"
  /\ Goto(t, "dispatch", "dispatch")
  /\ out' = Append(out, num[t])
  /\ said' = ~said
  /\ UNCHANGED <<ops, socket, locals, registry, upstream, reported, final, login>>

\* Faulty variant: no return after the report of a failed read, so that a message
\* that was never received is published.
HandleChatmsg_NoReturn(t) ==
  /\ msg[t] \in {"chatmsg", "error"}
  /\ Goto(t, "dispatch", "return")
  /\ out' = Append(out, num[t])
  /\ said' = ~said
  /\ UNCHANGED <<ops, socket, locals, registry, upstream, reported, final, login>>

HandleChatmsg(t) ==
  /\ msg[t] = "chatmsg"
  /\ Goto(t, "dispatch", "return")
  /\ out' = Append(out, num[t])
  /\ said' = ~said
  /\ UNCHANGED <<ops, socket, locals, registry, upstream, reported, final, login>>

\* The heartbeat timer is set and the room joined.
HandleLoginres(t) ==
  /\ msg[t] = "loginres"
  /\ Goto(t, "dispatch", "idle")
  /\ ops' = Start(Arm(ops), "write")
  /\ login' = TRUE
  /\ UNCHANGED <<socket, locals, registry, upstream, out, reports>>

\* A heartbeat is written, and then the timer is set again.
HandleHeartbeatTimer(t) ==
  /\ on(t, "wait")
  /\ Goto(t, "idle", "arm")
  /\ ops' = Start(Consumed("wait", "done"), "write")
  /\ UNCHANGED <<socket, locals, registry, upstream, out, reports, login>>

\* Faulty variant: the timer is given a new time but not waited for.
ArmTimer_NoWait(t) ==
  /\ Goto(t, "arm", "idle")
  /\ ops' = Abort(ops, {"wait"})
  /\ UNCHANGED <<socket, locals, registry, upstream, out, reports, login>>

ArmTimer(t) ==
  /\ Goto(t, "arm", "idle")
  /\ ops' = Arm(ops)
  /\ UNCHANGED <<socket, locals, registry, upstream, out, reports, login>>

-----------------------------------------------------------------------------
\* A thread goes on in the handler it runs.
Go(t) ==
  \/ OnPlatformClose(t) \/ Return(t) \/ ShutSocket(t) \/ CancelTimer(t)
  \/ DispatchError(t) \/ DispatchOther(t) \/ HandleChatmsg(t)
  \/ HandleLoginres(t) \/ ArmTimer(t)

\* A thread takes the handler of a completed operation.
Begin(t) ==
  \/ \E o \in Op : OnError(t, o)
  \/ OnResolve(t) \/ OnConnect(t) \/ OnWritten(t) \/ HandleHeader(t)
  \/ HandleData(t) \/ HandleHeartbeatTimer(t)

Next ==
  \/ \E t \in ClientThread : Go(t) \/ Begin(t)
  \/ \E o \in Op : Complete(o)
  \/ CloseSocket \/ CloseTimer

Spec == Init /\ [][Next]_vars

\* Handlers go on and return, a free thread takes a handler that is due,
\* close() is not left half way and the timer expires.  The network need not
\* complete anything.
Fairness ==
  /\ \A t \in ClientThread : WF_vars(Go(t)) /\ WF_vars(Begin(t))
  /\ WF_vars(CloseTimer)
  /\ WF_vars(Complete("wait"))

FairSpec == Spec /\ Fairness

-----------------------------------------------------------------------------
(* Properties.                                                             *)

Busy(t)   == pc[t] # "idle"
Quiet     == /\ \A t \in ClientThread : ~Busy(t)
             /\ \A o \in Op : Outstanding(o) = 0
Resolving == Outstanding("resolve") > 0

\* The stage of the session as the registry sees it.
Stage ==
  IF Quiet THEN "ended"
  ELSE IF final THEN "draining"
  ELSE IF Resolving THEN "resolving"
  ELSE IF socket = "closed" THEN "aborting"
  ELSE "socket"

\* The threads whose report waits for rp_rw_mtx.
Waiting == [t \in ClientThread |-> pc[t] \in CallPc]

Session == INSTANCE TcpSession WITH
  Platform <- "douyu",
  up <- Stage,
  waiting <- Waiting,
  closed <- closing # "no"

\* douyu.cpp as a whole makes the publishes and reports that the registry's
\* model (module Proxy) relies on, in the stages it relies on, and is over only
\* after a failure has been reported.
ImplementsSession == Session!Spec

\* douyu.cpp:71-136: however handlers overlap, exactly one read of the socket
\* is outstanding from the connect on, so that the stream is never read by two
\* operations at once and no running session goes deaf.
Reads == Outstanding("header") + Outstanding("data")
OneRead ==
  /\ Reads <= 1
  /\ socket = "open" /\ ~Resolving /\ Outstanding("connect") = 0 /\ ~final
       => Reads = 1

\* douyu.cpp:138-169: a session that is logged in, not failing and not being
\* closed always has a heartbeat to come, although a second loginres cancels
\* the wait it finds and may do so while the heartbeat's handler is half way.
HeartbeatGoesOn ==
  login /\ socket = "open" /\ ~final /\ closing = "no" =>
    \/ ops["wait"].started + ops["wait"].done > 0
    \/ \E t \in ClientThread : pc[t] = "arm"

\* douyu.cpp:110-187: every chat message received is published exactly once, or
\* some thread still has it, whatever other handlers, close() and failing
\* operations do meanwhile; nothing else is published.
Held(n) == \E t \in ClientThread :
             pc[t] = "dispatch" /\ msg[t] = "chatmsg" /\ num[t] = n
PublishedOnce ==
  /\ \A i, j \in 1..Len(out) : out[i] = out[j] => i = j
  /\ \A n \in 1..MaxMsg :
       IF n \in chats THEN Held(n) # (\E i \in 1..Len(out) : out[i] = n)
       ELSE \A i \in 1..Len(out) : out[i] # n

\* With one client thread the order of publication is the order of arrival.
\* handle_data starts the next read before it publishes (douyu.cpp:112), so
\* with two threads it is not.
InOrder == \A i, j \in 1..Len(out) : i < j => out[i] < out[j]

\* close() of a session whose socket is open (douyu.cpp:21-32) ends it, whatever
\* handlers are under way, when there is one client thread.  With two, a
\* heartbeat's handler can set the timer after another handler has cancelled
\* it, again and again.
CloseEnds == closing # "no" /\ socket = "closed" ~> Stage = "ended"

\* What dmp_cs.hpp:38-39 says of a report, "connection closed": once it has been
\* made and its handler has returned, the session reads no further messages.
ReportMeansClosed ==
  reported /\ (\A t \in ClientThread : ~Busy(t)) =>
    ops["header"].started + ops["data"].started = 0
=============================================================================
