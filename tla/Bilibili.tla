----------------------------- MODULE Bilibili ------------------------------
(***************************************************************************)
(* One bilibili session (src/platforms/bilibili/bilibili.cpp): an HTTP     *)
(* request that yields the host of the chat server, and then that server's *)
(* frames.  Handlers run on the client threads, and close() is called by a *)
(* server thread in between.                                               *)
(***************************************************************************)
EXTENDS Naturals, SequencesExt

CONSTANTS
  ClientThread, \* threads that run platform_io_service
  Body,         \* chunks in which the body of the HTTP response arrives
  MaxMsg,       \* bound: messages the upstream sends
  MaxWrites     \* bound: outstanding writes with which the timer still expires

ASSUME BodyAssumption      == Body \in Nat
ASSUME MaxMsgAssumption    == MaxMsg \in Nat
ASSUME MaxWritesAssumption == MaxWrites \in Nat

Connecting == {"resolve", "connect", "resolve2", "connect2"}
Http       == {"request", "status", "head", "content"}
Frame      == {"header", "data", "skip"}
StepOp     == Connecting \cup Http \cup Frame
Op         == StepOp \cup {"write", "wait"}
SocketOp   == Op \ {"resolve", "resolve2", "wait"}
Kind       == {"danmu", "bad", "other"}

VARIABLES
  ops,      \* how many operations of each kind are started, done and failed
  socket,   \* m_socket: "new", "open" or "closed"
  pc,       \* where each thread is
  msg,      \* the message it handles: its kind, or "error"
  num,      \* and its number
  closing,  \* close(): "no", "socket" (the timer is still to do) or "done"
  unmapped, \* an on_platform_close of this session has returned
  got,      \* chunks of the body read from the socket
  lost,     \* chunks thrown away with the header of the response
  eof,      \* the upstream has ended its response
  live,     \* m_live_msg, a sequence of chunks
  received, \* messages received
  chats,    \* history: numbers of the chat messages received
  out,      \* history: numbers of the chat messages published
  said,     \* history: flips with every publish
  reported  \* history: the close callback was called

locals   == <<msg, num>>
registry == <<closing, unmapped>>
response == <<got, lost, eof, live>>
upstream == <<received, chats>>
reports  == <<said, reported>>
vars     == <<ops, socket, pc, locals, registry, response, upstream, out, reports>>

INSTANCE AsyncOps

CallPc == {"callReturn", "callShut", "callClose"}

TypeOK ==
  /\ OpsType
  /\ pc \in [ClientThread -> CallPc \cup
               {"idle", "dispatch", "arm", "return", "shut", "close", "cancel"}]
  /\ msg \in [ClientThread -> Kind \cup {"error"}]
  /\ num \in [ClientThread -> 0..MaxMsg]
  /\ closing \in {"no", "socket", "done"}
  /\ unmapped \in BOOLEAN
  /\ got \in 0..Body
  /\ lost \in 0..got
  /\ eof \in BOOLEAN
  /\ live \in Seq(1..got)
  /\ received \in 0..MaxMsg
  /\ chats \in SUBSET (1..MaxMsg)
  /\ out \in Seq(1..MaxMsg)
  /\ said \in BOOLEAN
  /\ reported \in BOOLEAN

Init ==
  /\ OpsInit
  /\ pc = [t \in ClientThread |-> "idle"]
  /\ msg = [t \in ClientThread |-> "other"]
  /\ num = [t \in ClientThread |-> 0]
  /\ closing = "no"
  /\ unmapped = FALSE
  /\ got = 0
  /\ lost = 0
  /\ eof = FALSE
  /\ live = <<>>
  /\ received = 0
  /\ chats = {}
  /\ out = <<>>
  /\ said = FALSE
  /\ reported = FALSE

\* The header is read up to its end or beyond, the content one or more chunks
\* at a time, until the upstream closes the connection after the last one.
Arrive(o) ==
  CASE o = "head"    -> got' \in got..Body /\ UNCHANGED eof
    [] o = "content" -> \/ got' \in (got + 1)..Body /\ UNCHANGED eof
                        \/ got = Body /\ eof' = TRUE /\ UNCHANGED got
    [] OTHER         -> UNCHANGED <<got, eof>>

Complete(o) ==
  /\ \/ /\ Finish(o, "done")
        /\ o = "data" => received < MaxMsg
        /\ o = "wait" => Outstanding("write") < MaxWrites
        /\ Arrive(o)
     \/ /\ o # "wait"
        /\ Finish(o, "failed")
        /\ UNCHANGED <<got, eof>>
  /\ UNCHANGED <<socket, pc, locals, registry, lost, live, upstream, out, reports>>

-----------------------------------------------------------------------------
(* Reports.                                                                *)

Goto(t, from, to) == pc[t] = from /\ pc' = [pc EXCEPT ![t] = to]

\* publish the reason, then call the close callback.
Report(t, from, to) ==
  /\ Goto(t, from, to)
  /\ said' = ~said
  /\ reported' = TRUE
  /\ UNCHANGED <<registry, response, upstream, out>>

\* The callback waits for rp_rw_mtx, which close() is called under.
OnPlatformClose(t) ==
  /\ closing # "socket"
  /\ \/ Goto(t, "callReturn", "return")
     \/ Goto(t, "callShut", "shut")
     \/ Goto(t, "callClose", "close")
  /\ unmapped' = TRUE
  /\ UNCHANGED <<ops, socket, locals, closing, response, upstream, out, reports>>

Return(t) ==
  /\ Goto(t, "return", "idle")
  /\ UNCHANGED <<ops, socket, locals, registry, response, upstream, out, reports>>

ShutSocket(t) ==
  /\ Goto(t, "shut", "idle") \/ Goto(t, "close", "cancel")
  /\ Shut
  /\ UNCHANGED <<locals, registry, response, upstream, out, reports>>

CancelTimer(t) ==
  /\ Goto(t, "cancel", "idle")
  /\ ops' = Abort(ops, {"wait"})
  /\ UNCHANGED <<socket, locals, registry, response, upstream, out, reports>>

\* close(), called under rp_rw_mtx while the session is registered.
CloseSocket ==
  /\ closing = "no" /\ ~unmapped
  /\ closing' = "socket"
  /\ Shut
  /\ UNCHANGED <<pc, locals, unmapped, response, upstream, out, reports>>

CloseTimer ==
  /\ closing = "socket"
  /\ closing' = "done"
  /\ ops' = Abort(ops, {"wait"})
  /\ UNCHANGED <<socket, pc, locals, unmapped, response, upstream, out, reports>>

\* After the report of a failure, one of connecting is left at that, one of HTTP
\* and a wait close the socket and the rest cancel the timer, too.
AfterError(o) ==
  CASE o \in Connecting         -> "callReturn"
    [] o \in Http \cup {"wait"} -> "callShut"
    [] OTHER                    -> "callClose"

\* Faulty variant: an operation aborted by close() is not reported.
OnError_Quiet(t, o) ==
  /\ pc[t] = "idle" /\ ops[o].failed > 0
  /\ o # "data"
  /\ ops' = Consumed(o, "failed")
  /\ IF socket = "closed"
     THEN UNCHANGED <<socket, pc, locals, registry, response, upstream, out, reports>>
     ELSE Report(t, "idle", AfterError(o)) /\ UNCHANGED <<socket, locals>>

\* Faulty variant: a read of the response that fails is tried again.
OnError_Retry(t, o) ==
  /\ pc[t] = "idle" /\ ops[o].failed > 0
  /\ o # "data"
  /\ IF o = "content"
     THEN /\ ops' = Start(Consumed(o, "failed"), o)
          /\ UNCHANGED <<socket, pc, locals, registry, response, upstream, out, reports>>
     ELSE /\ ops' = Consumed(o, "failed")
          /\ Report(t, "idle", AfterError(o))
          /\ UNCHANGED <<socket, locals>>

\* The handler of a failed operation other than a read of data.
OnError(t, o) ==
  /\ ops[o].failed > 0
  /\ o # "data"
  /\ ops' = Consumed(o, "failed")
  /\ Report(t, "idle", AfterError(o))
  /\ UNCHANGED <<socket, locals>>

-----------------------------------------------------------------------------
(* The HTTP request.                                                       *)

on(t, o) == pc[t] = "idle" /\ ops[o].done > 0

\* async_connect opens the socket, and opens it again when it was closed.
Connect(t, resolve, connect) ==
  /\ on(t, resolve)
  /\ socket' = "open"
  /\ ops' = [Consumed(resolve, "done") EXCEPT ![connect].started = @ + 1]
  /\ UNCHANGED <<pc, locals, registry, upstream, out, reports>>

OnHttpResolve(t) == Connect(t, "resolve", "connect") /\ UNCHANGED response

\* One operation leads to the next.
Continue(t, o, next) ==
  /\ on(t, o)
  /\ ops' = Start(Consumed(o, "done"), next)
  /\ UNCHANGED <<socket, pc, locals, registry, upstream, out, reports>>

OnHttpConnect(t) == Continue(t, "connect", "request") /\ UNCHANGED response
OnRequest(t)     == Continue(t, "request", "status") /\ UNCHANGED response

\* A bad status line or a status other than 200 leaves the socket open.
HandleStatus(t) ==
  \/ Continue(t, "status", "head") /\ UNCHANGED response
  \/ /\ on(t, "status")
     /\ ops' = Consumed("status", "done")
     /\ Report(t, "idle", "callReturn")
     /\ UNCHANGED <<socket, locals>>

\* The buffer is emptied, whatever it holds.
HandleHead(t) ==
  /\ Continue(t, "head", "content")
  /\ lost' = got
  /\ UNCHANGED <<got, eof, live>>

Buffer == SubSeq([k \in 1..Body |-> k], lost + 1, got)

\* Faulty variant: what was appended last time is overwritten.
HandleContent_Assign(t) ==
  /\ ~eof
  /\ Continue(t, "content", "content")
  /\ live' = SubSeq(Buffer, Len(Buffer), Len(Buffer))
  /\ UNCHANGED <<got, lost, eof>>

\* The buffer is appended, and not emptied.
HandleContent(t) ==
  /\ ~eof
  /\ Continue(t, "content", "content")
  /\ live' = live \o Buffer
  /\ UNCHANGED <<got, lost, eof>>

\* The socket is closed, nothing else being outstanding.  The message is not
\* empty, it parses, the room is live and its chat server is looked up; or a
\* report ends the session.
HandleEof(t) ==
  /\ eof /\ on(t, "content")
  /\ socket' = "closed"
  /\ \/ /\ live # <<>>
        /\ ops' = Start(Consumed("content", "done"), "resolve2")
        /\ UNCHANGED <<pc, locals, registry, response, upstream, out, reports>>
     \/ /\ ops' = Consumed("content", "done")
        /\ Report(t, "idle", "callShut")
        /\ UNCHANGED locals

-----------------------------------------------------------------------------
(* The chat server.                                                        *)

\* What was read for the request is not looked at again, and forgotten here.
OnTcpResolve(t) ==
  /\ Connect(t, "resolve2", "connect2")
  /\ got' = 0 /\ lost' = 0 /\ eof' = FALSE /\ live' = <<>>

\* The request is written, the first header read and then the timer set.
OnTcpConnect(t) ==
  /\ on(t, "connect2")
  /\ Goto(t, "idle", "arm")
  /\ ops' = Start(Start(Consumed("connect2", "done"), "write"), "header")
  /\ UNCHANGED <<socket, locals, registry, response, upstream, out, reports>>

OnWritten(t) ==
  /\ on(t, "write")
  /\ ops' = Consumed("write", "done")
  /\ UNCHANGED <<socket, pc, locals, registry, response, upstream, out, reports>>

\* Faulty variant: after a frame without data nothing is read.
HandleHeader_Stop(t) ==
  /\ \/ Continue(t, "header", "data")
     \/ Continue(t, "header", "skip")
     \/ /\ on(t, "header")
        /\ ops' = Consumed("header", "done")
        /\ UNCHANGED <<socket, pc, locals, registry, upstream, out, reports>>
  /\ UNCHANGED response

\* A frame without data, a message or a frame of another type.
HandleHeader(t) ==
  /\ \E next \in Frame : Continue(t, "header", next)
  /\ UNCHANGED response

HandleSkip(t) == Continue(t, "skip", "header") /\ UNCHANGED response

\* The next read is started before the data are looked at.
HandleData(t) ==
  /\ Goto(t, "idle", "dispatch")
  /\ \/ /\ ops["data"].failed > 0
        /\ ops' = Start(Consumed("data", "failed"), "header")
        /\ msg' = [msg EXCEPT ![t] = "error"]
        /\ UNCHANGED <<num, upstream>>
     \/ /\ ops["data"].done > 0
        /\ ops' = Start(Consumed("data", "done"), "header")
        /\ received' = received + 1
        /\ num' = [num EXCEPT ![t] = received']
        /\ \E k \in Kind :
             /\ msg' = [msg EXCEPT ![t] = k]
             /\ chats' = IF k = "danmu" THEN chats \cup {received'} ELSE chats
  /\ UNCHANGED <<socket, registry, response, out, reports>>

\* The message goes out of scope.
Forget(t) ==
  /\ msg' = [msg EXCEPT ![t] = "other"]
  /\ num' = [num EXCEPT ![t] = 0]

\* A failed read and a message that is not JSON close the connection.
DispatchError(t) ==
  /\ msg[t] \in {"error", "bad"}
  /\ Report(t, "dispatch", "callClose")
  /\ Forget(t)
  /\ UNCHANGED <<ops, socket>>

DispatchOther(t) ==
  /\ msg[t] = "other"
  /\ Goto(t, "dispatch", "idle")
  /\ Forget(t)
  /\ UNCHANGED <<ops, socket, registry, response, upstream, out, reports>>

\* Faulty variant: whatever is not a chat message is published, too.
HandleDanmu_Any(t) ==
  /\ msg[t] # "error"
  /\ Goto(t, "dispatch", "return")
  /\ out' = Append(out, num[t])
  /\ said' = ~said
  /\ Forget(t)
  /\ UNCHANGED <<ops, socket, registry, response, upstream, reported>>

\* Faulty variant: no return after the report of a failed read, so that a message
\* that was never received is published.
HandleDanmu_NoReturn(t) ==
  /\ msg[t] \in {"danmu", "error"}
  /\ Goto(t, "dispatch", "return")
  /\ out' = Append(out, num[t])
  /\ said' = ~said
  /\ Forget(t)
  /\ UNCHANGED <<ops, socket, registry, response, upstream, reported>>

HandleDanmu(t) ==
  /\ msg[t] = "danmu"
  /\ Goto(t, "dispatch", "return")
  /\ out' = Append(out, num[t])
  /\ said' = ~said
  /\ Forget(t)
  /\ UNCHANGED <<ops, socket, registry, response, upstream, reported>>

HandleHeartbeatTimer(t) ==
  /\ on(t, "wait")
  /\ Goto(t, "idle", "arm")
  /\ ops' = Start(Consumed("wait", "done"), "write")
  /\ UNCHANGED <<socket, locals, registry, response, upstream, out, reports>>

\* Faulty variant: the timer is given a new time but not waited for.
ArmTimer_NoWait(t) ==
  /\ Goto(t, "arm", "idle")
  /\ ops' = Abort(ops, {"wait"})
  /\ UNCHANGED <<socket, locals, registry, response, upstream, out, reports>>

ArmTimer(t) ==
  /\ Goto(t, "arm", "idle")
  /\ ops' = Arm(ops)
  /\ UNCHANGED <<socket, locals, registry, response, upstream, out, reports>>

-----------------------------------------------------------------------------
\* A thread goes on in the handler it runs.
Go(t) ==
  \/ OnPlatformClose(t) \/ Return(t) \/ ShutSocket(t) \/ CancelTimer(t)
  \/ DispatchError(t) \/ DispatchOther(t) \/ HandleDanmu(t) \/ ArmTimer(t)

\* A thread takes the handler of a completed operation.
Begin(t) ==
  \/ \E o \in Op : OnError(t, o)
  \/ OnHttpResolve(t) \/ OnHttpConnect(t) \/ OnRequest(t) \/ HandleStatus(t)
  \/ HandleHead(t) \/ HandleContent(t) \/ HandleEof(t)
  \/ OnTcpResolve(t) \/ OnTcpConnect(t) \/ OnWritten(t) \/ HandleHeader(t)
  \/ HandleSkip(t) \/ HandleData(t) \/ HandleHeartbeatTimer(t)

Next ==
  \/ \E t \in ClientThread : Go(t) \/ Begin(t)
  \/ \E o \in Op : Complete(o)
  \/ CloseSocket \/ CloseTimer

Spec == Init /\ [][Next]_vars

\* Handlers go on and return, a free thread takes a handler that is due and
\* close() is not left half way.  Nothing is assumed of network and clock.
Fairness ==
  /\ \A t \in ClientThread : WF_vars(Go(t)) /\ WF_vars(Begin(t))
  /\ WF_vars(CloseTimer)

FairSpec == Spec /\ Fairness

-----------------------------------------------------------------------------
(* Properties.                                                             *)

Quiet == /\ \A t \in ClientThread : pc[t] = "idle"
         /\ \A o \in Op : Outstanding(o) = 0

Resolving == Outstanding("resolve") + Outstanding("resolve2") > 0

\* The stage of the session as the registry sees it.
Stage ==
  IF Quiet THEN "ended"
  ELSE IF reported THEN "draining"
  ELSE IF Resolving THEN "resolving"
  ELSE IF socket = "closed" THEN "aborting"
  ELSE "socket"

Waiting == [t \in ClientThread |-> pc[t] \in CallPc]

Session == INSTANCE TcpSession WITH
  Platform <- "bilibili",
  up <- Stage,
  waiting <- Waiting,
  closed <- closing # "no"

\* bilibili.cpp as a whole makes the publishes and reports that the registry's
\* model (module Proxy) relies on, in the stages it relies on.
ImplementsSession == Session!Spec

\* bilibili.cpp:45-152, 259-362: one operation leads to the next through the
\* request and the stream of frames, however handlers and close() overlap: until
\* a failure is reported exactly one is outstanding, so that the session
\* neither goes deaf nor reads its socket with two operations at once.
OneStep ==
  /\ \A o \in StepOp : Outstanding(o) > 0 =>
       Outstanding(o) = 1 /\ \A p \in StepOp \ {o} : Outstanding(p) = 0
  /\ ~reported => \E o \in StepOp : Outstanding(o) > 0

\* bilibili.cpp:273-281, 401-412: while the session reads frames and has not
\* reported, a heartbeat is to come: no failure or read that completes before the
\* timer is set loses it.  The one exception is a close() that had closed the socket
\* before it was opened again and then cancelled the timer: the handler of that
\* wait is due instead, which reports and closes the socket, so that the session
\* does not read on without heartbeats.
HeartbeatGoesOn ==
  ~reported /\ socket = "open" /\ (\E o \in Frame : Outstanding(o) > 0) =>
    \/ ops["wait"].started + ops["wait"].done > 0
    \/ \E t \in ClientThread : pc[t] = "arm"
    \/ closing = "done" /\ ops["wait"].failed > 0

\* bilibili.cpp:360-398: every chat message received is published exactly once,
\* or some thread still has it; nothing else is published.
Held(n) == \E t \in ClientThread :
             pc[t] = "dispatch" /\ msg[t] = "danmu" /\ num[t] = n
PublishedOnce ==
  /\ \A i, j \in 1..Len(out) : out[i] = out[j] => i = j
  /\ \A n \in 1..MaxMsg :
       IF n \in chats THEN Held(n) # (\E i \in 1..Len(out) : out[i] = n)
       ELSE \A i \in 1..Len(out) : out[i] # n

\* bilibili.cpp:121-151: what is parsed for the chat server ends with all of the
\* body that came after the header, in order, even though every read appends
\* what earlier reads have already appended.
ParsedBody == Outstanding("resolve2") > 0 => IsSuffix(Buffer, live)

\* close() during the request (bilibili.cpp:38-43) ends the session, unless the
\* response was already complete: then the session connects to the chat server
\* although it is registered no more.
CloseEndsRequest ==
  closing = "done" /\ socket = "closed" /\ (\E o \in Http : Outstanding(o) > 0)
    ~> Stage = "ended" \/ Outstanding("resolve2") > 0
=============================================================================
