------------------------------ MODULE Huajiao ------------------------------
(***************************************************************************)
(* One huajiao session (src/platforms/huajiao/huajiao.cpp): a handshake, a *)
(* login and a request to join the room, each answered by a frame that     *)
(* only the parser of its stage understands, and then messages, several of *)
(* which may come in one frame.  conn_info is shared by all handlers and   *)
(* its lock is never taken; the handlers run on the connection's strand.   *)
(***************************************************************************)
EXTENDS Naturals, Sequences

CONSTANTS
  ClientThread, \* threads that run platform_io_service
  Batch,        \* the numbers of messages a frame may bring
  MaxFrames,    \* bound: frames the upstream sends
  None

ASSUME BatchAssumption     == Batch \subseteq Nat
ASSUME MaxFramesAssumption == MaxFrames \in Nat
ASSUME NoneAssumption      == None \notin ClientThread

\* InitLoginResp, LoginResp, NewMessageNotify, a binary frame of another kind
\* (a heartbeat, a service response, garbage), and one that is not binary.
Frame == {"initLoginResp", "loginResp", "notify", "other", "text"}

VARIABLES
  conn, over, strand, \* the connection, see WsClient
  pc,        \* where each thread is
  frame,     \* the frame at hand of each thread
  todo,      \* the messages of that frame not yet published
  handshake, \* conn_info: the handshake's response has come,
  bLogin,    \* that of the login has,
  bJoin,     \* and the session has asked to join
  handle,    \* start() has returned and chdl is assigned
  closed,    \* close() was called
  unmapped,  \* an on_platform_close of this session has returned
  fault,     \* "none" or "deadlock" (rp_rw_mtx is held for ever)
  frames,    \* history: frames so far
  arrived,   \* history: messages so far
  log,       \* history: messages published
  sent,      \* history: packets sent
  said,      \* history: flips with every publish
  reported   \* history: the close callback was called

connection == <<conn, over, strand>>
message    == <<frame, todo>>
conn_info  == <<handshake, bLogin, bJoin>>
registry   == <<handle, closed, unmapped, fault>>
traffic    == <<frames, arrived, log, sent>>
vars       == <<connection, pc, message, conn_info, registry, traffic, said, reported>>

INSTANCE WsClient

MessagePc == {"greet", "parse", "publish", "answer", "login", "join", "shut",
              "return", "call", "callReturn"}

\* A handler other than close() runs on the strand, and one that publishes has
\* something to publish.
TypeOK ==
  /\ WsType
  /\ pc \in [ClientThread -> MessagePc \cup {"idle"}]
  /\ \A t \in ClientThread : pc[t] # "idle" <=> strand = t
  /\ frame \in [ClientThread -> Frame]
  /\ todo \in [ClientThread -> Seq(1..arrived)]
  /\ \A t \in ClientThread : pc[t] = "publish" => todo[t] # <<>>
  /\ handshake \in BOOLEAN
  /\ bLogin \in BOOLEAN
  /\ bJoin \in BOOLEAN
  /\ handle \in BOOLEAN
  /\ closed \in BOOLEAN
  /\ unmapped \in BOOLEAN
  /\ fault \in {"none", "deadlock"}
  /\ frames \in 0..MaxFrames
  /\ arrived \in Nat
  /\ log \in Seq(1..arrived)
  /\ sent \in Seq({"handshake", "login", "join"})
  /\ said \in BOOLEAN
  /\ reported \in BOOLEAN

Init ==
  /\ WsInit
  /\ pc = [t \in ClientThread |-> "idle"]
  /\ frame = [t \in ClientThread |-> "other"]
  /\ todo = [t \in ClientThread |-> <<>>]
  /\ handshake = FALSE
  /\ bLogin = FALSE
  /\ bJoin = FALSE
  /\ handle = FALSE
  /\ closed = FALSE
  /\ unmapped = FALSE
  /\ fault = "none"
  /\ frames = 0
  /\ arrived = 0
  /\ log = <<>>
  /\ sent = <<>>
  /\ said = FALSE
  /\ reported = FALSE

Goto(t, from, to) == pc[t] = from /\ pc' = [pc EXCEPT ![t] = to]

-----------------------------------------------------------------------------
(* Reports.                                                                *)

\* publish the reason and call the close callback.
Report(t, from, to) ==
  /\ Goto(t, from, to)
  /\ said' = ~said
  /\ reported' = TRUE
  /\ UNCHANGED <<message, conn_info, registry, traffic>>

\* The callback waits for rp_rw_mtx, which login holds while it calls start()
\* and for ever once close() waits for it.
OnPlatformClose(t) ==
  /\ handle /\ fault = "none"
  /\ \/ Goto(t, "call", "shut")
     \/ Goto(t, "callReturn", "return")
  /\ unmapped' = TRUE
  /\ UNCHANGED <<connection, message, conn_info, handle, closed, fault, traffic,
                 said, reported>>

\* client.close(chdl) after a report: without chdl it closes nothing.
Shut(t) ==
  /\ Goto(t, "shut", "return")
  /\ conn' = IF handle THEN Closing ELSE conn
  /\ UNCHANGED <<over, strand, message, conn_info, registry, traffic, said, reported>>

\* The handler returns to the strand, and what it knew is gone.
Return(t) ==
  /\ Goto(t, "return", "idle")
  /\ strand' = None
  /\ frame' = [frame EXCEPT ![t] = "other"]
  /\ UNCHANGED <<conn, over, todo, conn_info, registry, traffic, said, reported>>

-----------------------------------------------------------------------------
(* Handshake, login and join.                                              *)

\* A packet is sent, or the error reported and the connection closed.
Send(t, from, packet) ==
  \/ /\ CanSend
     /\ Goto(t, from, "return")
     /\ sent' = Append(sent, packet)
     /\ UNCHANGED <<message, registry, frames, arrived, log, said, reported>>
  \/ /\ ~CanSend
     /\ Goto(t, from, "call")
     /\ said' = ~said
     /\ reported' = TRUE
     /\ UNCHANGED <<message, registry, traffic>>

\* The open handler sends the handshake as soon as the connection is open.
OnClientOpen(t) ==
  /\ Open
  /\ strand' = t
  /\ Goto(t, "idle", "greet")
  /\ UNCHANGED <<message, conn_info, registry, traffic, said, reported>>

SendHandshake(t) ==
  /\ Send(t, "greet", "handshake")
  /\ UNCHANGED <<connection, conn_info>>

\* Once the handshake is done a frame that leaves the session not logged in is
\* answered by a login, and the first after that by a request to join.
Answer(t) ==
  /\ Goto(t, "answer",
          IF ~handshake THEN "return"
          ELSE IF ~bLogin THEN "login"
          ELSE IF ~bJoin THEN "join" ELSE "return")
  /\ UNCHANGED <<connection, message, conn_info, registry, traffic, said, reported>>

SendLogin(t) ==
  /\ Send(t, "login", "login")
  /\ UNCHANGED <<connection, conn_info>>

\* Faulty variant: bJoin is not set.
SendJoin_Unmarked(t) ==
  /\ Send(t, "join", "join")
  /\ UNCHANGED <<connection, conn_info>>

\* bJoin is set before the request is sent.
SendJoin(t) ==
  /\ Send(t, "join", "join")
  /\ bJoin' = TRUE
  /\ UNCHANGED <<connection, handshake, bLogin>>

-----------------------------------------------------------------------------
(* Frames.                                                                 *)

Receive(t, kind, n) ==
  /\ frames < MaxFrames
  /\ frames' = frames + 1
  /\ Goto(t, "idle", IF kind = "text" THEN "return" ELSE "parse")
  /\ frame' = [frame EXCEPT ![t] = kind]
  /\ arrived' = arrived + n
  /\ todo' = [todo EXCEPT ![t] = [i \in 1..n |-> arrived + i]]
  /\ UNCHANGED <<conn, over, conn_info, registry, log, sent, said, reported>>

\* The numbers of messages a frame of this kind can bring.
Content(kind) == IF kind = "notify" /\ bLogin THEN Batch ELSE {0}

\* Faulty variant: the client is not multithreaded, so that there is no strand.
OnClientMessage_NoStrand(t) ==
  /\ Deliverable
  /\ UNCHANGED strand
  /\ \E kind \in Frame : \E n \in Content(kind) : Receive(t, kind, n)

\* A frame that is not binary is ignored.
OnClientMessage(t) ==
  /\ Deliverable
  /\ strand' = t
  /\ \E kind \in Frame : \E n \in Content(kind) : Receive(t, kind, n)

\* The parser of the session's stage, which sees nothing in a frame of another.
\* A message of a logged in session may be a login's response, too.
HandleBinaryMessage(t) ==
  /\ Goto(t, "parse", IF todo[t] # <<>> THEN "publish" ELSE "answer")
  /\ IF ~handshake
     THEN handshake' = (frame[t] = "initLoginResp") /\ UNCHANGED bLogin
     ELSE bLogin' = (bLogin \/ frame[t] = "loginResp") /\ UNCHANGED handshake
  /\ UNCHANGED <<connection, message, bJoin, registry, traffic, said, reported>>

\* The messages of a frame are published one after the other; one that cannot
\* be unzipped or is not JSON is left out.
ParseJsonMessage(t) ==
  /\ Goto(t, "publish", IF Len(todo[t]) = 1 THEN "answer" ELSE "publish")
  /\ todo' = [todo EXCEPT ![t] = Tail(@)]
  /\ \/ log' = Append(log, Head(todo[t])) /\ said' = ~said
     \/ UNCHANGED <<log, said>>
  /\ UNCHANGED <<connection, frame, conn_info, registry, frames, arrived, sent, reported>>

-----------------------------------------------------------------------------
(* The end of the connection, and close().                                 *)

\* The connection is closed by the upstream, or goes down.
Library ==
  /\ ReceiveClose \/ Terminate
  /\ UNCHANGED <<pc, message, conn_info, registry, traffic, said, reported>>

OnClientFail(t) ==
  /\ strand = None /\ over = "failed"
  /\ over' = "told" /\ strand' = t
  /\ Report(t, "idle", "callReturn")
  /\ UNCHANGED conn

OnClientClose(t) ==
  /\ strand = None /\ over = "closed"
  /\ over' = "told" /\ strand' = t
  /\ Report(t, "idle", "callReturn")
  /\ UNCHANGED conn

\* start() returns to login, which still holds rp_rw_mtx.
AssignHandle ==
  /\ ~handle
  /\ handle' = TRUE
  /\ UNCHANGED <<connection, pc, message, conn_info, closed, unmapped, fault, traffic,
                 said, reported>>

\* Faulty variant: close() leaves the connection alone.
Close_Forgotten ==
  /\ handle /\ ~closed /\ ~unmapped
  /\ closed' = TRUE
  /\ UNCHANGED <<connection, pc, message, conn_info, handle, unmapped, fault, traffic,
                 said, reported>>

\* close(), called under rp_rw_mtx while the session is registered, closes the
\* connection.  It reports an error of client.close, and never comes back from
\* the report.
Close ==
  /\ handle /\ ~closed /\ ~unmapped
  /\ closed' = TRUE
  /\ conn' = Closing
  /\ IF conn = "open"
     THEN UNCHANGED <<fault, reported>>
     ELSE fault' = "deadlock" /\ reported' = TRUE
  /\ UNCHANGED <<over, strand, pc, message, conn_info, handle, unmapped, traffic, said>>

-----------------------------------------------------------------------------
\* A thread goes on in the handler it runs.
Go(t) ==
  \/ SendHandshake(t) \/ HandleBinaryMessage(t) \/ ParseJsonMessage(t) \/ Answer(t)
  \/ SendLogin(t) \/ SendJoin(t) \/ OnPlatformClose(t) \/ Shut(t) \/ Return(t)

\* A thread takes the handler of the connection's end.
Begin(t) == OnClientFail(t) \/ OnClientClose(t)

Next ==
  \/ \E t \in ClientThread : Go(t) \/ Begin(t) \/ OnClientOpen(t) \/ OnClientMessage(t)
  \/ Library \/ AssignHandle \/ Close

Spec == Init /\ [][Next]_vars

\* Handlers go on and return, the handler of the connection's end is called and
\* start() returns.  A closing connection goes down: the library sets a timer
\* for its closing handshake.
Fairness ==
  /\ \A t \in ClientThread : WF_vars(Go(t)) /\ WF_vars(Begin(t))
  /\ WF_vars(AssignHandle)
  /\ WF_vars(conn = "closing" /\ Library)

FairSpec == Spec /\ Fairness

-----------------------------------------------------------------------------
(* Properties.                                                             *)

Idle == \A t \in ClientThread : pc[t] = "idle"

\* huajiao.cpp:68-88: whatever frames come, and whichever threads handle them,
\* the session says its handshake, then logs in, asks to join at most once and
\* then says nothing more.
Protocol ==
  /\ \A i \in DOMAIN sent :
       /\ sent[i] = "handshake" <=> i = 1
       /\ sent[i] = "join" => i = Len(sent) /\ i > 2
  /\ bJoin => bLogin /\ handshake

\* huajiao.hpp:62-63, "normally there is no data race": the messages are
\* published in the order they came in, although any thread may take a frame,
\* a frame may bring several and nothing but the strand orders them.
InOrder == \A i, j \in DOMAIN log : i < j => log[i] < log[j]

\* The stage of the session as the registry sees it.
Stage ==
  CASE conn = "closed" /\ over = "failed" -> "connecting"
    [] conn = "closed" /\ over = "closed" -> "terminated"
    [] conn = "closed" /\ over = "told"   -> IF Idle THEN "ended" ELSE "draining"
    [] OTHER -> conn

\* The threads whose report waits for rp_rw_mtx.
Waiting == [t \in ClientThread |-> pc[t] \in {"call", "callReturn"}]

Session == INSTANCE WsSession WITH
  Platform <- "huajiao",
  up <- Stage,
  hbTimer <- FALSE,
  waiting <- Waiting

\* huajiao.cpp as a whole makes the publishes and reports that the registry's
\* model (module Proxy) relies on, in the stages it relies on, and hangs only
\* where the registry's model says it can.
ImplementsSession == Session!Spec

\* close() (huajiao.cpp:47-52) ends the session: the handlers that are running
\* return, whether or not what they still send can be sent, and the handler of
\* the connection's end follows them; unless close() hangs for ever.
CloseEnds == closed ~> Stage = "ended" \/ fault # "none"
=============================================================================
