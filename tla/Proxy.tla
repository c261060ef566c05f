------------------------------- MODULE Proxy -------------------------------
(***************************************************************************)
(* The registry of DMProxy: the map rp_map from a room string to the       *)
(* platform session that feeds it (src/main.cpp), the listeners of every   *)
(* session (src/platforms/platform_base.cpp) and, reduced to the steps the *)
(* registry can observe, the life of a session on the client threads.      *)
(*                                                                         *)
(* A handler of main.cpp holds rp_rw_mtx, a non-recursive mutex, from its  *)
(* first look at rp_map to its end, so each is one step.  A session        *)
(* reports its end in two steps, as the code does: it publishes the reason *)
(* and then waits for rp_rw_mtx in on_platform_close, while other threads  *)
(* go on.  A thread that calls on_platform_close while it already holds    *)
(* the mutex never returns: fault becomes "deadlock" and no handler that   *)
(* needs the mutex runs again.                                             *)
(***************************************************************************)
EXTENDS Integers, FiniteSets

CONSTANTS
  Conn,         \* viewer connections, numbered in the order of std::owner_less
  Room,         \* room strings of a known platform with a valid room id
  BadRoom,      \* well-formed room strings that are refused
  Inst,         \* platform sessions (objects of a platform_base subclass)
  ClientThread, \* threads that run platform_io_service
  Kind,         \* the platform of each room
  MaxExtra,     \* reports of one session besides the one that ends it
  None

Tcp      == {"douyu", "bilibili"}
Ws       == {"huajiao", "YY"}
Platform == Tcp \cup Ws

ASSUME ConnAssumption  == Conn \subseteq Nat
ASSUME KindAssumption  == Kind \in [Room -> Platform]
ASSUME BoundAssumption == MaxExtra \in Nat
ASSUME NoneAssumption  == /\ None \notin Room \cup BadRoom \cup Inst
                          /\ Room \cap BadRoom = {}

VARIABLES
  rpMap,     \* rp_map: the session of each room, or None
  fault,     \* "none", "deadlock" (rp_rw_mtx is held for ever) or "crash"
  sess,      \* state of each viewer's websocket connection
  wants,     \* room string its message handler holds, waiting for rp_rw_mtx
  msgRoom,   \* room string bound into its message handler
  closeRoom, \* room string bound into its close handler, None if none is set
  room,      \* m_platform_name "_" m_roomid of each session, None if unborn
  listeners, \* m_listeners of each session
  up,        \* how far the session's upstream connection has come
  hbTimer,   \* whether m_hb_timer of a YY session is not null
  waiting,   \* session for which each client thread is in on_platform_close
  starts,    \* history: calls of start() on each session
  closed,    \* history: sessions on which close() was called
  reported,  \* history: sessions that called their close callback
  extra      \* history: reports of a session that did not end it

connVars == <<sess, wants, msgRoom, closeRoom>>
instVars == <<room, listeners, up, hbTimer, starts, closed, reported, extra>>
vars     == <<rpMap, fault, waiting, connVars, instVars>>

SessState == {"open", "lost", "kicked", "done"}
UpState   == {"unborn", "resolving", "socket", "aborting", "connecting",
              "open", "closing", "terminated", "draining", "ended"}

TypeOK ==
  /\ rpMap \in [Room -> Inst \cup {None}]
  /\ fault \in {"none", "deadlock", "crash"}
  /\ sess \in [Conn -> SessState]
  /\ wants \in [Conn -> Room \cup BadRoom \cup {None}]
  /\ msgRoom \in [Conn -> Room \cup BadRoom \cup {None}]
  /\ closeRoom \in [Conn -> Room \cup {None}]
  /\ room \in [Inst -> Room \cup {None}]
  /\ listeners \in [Inst -> SUBSET Conn]
  /\ up \in [Inst -> UpState]
  /\ hbTimer \in [Inst -> BOOLEAN]
  /\ waiting \in [ClientThread -> Inst \cup {None}]
  /\ starts \in [Inst -> Nat]
  /\ closed \in SUBSET Inst
  /\ reported \in SUBSET Inst
  /\ extra \in [Inst -> 0..MaxExtra]

Init ==
  /\ rpMap = [r \in Room |-> None]
  /\ fault = "none"
  /\ sess = [c \in Conn |-> "open"]
  /\ wants = [c \in Conn |-> None]
  /\ msgRoom = [c \in Conn |-> None]
  /\ closeRoom = [c \in Conn |-> None]
  /\ room = [i \in Inst |-> None]
  /\ listeners = [i \in Inst |-> {}]
  /\ up = [i \in Inst |-> "unborn"]
  /\ hbTimer = [i \in Inst |-> FALSE]
  /\ waiting = [t \in ClientThread |-> None]
  /\ starts = [i \in Inst |-> 0]
  /\ closed = {}
  /\ reported = {}
  /\ extra = [i \in Inst |-> 0]

Mapped(r) == r \in Room /\ rpMap[r] # None
KindOf(i) == Kind[room[i]]

-----------------------------------------------------------------------------
(* A viewer leaves room r: erase_listener and, when no listener is left,   *)
(* close() and rp_map.erase.                                               *)

\* Faulty variant: the viewer is not erased from the old session.
LeftListeners_NoErase(c, r) == listeners

LeftListeners(c, r) ==
  IF Mapped(r) THEN [listeners EXCEPT ![rpMap[r]] = @ \ {c}] ELSE listeners

Empties(c, r) == Mapped(r) /\ listeners[rpMap[r]] \subseteq {c}

\* close() of a tcp session closes the socket.  A YY session first cancels a
\* timer that is null until the upstream asked it to log in.  Both websocket
\* sessions report an error of client.close, which only an open connection
\* does not give, and reporting takes rp_rw_mtx, held by the caller.
CloseFault(i) ==
  IF KindOf(i) \in Tcp THEN "none"
  ELSE IF KindOf(i) = "YY" /\ ~hbTimer[i] THEN "crash"
  ELSE IF up[i] = "open" THEN "none" ELSE "deadlock"

LeaveFault(c, r) == IF Empties(c, r) THEN CloseFault(rpMap[r]) ELSE "none"

\* Faulty variant: the closed session stays in rp_map.
LeftMap_NoErase(c, r) == rpMap

LeftMap(c, r) == IF Empties(c, r) THEN [rpMap EXCEPT ![r] = None] ELSE rpMap

\* close() stops neither a resolve nor a handler that is already running.
LeftUp(c, r) ==
  IF Empties(c, r)
  THEN [up EXCEPT ![rpMap[r]] = IF @ = "socket" THEN "aborting"
                                ELSE IF @ = "open" THEN "closing" ELSE @]
  ELSE up

LeftClosed(c, r) == IF Empties(c, r) THEN closed \cup {rpMap[r]} ELSE closed

\* The handler never comes back from close(): nothing after it is run.
FailLeaving(c, r) ==
  /\ LeaveFault(c, r) # "none"
  /\ fault' = LeaveFault(c, r)
  /\ listeners' = LeftListeners(c, r)
  /\ closed' = LeftClosed(c, r)
  /\ reported' = IF fault' = "deadlock" THEN reported \cup {rpMap[r]} ELSE reported
  /\ UNCHANGED <<rpMap, waiting, sess, wants, closeRoom,
                 room, up, hbTimer, starts, extra>>

-----------------------------------------------------------------------------
(* The server threads: handlers of the viewers' connections.               *)

\* A viewer sends a room string; its handler starts and asks for rp_rw_mtx.
Receive(c, r) ==
  /\ fault # "crash"
  /\ sess[c] = "open" /\ wants[c] = None
  /\ wants' = [wants EXCEPT ![c] = r]
  /\ UNCHANGED <<rpMap, fault, waiting, sess, msgRoom, closeRoom, instVars>>

\* The viewer already is where it asks to be.
StayInRoom(c) ==
  /\ fault = "none"
  /\ wants[c] # None
  /\ msgRoom[c] = wants[c] /\ Mapped(wants[c])
  /\ wants' = [wants EXCEPT ![c] = None]
  /\ UNCHANGED <<rpMap, fault, waiting, sess, msgRoom, closeRoom, instVars>>

\* What every other message does first: rebind the message handler.
ChangeRoom(c) ==
  /\ fault = "none"
  /\ wants[c] # None
  /\ ~(msgRoom[c] = wants[c] /\ Mapped(wants[c]))
  /\ msgRoom' = [msgRoom EXCEPT ![c] = wants[c]]

\* The message handler does not survive leaving the old room.
ChangeFails(c) ==
  /\ ChangeRoom(c)
  /\ FailLeaving(c, msgRoom[c])

\* It does: the old room has been left and the handler will return.
ChangeSucceeds(c) ==
  /\ ChangeRoom(c)
  /\ LeaveFault(c, msgRoom[c]) = "none"
  /\ closed' = LeftClosed(c, msgRoom[c])
  /\ wants' = [wants EXCEPT ![c] = None]
  /\ UNCHANGED <<fault, waiting, sess, hbTimer, reported, extra>>

Started(r) == IF Kind[r] \in Tcp THEN "resolving" ELSE "connecting"

\* Set the close handler, add the listener, register and start session i.
Attach(c, r, i) ==
  /\ closeRoom' = [closeRoom EXCEPT ![c] = r]
  /\ listeners' = [LeftListeners(c, msgRoom[c]) EXCEPT ![i] = @ \cup {c}]
  /\ rpMap' = [LeftMap(c, msgRoom[c]) EXCEPT ![r] = i]
  /\ up' = [LeftUp(c, msgRoom[c]) EXCEPT ![i] = Started(r)]
  /\ starts' = [starts EXCEPT ![i] = @ + 1]

\* Faulty variant: no return after add_listener.
JoinRoom_NoReturn(c) ==
  /\ ChangeSucceeds(c)
  /\ Mapped(wants[c])
  /\ Attach(c, wants[c], rpMap[wants[c]])
  /\ UNCHANGED room

\* The room has a session: add the listener and return.  If the session had
\* the listener the handler would go on and start the session once more.
JoinRoom(c) ==
  LET r == wants[c]
      i == rpMap[r]
  IN /\ ChangeSucceeds(c)
     /\ Mapped(r)
     /\ IF c \in LeftListeners(c, msgRoom[c])[i]
        THEN Attach(c, r, i)
        ELSE /\ listeners' = [LeftListeners(c, msgRoom[c]) EXCEPT ![i] = @ \cup {c}]
             /\ rpMap' = LeftMap(c, msgRoom[c])
             /\ up' = LeftUp(c, msgRoom[c])
             /\ UNCHANGED <<closeRoom, starts>>
     /\ UNCHANGED room

\* Faulty variant: the map is not consulted before a session is created.
OpenRoom_NoLookup(c, i) ==
  /\ ChangeSucceeds(c)
  /\ wants[c] \in Room
  /\ room[i] = None
  /\ room' = [room EXCEPT ![i] = wants[c]]
  /\ Attach(c, wants[c], i)

\* The room has none: create one.
OpenRoom(c, i) ==
  LET r == wants[c]
  IN /\ ChangeSucceeds(c)
     /\ r \in Room /\ ~Mapped(r)
     /\ room[i] = None
     /\ room' = [room EXCEPT ![i] = r]
     /\ Attach(c, r, i)

\* Faulty variant: the close handler is set before the room is validated.
RefuseRoom_EarlyHandler(c) ==
  /\ ChangeSucceeds(c)
  /\ wants[c] \in BadRoom
  /\ closeRoom' = [closeRoom EXCEPT ![c] = wants[c]]
  /\ listeners' = LeftListeners(c, msgRoom[c])
  /\ rpMap' = LeftMap(c, msgRoom[c])
  /\ up' = LeftUp(c, msgRoom[c])
  /\ UNCHANGED <<room, starts>>

\* Unknown platform or invalid room id: the viewer is told and stays nowhere.
RefuseRoom(c) ==
  /\ ChangeSucceeds(c)
  /\ wants[c] \in BadRoom
  /\ listeners' = LeftListeners(c, msgRoom[c])
  /\ rpMap' = LeftMap(c, msgRoom[c])
  /\ up' = LeftUp(c, msgRoom[c])
  /\ UNCHANGED <<closeRoom, room, starts>>

OnServerMessage(c) ==
  \/ StayInRoom(c)
  \/ ChangeFails(c)
  \/ JoinRoom(c)
  \/ \E i \in Inst : OpenRoom(c, i)
  \/ RefuseRoom(c)

\* The viewer's connection ends; the library will call its close handler on
\* the connection's strand, after a message handler that is still running.
Lose(c) ==
  /\ fault # "crash"
  /\ sess[c] = "open" /\ wants[c] = None
  /\ sess' = [sess EXCEPT ![c] = "lost"]
  /\ UNCHANGED <<rpMap, fault, waiting, wants, msgRoom, closeRoom, instVars>>

Closable(c) == sess[c] \in {"lost", "kicked"} /\ wants[c] = None

\* No close handler was ever set for this viewer.
CloseUnhandled(c) ==
  /\ fault # "crash"
  /\ Closable(c) /\ closeRoom[c] = None
  /\ sess' = [sess EXCEPT ![c] = "done"]
  /\ UNCHANGED <<rpMap, fault, waiting, wants, msgRoom, closeRoom, instVars>>

CloseFails(c) ==
  /\ fault = "none"
  /\ Closable(c) /\ closeRoom[c] # None
  /\ FailLeaving(c, closeRoom[c])
  /\ UNCHANGED msgRoom

OnServerClose(c) ==
  /\ fault = "none"
  /\ Closable(c) /\ closeRoom[c] # None
  /\ LeaveFault(c, closeRoom[c]) = "none"
  /\ sess' = [sess EXCEPT ![c] = "done"]
  /\ listeners' = LeftListeners(c, closeRoom[c])
  /\ rpMap' = LeftMap(c, closeRoom[c])
  /\ up' = LeftUp(c, closeRoom[c])
  /\ closed' = LeftClosed(c, closeRoom[c])
  /\ UNCHANGED <<fault, waiting, wants, msgRoom, closeRoom,
                 room, hbTimer, starts, reported, extra>>

-----------------------------------------------------------------------------
(* The client threads: what a session does.                                *)

ThreadFree == \E t \in ClientThread : waiting[t] = None

\* publish sends to the listeners in the order of the set.  Its error code is
\* declared before the loop and endpoint::send gives up at once when it is
\* already set: after the first failure every later send fails as well, and
\* each failed listener is closed and erased.  A send fails by itself when the
\* connection is not open or when the payload is not valid UTF-8.
Dropped(i, valid) ==
  {c \in listeners[i] :
     \/ ~valid
     \/ \E d \in listeners[i] : d <= c /\ sess[d] # "open"}

\* Faulty variant: failed listeners are erased but their connections not closed.
PublishTo_NoClose(i, valid) ==
  /\ listeners' = [listeners EXCEPT ![i] = @ \ Dropped(i, valid)]
  /\ UNCHANGED sess

\* Faulty variant: failed listeners are closed but not erased.
PublishTo_NoErase(i, valid) ==
  /\ sess' = [c \in Conn |-> IF c \in Dropped(i, valid) /\ sess[c] = "open"
                             THEN "kicked" ELSE sess[c]]
  /\ UNCHANGED listeners

PublishTo(i, valid) ==
  /\ listeners' = [listeners EXCEPT ![i] = @ \ Dropped(i, valid)]
  /\ sess' = [c \in Conn |-> IF c \in Dropped(i, valid) /\ sess[c] = "open"
                             THEN "kicked" ELSE sess[c]]

\* The upstream connection makes progress that no viewer sees: a resolve
\* succeeds, bilibili resolves its second host, a websocket opens, is closed by
\* the upstream or goes down.
Progress(i) ==
  \/ up[i] = "resolving" /\ up' = [up EXCEPT ![i] = "socket"]
  \/ up[i] \in {"socket", "aborting"} /\ KindOf(i) = "bilibili"
     /\ up' = [up EXCEPT ![i] = "resolving"]
  \/ up[i] = "connecting" /\ up' = [up EXCEPT ![i] = "open"]
  \/ up[i] = "open" /\ up' = [up EXCEPT ![i] = "closing"]
  \/ up[i] \in {"open", "closing"} /\ up' = [up EXCEPT ![i] = "terminated"]

UpstreamStep(i) ==
  /\ fault # "crash" /\ ThreadFree
  /\ Progress(i)
  /\ UNCHANGED <<rpMap, fault, waiting, connVars, room, listeners, hbTimer,
                 starts, closed, reported, extra>>

\* A YY session is asked to log in and arms its heartbeat timer, which it does
\* even in a message that made it close its connection.
Login(i) ==
  /\ fault # "crash" /\ ThreadFree
  /\ up[i] \in {"open", "closing"} /\ KindOf(i) = "YY"
  /\ hbTimer' = [hbTimer EXCEPT ![i] = TRUE]
  /\ UNCHANGED <<rpMap, fault, waiting, connVars, room, listeners, up,
                 starts, closed, reported, extra>>

\* A chat message.  The uid is sent as it came, except by YY, who makes it
\* from a number.
Publish(i, valid) ==
  /\ fault # "crash" /\ ThreadFree
  /\ \/ up[i] \in {"socket", "aborting", "open", "closing"}
     \/ up[i] = "draining" /\ KindOf(i) \in Tcp
  /\ valid \/ KindOf(i) # "YY"
  /\ PublishTo(i, valid)
  /\ UNCHANGED <<rpMap, fault, waiting, wants, msgRoom, closeRoom, room, up,
                 hbTimer, starts, closed, reported, extra>>

\* Thread t publishes why the session ended and enters on_platform_close.
Report(t, i) ==
  /\ fault # "crash"
  /\ waiting[t] = None
  /\ PublishTo(i, TRUE)
  /\ waiting' = [waiting EXCEPT ![t] = i]
  /\ reported' = reported \cup {i}
  /\ UNCHANGED <<rpMap, fault, wants, msgRoom, closeRoom, room, hbTimer,
                 starts, closed>>

\* Faulty variant: a session reconnects when its operations are aborted.
FinalReport_Reconnect(t, i) ==
  /\ \/ up[i] \in {"resolving", "socket", "aborting", "connecting"}
     \/ up[i] = "terminated" /\ (KindOf(i) = "YY" => hbTimer[i])
  /\ up' = [up EXCEPT ![i] = IF @ = "aborting" THEN "resolving" ELSE "draining"]
  /\ Report(t, i)
  /\ UNCHANGED extra

\* The report of the operation whose failure ends the session: a resolve, a
\* socket operation, the fail handler or the close handler of a websocket.
FinalReport(t, i) ==
  /\ \/ up[i] \in {"resolving", "socket", "aborting", "connecting"}
     \/ up[i] = "terminated" /\ (KindOf(i) = "YY" => hbTimer[i])
  /\ up' = [up EXCEPT ![i] = "draining"]
  /\ Report(t, i)
  /\ UNCHANGED extra

\* Any other report: operations aborted by the first failure, a douyu message
\* without its end, a websocket send that fails, YY's timer and bad messages.
ExtraReport(t, i) ==
  /\ \/ up[i] = "draining" /\ (KindOf(i) \in Tcp \/ hbTimer[i])
     \/ up[i] = "socket" /\ KindOf(i) = "douyu"
     \/ up[i] = "open" /\ KindOf(i) = "YY"
     \/ up[i] = "terminated" /\ hbTimer[i]
     \/ up[i] = "closing"
  /\ extra[i] < MaxExtra
  /\ extra' = [extra EXCEPT ![i] = @ + 1]
  /\ Report(t, i)
  /\ UNCHANGED up

\* YY's close handler, or a request for init that could not be answered,
\* cancels a timer that was never set.
NullTimer(i) ==
  /\ fault # "crash" /\ ThreadFree
  /\ up[i] \in {"closing", "terminated"} /\ KindOf(i) = "YY" /\ ~hbTimer[i]
  /\ \/ up[i] = "terminated" /\ PublishTo(i, TRUE)
     \/ up[i] = "closing" /\ i \in reported /\ UNCHANGED <<listeners, sess>>
  /\ fault' = "crash"
  /\ UNCHANGED <<rpMap, waiting, wants, msgRoom, closeRoom, room, up,
                 hbTimer, starts, closed, reported, extra>>

\* Faulty variant: the callback forgets to erase.
OnPlatformClose_NoErase(t) ==
  /\ fault = "none"
  /\ waiting[t] # None
  /\ up' = [up EXCEPT ![waiting[t]] = IF @ = "open" THEN "closing" ELSE @]
  /\ waiting' = [waiting EXCEPT ![t] = None]
  /\ UNCHANGED <<rpMap, fault, connVars, room, listeners, hbTimer, starts,
                 closed, reported, extra>>

\* The callback: whatever session is registered under the room string goes.
\* A websocket session that reported while open closes its connection next.
OnPlatformClose(t) ==
  /\ fault = "none"
  /\ waiting[t] # None
  /\ rpMap' = [rpMap EXCEPT ![room[waiting[t]]] = None]
  /\ up' = [up EXCEPT ![waiting[t]] = IF @ = "open" THEN "closing" ELSE @]
  /\ waiting' = [waiting EXCEPT ![t] = None]
  /\ UNCHANGED <<fault, connVars, room, listeners, hbTimer, starts, closed,
                 reported, extra>>

\* The last handler of the session returns.
End(i) ==
  /\ fault # "crash" /\ ThreadFree
  /\ up[i] = "draining" /\ \A t \in ClientThread : waiting[t] # i
  /\ up' = [up EXCEPT ![i] = "ended"]
  /\ UNCHANGED <<rpMap, fault, waiting, connVars, room, listeners, hbTimer,
                 starts, closed, reported, extra>>

-----------------------------------------------------------------------------
ServerStep(c) ==
  \/ \E r \in Room \cup BadRoom : Receive(c, r)
  \/ OnServerMessage(c)
  \/ Lose(c)
  \/ CloseUnhandled(c)
  \/ CloseFails(c)
  \/ OnServerClose(c)

ClientStep(i) ==
  \/ UpstreamStep(i)
  \/ Login(i)
  \/ \E valid \in BOOLEAN : Publish(i, valid)
  \/ \E t \in ClientThread : FinalReport(t, i) \/ ExtraReport(t, i)
  \/ NullTimer(i)
  \/ End(i)

Next ==
  \/ \E c \in Conn : ServerStep(c)
  \/ \E i \in Inst : ClientStep(i)
  \/ \E t \in ClientThread : OnPlatformClose(t)

Spec == Init /\ [][Next]_vars

\* What is bound to happen: a thread that waits for rp_rw_mtx gets it, an
\* aborted operation calls its handler, a closing websocket goes down (the
\* library bounds the closing handshake by a timer), handlers return, and a
\* running upstream sends chat.  Nothing is assumed of viewers, of resolves
\* or of the life of an upstream that nobody closed.
Fairness ==
  /\ \A t \in ClientThread : WF_vars(OnPlatformClose(t))
  /\ \A i \in Inst :
       /\ WF_vars(up[i] \in {"aborting", "terminated"}
                  /\ \E t \in ClientThread : FinalReport(t, i))
       /\ WF_vars(up[i] = "closing" /\ UpstreamStep(i))
       /\ WF_vars(up[i] = "terminated" /\ NullTimer(i))
       /\ WF_vars(End(i))
       /\ WF_vars(Publish(i, TRUE))

FairSpec == Spec /\ Fairness

-----------------------------------------------------------------------------
(* Properties.                                                             *)

\* main.cpp:89-94 returns early only because a viewer of a registered session
\* that it leaves and joins by name is where its message handler says it is:
\* every listener of a registered session has that session's room string bound
\* into its message handler, whatever moves, closes and reports have happened.
MappedListenerIsCurrent ==
  \A r \in Room, c \in Conn :
    Mapped(r) /\ c \in listeners[rpMap[r]] => msgRoom[c] = r

\* start() (main.cpp:114) runs at most once on a session although the branch
\* for a known listener (main.cpp:91-94) falls through to it: a second start
\* would resolve and connect again over the socket in use.
StartedOnce == \A i \in Inst : starts[i] <= 1

\* A viewer whose connection is open and whose last room was accepted is a
\* listener of some session of that room (main.cpp:89-114): no close by name,
\* no failed publish and no other viewer's leaving can detach it silently.
ViewerAttached ==
  \A c \in Conn :
    fault = "none" /\ sess[c] = "open" /\ msgRoom[c] \in Room
      => \E i \in Inst : room[i] = msgRoom[c] /\ c \in listeners[i]

\* A session that close() was called on (main.cpp:47-49, 84-87) has no
\* listener, gets none later and, once the handler is through, is registered
\* nowhere: nobody can join a session that is going down by request.
ClosedStaysSilent ==
  \A i \in closed :
    /\ listeners[i] = {}
    /\ fault = "none" => \A r \in Room : rpMap[r] # i

\* A session that is neither registered nor closed, so that no viewer's
\* leaving will ever close it, was unregistered by on_platform_close
\* (main.cpp:33-37) for a session of the same room: the one way to lose one.
OrphanHasReport ==
  \A i \in Inst :
    room[i] # None /\ i \notin closed /\ rpMap[room[i]] # i
      => \E j \in reported : room[j] = room[i]

\* rp_map never keeps a dead session: one that reported is still registered
\* only while a thread is on its way into on_platform_close (dmp_cs.hpp:34-43),
\* or while rp_rw_mtx is lost, and one whose last handler returned is not.
DeadIsUnmapped ==
  \A r \in Room :
    Mapped(r) =>
      /\ up[rpMap[r]] # "ended"
      /\ fault = "none" /\ rpMap[r] \in reported
           => \E t \in ClientThread : waiting[t] = rpMap[r]

\* platform_base.cpp:42-51: a listener whose connection is gone, which is all
\* that removes a viewer who joined an existing room (main.cpp:91-94 sets no
\* close handler), is dropped as long as the session lives and speaks.
Speaking(i) == fault = "none" /\ up[i] \in {"socket", "open"}
LostListenerDropped ==
  \A i \in Inst, c \in Conn :
    c \in listeners[i] /\ sess[c] # "open" ~> c \notin listeners[i] \/ ~Speaking(i)

\* close() of a connected session (douyu.cpp:21-32, huajiao.cpp:47-52,
\* YY.cpp:40-46) ends it.  The proxy may die of it instead (fault), and a
\* bilibili session may reconnect, which is why it is left out.
CloseTakesEffect ==
  \A i \in Inst :
    i \in closed /\ up[i] \in {"aborting", "closing"} /\ KindOf(i) # "bilibili"
      ~> up[i] = "ended" \/ fault # "none"

\* What the reason text of SERVER_CLOSE_AND_REPORT_WHEN_ERROR says: publish
\* closes a connection because that connection's own send failed.  No send to
\* an open connection fails when the payload is valid, as YY's always is.
OnlyFailedSendCloses ==
  (\A r \in Room : Kind[r] = "YY") => \A c \in Conn : sess[c] # "kicked"
=============================================================================
