----------------------------- MODULE Listeners -----------------------------
(***************************************************************************)
(* The listeners of one registered session under their two mutexes, one    *)
(* access at a time (src/platforms/platform_base.cpp, src/main.cpp).       *)
(*                                                                         *)
(* A server thread runs a handler that joins or leaves the session: it     *)
(* takes rp_rw_mtx, and inside it m_lmtx for each single operation.  A     *)
(* client thread publishes under a shared m_lmtx, and a report goes on to  *)
(* take rp_rw_mtx in on_platform_close.  Who holds what follows from where *)
(* the threads are: a thread at "addIn" has m_lmtx and is inside the       *)
(* std::set.                                                               *)
(*                                                                         *)
(* The close() of a websocket session may report, too, and then waits for  *)
(* rp_rw_mtx while its own caller holds it: that thread never goes on.     *)
(*                                                                         *)
(* publish erases under the shared lock, so its writes can overlap reads   *)
(* and writes of others: a data race (NoRace).  Of what a race may do the  *)
(* model has the outcomes in which each access sees the set before or      *)
(* after the other; a crash would only cut the behaviour short.            *)
(***************************************************************************)
EXTENDS Naturals

CONSTANTS
  Conn,         \* viewer connections, numbered in the order of the set
  ServerThread, \* threads that run server_io_service
  ClientThread, \* threads that run platform_io_service
  Platform,     \* of the session: "douyu", "bilibili", "huajiao" or "YY"
  None

ASSUME ConnAssumption   == Conn \subseteq Nat
ASSUME ThreadAssumption == ServerThread \cap ClientThread = {}
ASSUME NoneAssumption   == None \notin Conn

VARIABLES
  pc,        \* where each thread is
  conn,      \* the viewer whose handler a server thread runs
  todo,      \* listeners a publish has not yet sent to
  failed,    \* to_be_deleted of a publish
  ec,        \* whether the error code of a publish is set
  report,    \* whether a publish belongs to a report
  listeners, \* m_listeners
  open,      \* connections in the library's state open
  mapped,    \* the session is in rp_map
  closed,    \* close() was called
  crashed    \* the program has crashed

threadVars == <<pc, conn, todo, failed, ec, report>>
vars == <<threadVars, listeners, open, mapped, closed, crashed>>

Thread == ServerThread \cup ClientThread

JoinPc   == {"joinRp", "joinFind", "have", "haveIn", "add", "addIn"}
ClosePc  == {"close", "closePublish", "closeSend", "closeCallback"}
LeavePc  == {"leaveRp", "leaveFind", "erase", "eraseIn", "count", "countIn"} \cup ClosePc
ClientPc == {"publish", "send", "drop", "callback", "unmap"}

TypeOK ==
  /\ pc \in [Thread -> {"idle"} \cup JoinPc \cup LeavePc \cup ClientPc]
  /\ conn \in [ServerThread -> Conn \cup {None}]
  /\ todo \in [ClientThread -> SUBSET Conn]
  /\ failed \in [ClientThread -> SUBSET Conn]
  /\ ec \in [ClientThread -> BOOLEAN]
  /\ report \in [ClientThread -> BOOLEAN]
  /\ listeners \in SUBSET Conn
  /\ open \in SUBSET Conn
  /\ mapped \in BOOLEAN
  /\ closed \in BOOLEAN
  /\ crashed \in BOOLEAN

Init ==
  /\ pc = [t \in Thread |-> "idle"]
  /\ conn = [s \in ServerThread |-> None]
  /\ todo = [t \in ClientThread |-> {}]
  /\ failed = [t \in ClientThread |-> {}]
  /\ ec = [t \in ClientThread |-> FALSE]
  /\ report = [t \in ClientThread |-> FALSE]
  /\ listeners \in {{c} : c \in Conn}
  /\ open = Conn
  /\ mapped = TRUE
  /\ closed = FALSE
  /\ crashed = FALSE

HoldsRp(t) == pc[t] \in (JoinPc \cup LeavePc \cup {"unmap"}) \ {"joinRp", "leaveRp"}

\* Faulty variant: the close callback is called from inside publish.
Reads_Callback(t) ==
  pc[t] \in {"haveIn", "countIn", "closeSend", "send", "drop", "callback", "unmap"}

Reads(t)  == pc[t] \in {"haveIn", "countIn", "closeSend", "send", "drop"}
Writes(t) == pc[t] \in {"addIn", "eraseIn"}

\* Faulty variant: the handlers of main.cpp take no lock.
RpFree_NoLock == TRUE

RpFree   == \A t \in Thread : ~HoldsRp(t)
CanWrite == \A t \in Thread : ~Writes(t) /\ ~Reads(t)

\* boost::shared_mutex lets no reader in while a writer waits.
CanRead  == \A t \in Thread : ~Writes(t) /\ pc[t] \notin {"add", "erase"}

Step(t, from, to) == pc[t] = from /\ pc' = [pc EXCEPT ![t] = to]

dataVars  == <<listeners, open, mapped, closed, crashed>>
localVars == <<conn, todo, failed, ec, report>>

-----------------------------------------------------------------------------
(* Taking a mutex: rp_rw_mtx, and m_lmtx shared or exclusive.              *)

TakeRp(t) ==
  /\ RpFree
  /\ Step(t, "joinRp", "joinFind") \/ Step(t, "leaveRp", "leaveFind")
     \/ Step(t, "callback", "unmap")
  /\ UNCHANGED <<localVars, dataVars>>

TakeShared(t) ==
  /\ CanRead
  /\ Step(t, "have", "haveIn") \/ Step(t, "count", "countIn")
     \/ Step(t, "closePublish", "closeSend")
  /\ UNCHANGED <<localVars, dataVars>>

TakeExclusive(t) ==
  /\ CanWrite
  /\ Step(t, "add", "addIn") \/ Step(t, "erase", "eraseIn")
  /\ UNCHANGED <<localVars, dataVars>>

-----------------------------------------------------------------------------
(* The handlers of main.cpp.                                               *)

\* A handler of viewer c starts, at most one at a time (its strand): a message
\* that joins this room or leaves it for another, or the close handler.
StartHandler(s, c) ==
  /\ \A u \in ServerThread : conn[u] # c
  /\ \/ c \in open /\ Step(s, "idle", "joinRp")
     \/ Step(s, "idle", "leaveRp")
  /\ conn' = [conn EXCEPT ![s] = c]
  /\ UNCHANGED <<todo, failed, ec, report, dataVars>>

Return(s) == conn' = [conn EXCEPT ![s] = None]

\* rp_map.count: without the session neither handler has to do with it.
FindNone(s) ==
  /\ ~mapped
  /\ Step(s, "joinFind", "idle") \/ Step(s, "leaveFind", "idle")
  /\ Return(s)
  /\ UNCHANGED <<todo, failed, ec, report, dataVars>>

FindSession(s) ==
  /\ mapped
  /\ Step(s, "joinFind", "have") \/ Step(s, "leaveFind", "erase")
  /\ UNCHANGED <<localVars, dataVars>>

\* Faulty variant: the handle is given up before it is inserted.
HaveListener_EarlyReturn(s) ==
  /\ \/ conn[s] \in listeners /\ Step(s, "haveIn", "idle")
     \/ conn[s] \notin listeners /\ Step(s, "haveIn", "add")
  /\ Return(s)
  /\ UNCHANGED <<todo, failed, ec, report, dataVars>>

HaveListener(s) ==
  /\ \/ conn[s] \in listeners /\ Step(s, "haveIn", "idle") /\ Return(s)
     \/ conn[s] \notin listeners /\ Step(s, "haveIn", "add") /\ UNCHANGED conn
  /\ UNCHANGED <<todo, failed, ec, report, dataVars>>

AddListener(s) ==
  /\ Step(s, "addIn", "idle")
  /\ listeners' = listeners \cup {conn[s]}
  /\ Return(s)
  /\ UNCHANGED <<todo, failed, ec, report, open, mapped, closed, crashed>>

EraseListener(s) ==
  /\ Step(s, "eraseIn", "count")
  /\ listeners' = listeners \ {conn[s]}
  /\ UNCHANGED <<localVars, open, mapped, closed, crashed>>

ListenersCount(s) ==
  /\ \/ listeners = {} /\ Step(s, "countIn", "close") /\ UNCHANGED conn
     \/ listeners # {} /\ Step(s, "countIn", "idle") /\ Return(s)
  /\ UNCHANGED <<todo, failed, ec, report, dataVars>>

\* close() returns, and rp_map.erase.
CloseSession(s) ==
  /\ Step(s, "close", "idle")
  /\ closed' = TRUE
  /\ mapped' = FALSE
  /\ Return(s)
  /\ UNCHANGED <<todo, failed, ec, report, listeners, open, crashed>>

\* close() of a websocket session whose connection is not open gets an error from
\* client.close and reports it.
CloseReports(s) ==
  /\ Platform \in {"huajiao", "YY"}
  /\ Step(s, "close", "closePublish")
  /\ closed' = TRUE
  /\ UNCHANGED <<localVars, listeners, open, mapped, crashed>>

\* There is nobody to publish to.  The callback then asks for rp_rw_mtx, which
\* this thread holds and which is not recursive: no step leads on from there.
ClosePublished(s) ==
  /\ Step(s, "closeSend", "closeCallback")
  /\ UNCHANGED <<localVars, dataVars>>

\* close() of YY cancels a timer that is null before the upstream asks to log in.
CloseCrashes(s) ==
  /\ Platform = "YY"
  /\ pc[s] = "close"
  /\ closed' = TRUE
  /\ crashed' = TRUE
  /\ UNCHANGED <<threadVars, listeners, open, mapped>>

-----------------------------------------------------------------------------
(* publish, and the report that ends with on_platform_close.               *)

StartPublish(t) ==
  /\ Step(t, "idle", "publish")
  /\ report' \in {[report EXCEPT ![t] = b] : b \in BOOLEAN}
  /\ UNCHANGED <<conn, todo, failed, ec, dataVars>>

BeginLoop(t) ==
  /\ CanRead
  /\ Step(t, "publish", "send")
  /\ todo' = [todo EXCEPT ![t] = listeners]
  /\ failed' = [failed EXCEPT ![t] = {}]
  /\ ec' = [ec EXCEPT ![t] = FALSE]
  /\ UNCHANGED <<conn, report, dataVars>>

\* The next listener in the order of the set.  endpoint::send looks at ec
\* before it does anything and connection::send sets it when the connection
\* is not open; on an error the connection is closed, if it is open, and the
\* listener noted.
First(S) == CHOOSE c \in S : \A d \in S : c <= d
SendFails(t, c) == ec[t] \/ c \notin open

\* Faulty variant: a listener is dropped without closing its connection.
Send_NoClose(t) ==
  LET c == First(todo[t])
  IN /\ todo[t] # {}
     /\ pc[t] = "send"
     /\ todo' = [todo EXCEPT ![t] = @ \ {c}]
     /\ ec' = [ec EXCEPT ![t] = SendFails(t, c)]
     /\ failed' = IF SendFails(t, c) THEN [failed EXCEPT ![t] = @ \cup {c}] ELSE failed
     /\ UNCHANGED <<pc, conn, report, listeners, open, mapped, closed, crashed>>

Send(t) ==
  LET c == First(todo[t])
  IN /\ todo[t] # {}
     /\ pc[t] = "send"
     /\ todo' = [todo EXCEPT ![t] = @ \ {c}]
     /\ ec' = [ec EXCEPT ![t] = SendFails(t, c)]
     /\ IF SendFails(t, c)
        THEN open' = open \ {c} /\ failed' = [failed EXCEPT ![t] = @ \cup {c}]
        ELSE UNCHANGED <<open, failed>>
     /\ UNCHANGED <<pc, conn, report, listeners, mapped, closed, crashed>>

EndLoop(t) ==
  /\ todo[t] = {}
  /\ Step(t, "send", "drop")
  /\ UNCHANGED <<localVars, dataVars>>

\* Still under the shared lock.
EraseFailed(t) ==
  \E c \in failed[t] :
    /\ pc[t] = "drop"
    /\ listeners' = listeners \ {c}
    /\ failed' = [failed EXCEPT ![t] = @ \ {c}]
    /\ UNCHANGED <<pc, conn, todo, ec, report, open, mapped, closed, crashed>>

EndPublish(t) ==
  /\ failed[t] = {}
  /\ Step(t, "drop", IF report[t] THEN "callback" ELSE "idle")
  /\ UNCHANGED <<localVars, dataVars>>

OnPlatformClose(t) ==
  /\ Step(t, "unmap", "idle")
  /\ mapped' = FALSE
  /\ UNCHANGED <<localVars, listeners, open, closed, crashed>>

\* A viewer's connection goes down, unless one of its handlers is running.
Lose(c) ==
  /\ c \in open
  /\ \A s \in ServerThread : conn[s] # c
  /\ open' = open \ {c}
  /\ UNCHANGED <<threadVars, listeners, mapped, closed, crashed>>

-----------------------------------------------------------------------------
Handler(s) ==
  \/ FindNone(s) \/ FindSession(s) \/ HaveListener(s) \/ AddListener(s)
  \/ EraseListener(s) \/ ListenersCount(s)
  \/ CloseSession(s) \/ CloseReports(s) \/ ClosePublished(s) \/ CloseCrashes(s)

Publishing(t) ==
  \/ BeginLoop(t) \/ Send(t) \/ EndLoop(t) \/ EraseFailed(t) \/ EndPublish(t)
  \/ OnPlatformClose(t)

\* A thread goes on with what it does.
Advance(t) ==
  \/ t \in ServerThread /\ Handler(t)
  \/ t \in ClientThread /\ Publishing(t)
  \/ TakeRp(t) \/ TakeShared(t) \/ TakeExclusive(t)

Next ==
  /\ ~crashed
  /\ \/ \E t \in Thread : Advance(t)
     \/ \E s \in ServerThread, c \in Conn : StartHandler(s, c)
     \/ \E t \in ClientThread : StartPublish(t)
     \/ \E c \in Conn : Lose(c)

Spec == Init /\ [][Next]_vars

\* A running thread goes on, and a mutex that becomes free again and again is
\* granted to every thread that waits for it (boost::shared_mutex is fair).
Fairness == \A t \in Thread : SF_vars(~crashed /\ Advance(t))

FairSpec == Spec /\ Fairness

-----------------------------------------------------------------------------
(* Properties.                                                             *)

\* platform_base.cpp:8-52 with the comment of main.cpp:24: accesses to the set
\* of listeners may overlap only when all of them read.  publish erases from
\* the set, at 49-51, under the lock that lets other readers in.
InSet(t) == Reads(t) \/ Writes(t)
Modifies(t) == Writes(t) \/ (pc[t] = "drop" /\ failed[t] # {})
NoRace ==
  \A t, u \in Thread : t # u /\ InSet(t) /\ InSet(u) => ~Modifies(t)

\* main.cpp:46-49 and 83-86 look at listeners_count after m_lmtx has been let
\* go: close() is nevertheless called only on a session without listeners, and
\* none is added afterwards, because every way in holds rp_rw_mtx.
ClosedIsEmpty ==
  closed \/ (\E s \in ServerThread : pc[s] = "close") => listeners = {}

\* rp_rw_mtx is taken before m_lmtx by the handlers of main.cpp and after it has
\* been released by a report (dmp_cs.hpp:39-40), so that nobody waits in a
\* circle: every handler and every publish comes to its end, unless a close()
\* crashes the program or reports under rp_rw_mtx.  In the latter case (main.cpp:48
\* with huajiao.cpp:51 or YY.cpp:45) only the threads that need rp_rw_mtx stop
\* for ever: a publish still reaches the viewers and ends.
Hung == \E s \in ServerThread : pc[s] = "closeCallback"
NeedsRp(t) == pc[t] \in {"joinRp", "leaveRp", "callback", "closeCallback"}
ThreadsFinish ==
  \A t \in Thread :
    pc[t] # "idle" ~> pc[t] = "idle" \/ crashed \/ (Hung /\ NeedsRp(t))

\* The operations look like single steps.  A leaving viewer is a listener
\* until its handler has counted, and the session is off the map from then on,
\* also when close() hangs or crashes: nobody looks at rp_map after that.
Leaving == {conn[s] : s \in {u \in ServerThread : pc[u] \in {"count", "countIn"}}}
Closing == \E s \in ServerThread : pc[s] \in ClosePc
Atomic == INSTANCE ListenerSet WITH
  listeners <- listeners \cup Leaving,
  mapped <- mapped /\ ~Closing,
  closed <- closed \/ Closing

\* platform_base.cpp and main.cpp:39-94 together implement ListenerSet: joins,
\* leaves and the closing of an emptied session are atomic, and publish erases
\* only listeners whose connection is not open.
ImplementsAtomic == Atomic!Spec
=============================================================================
