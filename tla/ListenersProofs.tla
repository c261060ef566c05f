--------------------------- MODULE ListenersProofs ---------------------------
(* Proofs about the listeners of a session, for any viewers and threads.   *)
EXTENDS Listeners, WellFoundedInduction, TLAPS

-----------------------------------------------------------------------------
(* The inductive invariant.                                                *)

\* A server thread runs handlers of main.cpp, each for a viewer, and a client
\* thread publishes.
Roles ==
  /\ \A s \in ServerThread : /\ pc[s] \in {"idle"} \cup JoinPc \cup LeavePc
                             /\ conn[s] # None <=> pc[s] # "idle"
  /\ \A t \in ClientThread : pc[t] \in {"idle"} \cup ClientPc

\* rp_rw_mtx has one holder, and nobody else is in the set of listeners with a
\* thread that holds m_lmtx exclusively.
Locks ==
  /\ \A t, u \in Thread : HoldsRp(t) /\ HoldsRp(u) => t = u
  /\ \A t, u \in Thread : Writes(t) /\ (Reads(u) \/ Writes(u)) => t = u

\* A handler that has found the session in rp_map holds rp_rw_mtx, so that it is
\* still there, and a session that is there is closed only by such a handler.
FoundPc == {"have", "haveIn", "add", "addIn", "erase", "eraseIn", "count", "countIn"}
             \cup ClosePc
Found ==
  /\ mapped /\ closed => Closing
  /\ \A s \in ServerThread : pc[s] \in FoundPc => mapped

\* No one joins between a handler's erase and its count.
Counted ==
  \A s \in ServerThread : pc[s] \in {"count", "countIn"} => conn[s] \notin listeners

\* Listeners that a publish has found failing are not open, those it has yet to
\* send to are listeners or not open, and its error code is set by an earlier
\* one.
Failing ==
  \A t \in ClientThread :
    /\ failed[t] \cap open = {}
    /\ pc[t] = "send" => todo[t] \cap open \subseteq listeners
    /\ pc[t] = "send" /\ ec[t] => \E d \in failed[t] : \A c \in todo[t] : d < c

IInv ==
  TypeOK /\ Roles /\ Locks /\ Found /\ Counted /\ ClosedIsEmpty /\ Failing

-----------------------------------------------------------------------------
(* Numbers.                                                                *)

\* A set of numbers that is not empty has a smallest one.
LEMMA Smallest ==
  ASSUME NEW S, S \subseteq Nat, S # {}
  PROVE  \E n \in S : \A m \in S : n <= m
<1> DEFINE R == {ss \in Nat \X Nat : ss[1] < ss[2]}
<1>1. IsWellFoundedOn(R, Nat)
  BY NatLessThanWellFounded DEF OpToRel
<1>2. \A x, y \in Nat : <<y, x>> \in R <=> y < x
  OBVIOUS
<1> HIDE DEF R
<1>3. PICK x \in S : \A y \in S : ~ (<<y, x>> \in R)
  BY <1>1, WFMin
<1>4. \A y \in S : ~ (y < x)
  BY <1>2, <1>3
<1>5. \A y \in S : x <= y
  BY <1>4, SMT
<1> QED
  BY <1>5

\* publish sends to the first of the listeners that are left.
LEMMA FirstIsSmallest ==
  ASSUME NEW S \in SUBSET Conn, S # {}
  PROVE  First(S) \in S /\ \A d \in S : d # First(S) => First(S) < d
<1>1. \E c \in S : \A d \in S : c <= d
  BY ConnAssumption, Smallest
<1>2. First(S) \in S /\ \A d \in S : First(S) <= d
  BY <1>1 DEF First
<1>3. \A d \in S : d \in Nat
  BY ConnAssumption
<1> QED
  BY <1>2, <1>3

-----------------------------------------------------------------------------
(* Type correctness, and who runs what.                                    *)

LEMMA TypeStep ==
  ASSUME TypeOK, Roles, [Next]_vars
  PROVE  TypeOK'
<1> USE DEF TypeOK, JoinPc, ClosePc, LeavePc, ClientPc, Step, Return, Thread, dataVars, localVars,
        threadVars
<1>1. ASSUME NEW t \in Thread, TakeRp(t) \/ TakeShared(t) \/ TakeExclusive(t)
      PROVE  TypeOK'
  BY <1>1 DEF TakeRp, TakeShared, TakeExclusive
<1>2. ASSUME NEW s \in ServerThread, NEW c \in Conn, StartHandler(s, c)
      PROVE  TypeOK'
  BY <1>2 DEF StartHandler
<1>3. ASSUME NEW s \in ServerThread, FindNone(s) \/ FindSession(s) \/ HaveListener(s)
      PROVE  TypeOK'
  BY <1>3 DEF FindNone, FindSession, HaveListener
<1>4. ASSUME NEW s \in ServerThread, AddListener(s)
      PROVE  TypeOK'
  BY <1>4 DEF AddListener, Roles
<1>5. ASSUME NEW s \in ServerThread,
             \/ EraseListener(s) \/ ListenersCount(s) \/ CloseSession(s)
             \/ CloseReports(s) \/ ClosePublished(s) \/ CloseCrashes(s)
      PROVE  TypeOK'
  BY <1>5 DEF EraseListener, ListenersCount, CloseSession, CloseReports, ClosePublished,
              CloseCrashes
<1>6. ASSUME NEW t \in ClientThread, StartPublish(t)
      PROVE  TypeOK'
  BY <1>6 DEF StartPublish
<1>7. ASSUME NEW t \in ClientThread, BeginLoop(t) \/ EndLoop(t) \/ EndPublish(t)
      PROVE  TypeOK'
  BY <1>7 DEF BeginLoop, EndLoop, EndPublish
<1>8. ASSUME NEW t \in ClientThread, Send(t)
      PROVE  TypeOK'
  <2>1. First(todo[t]) \in Conn
    BY <1>8, FirstIsSmallest DEF Send
  <2>2. SendFails(t, First(todo[t])) \in BOOLEAN
    BY DEF SendFails
  <2> QED
    BY <1>8, <2>1, <2>2 DEF Send
<1>9. ASSUME NEW t \in ClientThread, EraseFailed(t) \/ OnPlatformClose(t)
      PROVE  TypeOK'
  BY <1>9 DEF EraseFailed, OnPlatformClose
<1>10. ASSUME NEW c \in Conn, Lose(c)
       PROVE  TypeOK'
  BY <1>10 DEF Lose
<1>11. ASSUME UNCHANGED vars
       PROVE  TypeOK'
  BY <1>11 DEF vars
<1> QED
  BY <1>1, <1>2, <1>3, <1>4, <1>5, <1>6, <1>7, <1>8, <1>9, <1>10, <1>11
     DEF Next, Advance, Handler, Publishing

LEMMA RolesStep ==
  ASSUME TypeOK, Roles, [Next]_vars
  PROVE  Roles'
<1> USE NoneAssumption, ThreadAssumption
    DEF TypeOK, Roles, JoinPc, ClosePc, LeavePc, ClientPc, Step, Return, Thread, dataVars,
        localVars, threadVars
<1>1. ASSUME NEW t \in Thread, TakeRp(t)
      PROVE  Roles'
  BY <1>1 DEF TakeRp
<1>2. ASSUME NEW t \in Thread, TakeShared(t) \/ TakeExclusive(t)
      PROVE  Roles'
  BY <1>2 DEF TakeShared, TakeExclusive
<1>3. ASSUME NEW s \in ServerThread, NEW c \in Conn, StartHandler(s, c)
      PROVE  Roles'
  BY <1>3 DEF StartHandler
<1>4. ASSUME NEW s \in ServerThread, Handler(s)
      PROVE  Roles'
  BY <1>4 DEF Handler, FindNone, FindSession, HaveListener, AddListener, EraseListener,
              ListenersCount, CloseSession, CloseReports, ClosePublished, CloseCrashes
<1>5. ASSUME NEW t \in ClientThread, StartPublish(t) \/ Publishing(t)
      PROVE  Roles'
  BY <1>5 DEF StartPublish, Publishing, BeginLoop, Send, EndLoop, EraseFailed, EndPublish,
              OnPlatformClose
<1>6. ASSUME (\E c \in Conn : Lose(c)) \/ UNCHANGED vars
      PROVE  Roles'
  BY <1>6 DEF Lose, vars
<1> QED
  BY <1>1, <1>2, <1>3, <1>4, <1>5, <1>6 DEF Next, Advance

-----------------------------------------------------------------------------
(* The mutexes.                                                            *)

\* A step of a thread that takes no mutex.
LEMMA NoLockTaken ==
  ASSUME TypeOK, Locks, NEW t \in Thread, NEW from, NEW to, Step(t, from, to),
         HoldsRp(t)' => HoldsRp(t),
         Reads(t)' => Reads(t),
         Writes(t)' => Writes(t)
  PROVE  Locks'
<1>1. \A u \in Thread : u # t => pc'[u] = pc[u]
  BY DEF Step, TypeOK
<1>2. \A u \in Thread : /\ HoldsRp(u)' => HoldsRp(u)
                        /\ Reads(u)' => Reads(u)
                        /\ Writes(u)' => Writes(u)
  BY <1>1 DEF HoldsRp, Reads, Writes
<1> QED
  BY <1>2 DEF Locks

LEMMA LocksStep ==
  ASSUME TypeOK, Locks, [Next]_vars
  PROVE  Locks'
<1> USE DEF TypeOK, JoinPc, ClosePc, LeavePc, Step, HoldsRp, Reads, Writes
<1>1. ASSUME NEW t \in Thread, TakeRp(t)
      PROVE  Locks'
  BY <1>1 DEF TakeRp, RpFree, Locks
<1>2. ASSUME NEW t \in Thread, TakeShared(t)
      PROVE  Locks'
  BY <1>2 DEF TakeShared, CanRead, Locks
<1>3. ASSUME NEW t \in Thread, TakeExclusive(t)
      PROVE  Locks'
  BY <1>3 DEF TakeExclusive, CanWrite, Locks
<1>4. ASSUME NEW t \in ClientThread, BeginLoop(t)
      PROVE  Locks'
  BY <1>4 DEF BeginLoop, CanRead, Locks, Thread
<1>5. ASSUME NEW s \in ServerThread, Handler(s), ~CloseCrashes(s)
      PROVE  Locks'
  <2>1. PICK from, to : Step(s, from, to) /\ HoldsRp(s)
    BY <1>5 DEF Handler, FindNone, FindSession, HaveListener, AddListener, EraseListener,
                ListenersCount, CloseSession, CloseReports, ClosePublished
  <2>2. ~Reads(s)' /\ ~Writes(s)'
    BY <1>5 DEF Handler, FindNone, FindSession, HaveListener, AddListener, EraseListener,
                ListenersCount, CloseSession, CloseReports, ClosePublished, Thread
  <2> QED
    BY <2>1, <2>2, NoLockTaken DEF Thread
<1>6. ASSUME NEW s \in ServerThread, NEW c \in Conn, StartHandler(s, c)
      PROVE  Locks'
  <2>1. PICK to : Step(s, "idle", to) /\ to \in {"joinRp", "leaveRp"}
    BY <1>6 DEF StartHandler
  <2>2. ~HoldsRp(s)' /\ ~Reads(s)' /\ ~Writes(s)'
    BY <2>1 DEF Thread
  <2> QED
    BY <2>1, <2>2, NoLockTaken DEF Thread
<1>7. ASSUME NEW t \in ClientThread, StartPublish(t) \/ EndPublish(t) \/ OnPlatformClose(t)
      PROVE  Locks'
  <2>1. PICK from, to : Step(t, from, to)
    BY <1>7 DEF StartPublish, EndPublish, OnPlatformClose
  <2>2. ~HoldsRp(t)' /\ ~Reads(t)' /\ ~Writes(t)'
    BY <1>7 DEF StartPublish, EndPublish, OnPlatformClose, Thread
  <2> QED
    BY <2>1, <2>2, NoLockTaken DEF Thread
<1>8. ASSUME NEW t \in ClientThread, EndLoop(t)
      PROVE  Locks'
  BY <1>8, NoLockTaken DEF EndLoop, Thread
<1>9. ASSUME UNCHANGED pc
      PROVE  Locks'
  BY <1>9 DEF Locks
<1>10. ASSUME \/ \E t \in ClientThread : Send(t) \/ EraseFailed(t)
              \/ \E s \in ServerThread : CloseCrashes(s)
       PROVE  Locks'
  BY <1>9, <1>10 DEF Send, EraseFailed, CloseCrashes, threadVars
<1>11. ASSUME (\E c \in Conn : Lose(c)) \/ UNCHANGED vars
       PROVE  Locks'
  BY <1>9, <1>11 DEF Lose, vars, threadVars
<1> QED
  BY <1>1, <1>2, <1>3, <1>4, <1>5, <1>6, <1>7, <1>8, <1>10, <1>11
     DEF Next, Advance, Publishing

-----------------------------------------------------------------------------
(* The session's end.                                                      *)

\* A handler that has found the session keeps rp_rw_mtx until it returns.
LEMMA FoundStep ==
  ASSUME TypeOK, Roles, Locks, Found, [Next]_vars
  PROVE  Found'
<1> USE ThreadAssumption DEF TypeOK, FoundPc, ClosePc, Closing, Step, Thread, dataVars, Found
<1>1. ASSUME NEW t \in Thread, TakeRp(t) \/ TakeShared(t) \/ TakeExclusive(t)
      PROVE  Found'
  BY <1>1 DEF TakeRp, TakeShared, TakeExclusive
<1>2. ASSUME NEW s \in ServerThread, NEW c \in Conn, StartHandler(s, c)
      PROVE  Found'
  BY <1>2 DEF StartHandler
<1>3. ASSUME NEW s \in ServerThread,
             \/ FindNone(s) \/ FindSession(s) \/ HaveListener(s) \/ AddListener(s)
             \/ EraseListener(s) \/ ListenersCount(s)
      PROVE  Found'
  BY <1>3 DEF FindNone, FindSession, HaveListener, AddListener, EraseListener,
              ListenersCount
<1>4. ASSUME NEW t \in Thread, HoldsRp(t), NEW from, Step(t, from, "idle")
      PROVE  \A s \in ServerThread : pc'[s] \notin FoundPc
  BY <1>4 DEF Locks, HoldsRp, JoinPc, ClosePc, LeavePc
<1>5. ASSUME NEW s \in ServerThread, CloseSession(s)
      PROVE  Found'
  <2>1. HoldsRp(s)
    BY <1>5 DEF CloseSession, HoldsRp, JoinPc, ClosePc, LeavePc
  <2> QED
    BY <1>4, <1>5, <2>1 DEF CloseSession
<1>6. ASSUME NEW t \in ClientThread, OnPlatformClose(t)
      PROVE  Found'
  <2>1. HoldsRp(t)
    BY <1>6 DEF OnPlatformClose, HoldsRp, JoinPc, ClosePc, LeavePc
  <2> QED
    BY <1>4, <1>6, <2>1 DEF OnPlatformClose
<1>7. ASSUME NEW t \in ClientThread,
             StartPublish(t) \/ BeginLoop(t) \/ Send(t) \/ EndLoop(t)
      PROVE  Found'
  BY <1>7 DEF StartPublish, BeginLoop, Send, EndLoop
<1>8. ASSUME NEW t \in ClientThread, EraseFailed(t) \/ EndPublish(t)
      PROVE  Found'
  BY <1>8 DEF EraseFailed, EndPublish
<1>9. ASSUME (\E c \in Conn : Lose(c)) \/ UNCHANGED vars
      PROVE  Found'
  BY <1>9 DEF Lose, vars, threadVars
<1>10. ASSUME NEW s \in ServerThread, CloseReports(s) \/ ClosePublished(s)
       PROVE  Found'
  BY <1>10 DEF CloseReports, ClosePublished
<1>11. ASSUME NEW s \in ServerThread, CloseCrashes(s)
       PROVE  Found'
  BY <1>11 DEF CloseCrashes, threadVars
<1> QED
  BY <1>1, <1>2, <1>3, <1>5, <1>6, <1>7, <1>8, <1>9, <1>10, <1>11
     DEF Next, Advance, Handler, Publishing

\* Only the holder of rp_rw_mtx is at a place where the session is known.
LEMMA OneFound ==
  ASSUME TypeOK, Locks, NEW s \in ServerThread, pc[s] \in FoundPc,
         NEW u \in ServerThread, pc[u] \in FoundPc
  PROVE  s = u
BY DEF Locks, HoldsRp, FoundPc, JoinPc, ClosePc, LeavePc, Thread

LEMMA CountedStep ==
  ASSUME TypeOK, Roles, Locks, Counted, [Next]_vars
  PROVE  Counted'
<1> USE NoneAssumption, ThreadAssumption
    DEF TypeOK, Step, Return, Thread, dataVars, localVars, Counted
<1>1. ASSUME NEW t \in Thread, TakeRp(t) \/ TakeShared(t) \/ TakeExclusive(t)
      PROVE  Counted'
  BY <1>1 DEF TakeRp, TakeShared, TakeExclusive
<1>2. ASSUME NEW s \in ServerThread, NEW c \in Conn, StartHandler(s, c)
      PROVE  Counted'
  BY <1>2 DEF StartHandler
<1>3. ASSUME NEW s \in ServerThread,
             \/ FindNone(s) \/ FindSession(s) \/ HaveListener(s) \/ ListenersCount(s)
             \/ CloseSession(s) \/ CloseReports(s) \/ ClosePublished(s) \/ CloseCrashes(s)
      PROVE  Counted'
  BY <1>3 DEF FindNone, FindSession, HaveListener, ListenersCount, CloseSession,
              CloseReports, ClosePublished, CloseCrashes, threadVars
<1>4. ASSUME NEW s \in ServerThread, AddListener(s)
      PROVE  Counted'
  <2>1. \A u \in ServerThread : pc[u] \in FoundPc => u = s
    BY <1>4, OneFound DEF AddListener, FoundPc
  <2>2. \A u \in ServerThread : pc'[u] \notin {"count", "countIn"}
    BY <1>4, <2>1 DEF AddListener, FoundPc
  <2> QED
    BY <2>2
<1>5. ASSUME NEW s \in ServerThread, EraseListener(s)
      PROVE  Counted'
  BY <1>5 DEF EraseListener
<1>6. ASSUME NEW t \in ClientThread, StartPublish(t) \/ Publishing(t)
      PROVE  Counted'
  <2>1. conn' = conn /\ listeners' \subseteq listeners
    BY <1>6 DEF StartPublish, Publishing, BeginLoop, Send, EndLoop, EraseFailed,
                EndPublish, OnPlatformClose
  <2>2. \A s \in ServerThread : pc'[s] = pc[s]
    BY <1>6 DEF StartPublish, Publishing, BeginLoop, Send, EndLoop, EraseFailed,
                EndPublish, OnPlatformClose
  <2> QED
    BY <2>1, <2>2
<1>7. ASSUME (\E c \in Conn : Lose(c)) \/ UNCHANGED vars
      PROVE  Counted'
  BY <1>7 DEF Lose, vars, threadVars
<1> QED
  BY <1>1, <1>2, <1>3, <1>4, <1>5, <1>6, <1>7 DEF Next, Advance, Handler

\* Nobody is added to a session that is closed or about to be.
LEMMA ClosedStep ==
  ASSUME TypeOK, Roles, Locks, Found, ClosedIsEmpty, [Next]_vars
  PROVE  ClosedIsEmpty'
<1> USE ThreadAssumption DEF TypeOK, Step, Thread, dataVars, localVars, ClosedIsEmpty
<1>1. ASSUME NEW t \in Thread, TakeRp(t) \/ TakeShared(t) \/ TakeExclusive(t)
      PROVE  ClosedIsEmpty'
  BY <1>1 DEF TakeRp, TakeShared, TakeExclusive
<1>2. ASSUME NEW s \in ServerThread, NEW c \in Conn, StartHandler(s, c)
      PROVE  ClosedIsEmpty'
  BY <1>2 DEF StartHandler
<1>3. ASSUME NEW s \in ServerThread,
             \/ FindNone(s) \/ FindSession(s) \/ HaveListener(s) \/ ListenersCount(s)
             \/ EraseListener(s)
      PROVE  ClosedIsEmpty'
  BY <1>3 DEF FindNone, FindSession, HaveListener, ListenersCount, EraseListener
<1>4. ASSUME NEW s \in ServerThread,
             CloseSession(s) \/ CloseReports(s) \/ ClosePublished(s) \/ CloseCrashes(s)
      PROVE  ClosedIsEmpty'
  BY <1>4 DEF CloseSession, CloseReports, ClosePublished, CloseCrashes, threadVars
<1>5. ASSUME NEW s \in ServerThread, AddListener(s)
      PROVE  ClosedIsEmpty'
  <2>1. \A u \in ServerThread : pc[u] \in FoundPc => u = s
    BY <1>5, OneFound DEF AddListener, FoundPc
  <2>2. ~closed
    <3>1. mapped
      BY <1>5 DEF AddListener, Found, FoundPc
    <3>2. ~Closing
      BY <1>5, <2>1 DEF AddListener, Closing, FoundPc, ClosePc
    <3> QED
      BY <3>1, <3>2 DEF Found
  <2>3. \A u \in ServerThread : pc'[u] # "close"
    BY <1>5, <2>1 DEF AddListener, FoundPc, ClosePc
  <2> QED
    BY <1>5, <2>2, <2>3 DEF AddListener
<1>6. ASSUME NEW t \in ClientThread, StartPublish(t) \/ Publishing(t)
      PROVE  ClosedIsEmpty'
  <2>1. closed' = closed /\ listeners' \subseteq listeners
    BY <1>6 DEF StartPublish, Publishing, BeginLoop, Send, EndLoop, EraseFailed,
                EndPublish, OnPlatformClose
  <2>2. \A s \in ServerThread : pc'[s] = pc[s]
    BY <1>6 DEF StartPublish, Publishing, BeginLoop, Send, EndLoop, EraseFailed,
                EndPublish, OnPlatformClose
  <2> QED
    BY <2>1, <2>2
<1>7. ASSUME (\E c \in Conn : Lose(c)) \/ UNCHANGED vars
      PROVE  ClosedIsEmpty'
  BY <1>7 DEF Lose, vars, threadVars
<1> QED
  BY <1>1, <1>2, <1>3, <1>4, <1>5, <1>6, <1>7 DEF Next, Advance, Handler

-----------------------------------------------------------------------------
(* publish.                                                                *)

\* A step that leaves the publishes alone, opens no connection and erases none
\* that a publish is sending to.
LEMMA FailingKept ==
  ASSUME TypeOK, Failing, UNCHANGED <<todo, failed, ec>>, open' \subseteq open,
         \A t \in ClientThread : pc'[t] = "send" => pc[t] = "send",
         \A t \in ClientThread : pc[t] = "send" => listeners \cap open' \subseteq listeners'
  PROVE  Failing'
BY DEF Failing

LEMMA FailingStep ==
  ASSUME TypeOK, Roles, Locks, Failing, [Next]_vars
  PROVE  Failing'
<1> USE ThreadAssumption DEF TypeOK, Step, Thread, dataVars, localVars
<1>1. ASSUME NEW t \in Thread, TakeRp(t) \/ TakeShared(t) \/ TakeExclusive(t)
      PROVE  Failing'
  BY <1>1, FailingKept DEF TakeRp, TakeShared, TakeExclusive
<1>2. ASSUME NEW s \in ServerThread, NEW c \in Conn, StartHandler(s, c)
      PROVE  Failing'
  BY <1>2, FailingKept DEF StartHandler
<1>3. ASSUME NEW s \in ServerThread,
             \/ FindNone(s) \/ FindSession(s) \/ HaveListener(s) \/ AddListener(s)
             \/ ListenersCount(s) \/ CloseSession(s) \/ CloseReports(s)
             \/ ClosePublished(s)
      PROVE  Failing'
  BY <1>3, FailingKept DEF FindNone, FindSession, HaveListener, AddListener,
                           ListenersCount, CloseSession, CloseReports, ClosePublished
<1>4. ASSUME NEW s \in ServerThread, EraseListener(s)
      PROVE  Failing'
  <2>1. \A t \in ClientThread : pc[t] # "send"
    BY <1>4 DEF EraseListener, Locks, Reads, Writes
  <2> QED
    BY <1>4, <2>1, FailingKept DEF EraseListener
<1>5. ASSUME NEW t \in ClientThread, StartPublish(t) \/ OnPlatformClose(t)
      PROVE  Failing'
  BY <1>5, FailingKept DEF StartPublish, OnPlatformClose
<1>6. ASSUME NEW t \in ClientThread, EndLoop(t) \/ EndPublish(t)
      PROVE  Failing'
  BY <1>6, FailingKept DEF EndLoop, EndPublish
<1>7. ASSUME NEW t \in ClientThread, BeginLoop(t)
      PROVE  Failing'
  BY <1>7 DEF BeginLoop, Failing
<1>8. ASSUME NEW t \in ClientThread, EraseFailed(t)
      PROVE  Failing'
  <2>1. PICK c \in failed[t] : /\ listeners' = listeners \ {c}
                               /\ failed' = [failed EXCEPT ![t] = @ \ {c}]
    BY <1>8 DEF EraseFailed
  <2>2. c \notin open
    BY DEF Failing
  <2>3. pc[t] = "drop" /\ UNCHANGED <<pc, todo, ec, open>>
    BY <1>8 DEF EraseFailed
  <2> QED
    BY <2>1, <2>2, <2>3 DEF Failing
<1>9. ASSUME NEW t \in ClientThread, Send(t)
      PROVE  Failing'
  <2> DEFINE c == First(todo[t])
  <2>1. c \in todo[t] /\ \A d \in todo[t] : d # c => c < d
    BY <1>9, FirstIsSmallest DEF Send
  <2>2. /\ pc[t] = "send" /\ UNCHANGED <<pc, listeners>>
        /\ todo' = [todo EXCEPT ![t] = @ \ {c}]
        /\ ec' = [ec EXCEPT ![t] = SendFails(t, c)]
    BY <1>9 DEF Send
  <2> HIDE DEF c
  <2>3. CASE SendFails(t, c)
    <3>1. open' = open \ {c} /\ failed' = [failed EXCEPT ![t] = @ \cup {c}]
      BY <1>9, <2>3 DEF Send, c
    <3>2. c \in failed'[t] /\ \A d \in todo'[t] : c < d
      BY <2>1, <2>2, <3>1
    <3>3. \A u \in ClientThread : u # t => UNCHANGED <<failed[u], todo[u], ec[u]>>
      BY <2>2, <3>1
    <3>4. \A u \in ClientThread : todo'[u] \subseteq todo[u]
      BY <2>2
    <3> QED
      BY <2>2, <3>1, <3>2, <3>3, <3>4 DEF Failing
  <2>4. CASE ~SendFails(t, c)
    <3>1. UNCHANGED <<open, failed>>
      BY <1>9, <2>4 DEF Send, c
    <3> QED
      BY <2>2, <2>4, <3>1 DEF Failing
  <2> QED
    BY <2>3, <2>4
<1>10. ASSUME \/ \E c \in Conn : Lose(c)
              \/ \E s \in ServerThread : CloseCrashes(s)
              \/ UNCHANGED vars
       PROVE  Failing'
  BY <1>10, FailingKept DEF Lose, CloseCrashes, vars, threadVars
<1> QED
  BY <1>1, <1>2, <1>3, <1>4, <1>5, <1>6, <1>7, <1>8, <1>9, <1>10
     DEF Next, Advance, Handler, Publishing

-----------------------------------------------------------------------------
(* The invariant.                                                          *)

LEMMA InitIInv == Init => IInv
<1> SUFFICES ASSUME Init PROVE IInv
  OBVIOUS
<1>1. TypeOK /\ Roles
  BY NoneAssumption, ThreadAssumption DEF Init, TypeOK, Roles, Thread
<1>2. Locks /\ Found /\ Counted /\ ClosedIsEmpty
  BY DEF Init, Locks, HoldsRp, JoinPc, ClosePc, LeavePc, Reads, Writes, Found, FoundPc, Counted,
         ClosedIsEmpty, Thread
<1>3. Failing
  BY DEF Init, Failing, Thread
<1> QED
  BY <1>1, <1>2, <1>3 DEF IInv

LEMMA Invariant == Spec => []IInv
<1>1. IInv /\ [Next]_vars => IInv'
  BY TypeStep, RolesStep, LocksStep, FoundStep, CountedStep, ClosedStep, FailingStep
     DEF IInv
<1> QED
  BY <1>1, InitIInv, PTL DEF Spec

\* The types of the state of the listeners and of the threads that use them.
THEOREM TypeCorrect == Spec => []TypeOK
<1>1. IInv => TypeOK
  BY DEF IInv
<1> QED
  BY <1>1, Invariant, PTL

\* close() is called on a session without listeners (main.cpp:46-49, 83-86) and
\* none joins it afterwards, although the count was taken under m_lmtx, which has
\* been let go of by then: joining holds rp_rw_mtx, too.
THEOREM ClosedHasNone == Spec => []ClosedIsEmpty
<1>1. IInv => ClosedIsEmpty
  BY DEF IInv
<1> QED
  BY <1>1, Invariant, PTL

\* boost::shared_mutex as platform_base.cpp uses it: rp_rw_mtx has one holder at a
\* time, and add and erase of a viewer are alone in the set of listeners.
THEOREM MutexesHold == Spec => []Locks
<1>1. IInv => Locks
  BY DEF IInv
<1> QED
  BY <1>1, Invariant, PTL

-----------------------------------------------------------------------------
(* The refinement of ListenerSet.                                          *)

\* A step that no viewer leaves or counts in, and that changes nothing shared.
LEMMA Stutters ==
  ASSUME UNCHANGED dataVars, Leaving' = Leaving, Closing' = Closing
  PROVE  UNCHANGED Atomic!vars
BY DEF dataVars, Atomic!vars

\* Where a handler is from its erase on.
EndPc == {"count", "countIn"} \cup ClosePc

\* What a thread outside of a handler's end does leaves Leaving and Closing alone.
LEMMA Bystander ==
  ASSUME TypeOK, NEW t \in Thread, NEW from, NEW to, Step(t, from, to),
         from \notin EndPc,
         to \notin EndPc,
         \A s \in ServerThread : s # t => conn'[s] = conn[s]
  PROVE  Leaving' = Leaving /\ Closing' = Closing
<1>1. \A s \in ServerThread : pc[s] \in EndPc =>
        s # t /\ pc'[s] = pc[s] /\ conn'[s] = conn[s]
  BY DEF Step, TypeOK, Thread
<1>2. \A s \in ServerThread : pc'[s] \in EndPc => pc'[s] = pc[s]
  BY DEF Step, TypeOK, Thread
<1> QED
  BY <1>1, <1>2 DEF Leaving, Closing, EndPc

\* The threads' own steps.
LEMMA OwnStep ==
  ASSUME TypeOK, Roles,
         \/ \E t \in Thread : TakeRp(t) \/ TakeShared(t) \/ TakeExclusive(t)
         \/ \E s \in ServerThread, c \in Conn : StartHandler(s, c)
         \/ \E s \in ServerThread : FindNone(s) \/ FindSession(s) \/ HaveListener(s)
         \/ \E t \in ClientThread :
              StartPublish(t) \/ BeginLoop(t) \/ EndLoop(t) \/ EndPublish(t)
  PROVE  UNCHANGED Atomic!vars
<1> USE ThreadAssumption DEF Thread, Return, localVars, EndPc, ClosePc
<1>1. ASSUME NEW t \in Thread, TakeRp(t) \/ TakeExclusive(t)
      PROVE  UNCHANGED Atomic!vars
  <2>1. PICK from, to : Step(t, from, to)
                        /\ from \notin EndPc
                        /\ to \notin EndPc
    BY <1>1 DEF TakeRp, TakeExclusive
  <2>2. UNCHANGED <<conn, dataVars>>
    BY <1>1 DEF TakeRp, TakeExclusive
  <2> QED
    BY <2>1, <2>2, Bystander, Stutters
<1>2. ASSUME NEW t \in Thread, TakeShared(t)
      PROVE  UNCHANGED Atomic!vars
  <2>1. UNCHANGED <<conn, dataVars>>
    BY <1>2 DEF TakeShared
  <2>2. \A s \in ServerThread : pc'[s] \in {"count", "countIn"} <=> pc[s] \in {"count", "countIn"}
    BY <1>2 DEF TakeShared, Step, TypeOK
  <2>3. \A s \in ServerThread : pc'[s] \in ClosePc <=> pc[s] \in ClosePc
    BY <1>2 DEF TakeShared, Step, TypeOK
  <2>4. Leaving' = Leaving /\ Closing' = Closing
    BY <2>1, <2>2, <2>3 DEF Leaving, Closing
  <2> QED
    BY <2>1, <2>4, Stutters
<1>3. ASSUME NEW s \in ServerThread,
             \/ \E c \in Conn : StartHandler(s, c)
             \/ FindNone(s) \/ FindSession(s) \/ HaveListener(s)
      PROVE  UNCHANGED Atomic!vars
  <2>1. PICK from, to : Step(s, from, to)
                        /\ from \notin EndPc
                        /\ to \notin EndPc
    BY <1>3 DEF StartHandler, FindNone, FindSession, HaveListener
  <2>2. UNCHANGED dataVars /\ \A u \in ServerThread : u # s => conn'[u] = conn[u]
    BY <1>3 DEF StartHandler, FindNone, FindSession, HaveListener, TypeOK
  <2> QED
    BY <2>1, <2>2, Bystander, Stutters
<1>4. ASSUME NEW t \in ClientThread,
             StartPublish(t) \/ BeginLoop(t) \/ EndLoop(t) \/ EndPublish(t)
      PROVE  UNCHANGED Atomic!vars
  <2>1. PICK from, to : Step(t, from, to)
                        /\ from \notin EndPc
                        /\ to \notin EndPc
    <3>1. ASSUME EndPublish(t)
          PROVE  Step(t, "drop", "callback") \/ Step(t, "drop", "idle")
      BY <3>1 DEF EndPublish
    <3> QED
      BY <1>4, <3>1 DEF StartPublish, BeginLoop, EndLoop
  <2>2. UNCHANGED <<conn, dataVars>>
    BY <1>4 DEF StartPublish, BeginLoop, EndLoop, EndPublish
  <2> QED
    BY <2>1, <2>2, Bystander, Stutters
<1> QED
  BY <1>1, <1>2, <1>3, <1>4

\* While a handler is at a place where the session is known, no other leaves.
LEMMA Alone ==
  ASSUME TypeOK, Roles, Locks, Found, NEW s \in ServerThread, pc[s] \in FoundPc \ ClosePc
  PROVE  /\ mapped /\ ~closed /\ ~Closing
         /\ conn[s] \in Conn
         /\ Leaving = IF pc[s] \in {"count", "countIn"} THEN {conn[s]} ELSE {}
<1>1. mapped
  BY DEF Found
<1>2. \A u \in ServerThread : pc[u] \in FoundPc => u = s
  BY OneFound
<1>3. ~Closing
  BY <1>2 DEF Closing, FoundPc
<1>4. conn[s] \in Conn
  BY DEF Roles, TypeOK, FoundPc
<1>5. \A u \in ServerThread : pc[u] \in {"count", "countIn"} => u = s
  BY <1>2 DEF FoundPc
<1>6. Leaving = IF pc[s] \in {"count", "countIn"} THEN {conn[s]} ELSE {}
  BY <1>5 DEF Leaving
<1>7. ~closed
  BY <1>1, <1>3 DEF Found
<1> QED
  BY <1>1, <1>3, <1>4, <1>6, <1>7

\* The steps of a handler that joins, leaves or closes.
LEMMA HandlerStep ==
  ASSUME IInv, IInv', NEW s \in ServerThread,
         \/ AddListener(s) \/ EraseListener(s) \/ ListenersCount(s)
         \/ CloseSession(s) \/ CloseReports(s) \/ ClosePublished(s) \/ CloseCrashes(s)
  PROVE  Atomic!Next \/ UNCHANGED Atomic!vars
<1> USE DEF IInv, ClosePc, EndPc
<1>1. ASSUME AddListener(s)
      PROVE  Atomic!Join(conn[s]) /\ conn[s] \in Conn
  <2>1. pc[s] = "addIn" /\ pc' = [pc EXCEPT ![s] = "idle"]
        /\ listeners' = listeners \cup {conn[s]} /\ UNCHANGED <<open, mapped, closed>>
    BY <1>1 DEF AddListener, Step
  <2>2. mapped /\ ~Closing /\ conn[s] \in Conn /\ Leaving = {}
    BY <2>1, Alone DEF FoundPc
  <2>3. Leaving' = Leaving /\ Closing' = Closing
    BY <1>1, Bystander DEF AddListener, Return, TypeOK, Thread
  <2> QED
    BY <2>1, <2>2, <2>3 DEF Atomic!Join
<1>2. ASSUME EraseListener(s)
      PROVE  Atomic!Join(conn[s]) /\ conn[s] \in Conn
  <2>1. pc[s] = "eraseIn" /\ pc'[s] = "count" /\ conn' = conn
        /\ listeners' = listeners \ {conn[s]} /\ UNCHANGED <<open, mapped, closed>>
    BY <1>2 DEF EraseListener, Step, TypeOK, Thread, localVars
  <2>2. mapped /\ ~closed /\ ~Closing /\ conn[s] \in Conn /\ Leaving = {}
    BY <2>1, Alone DEF FoundPc
  <2>3. pc'[s] \in FoundPc \ ClosePc
    BY <2>1 DEF FoundPc
  <2>4. \A u \in ServerThread : u # s => pc'[u] = pc[u]
    BY <1>2 DEF EraseListener, Step, TypeOK, Thread
  <2>5. \A u \in ServerThread : pc[u] \in FoundPc => u = s
    BY <2>1, OneFound DEF FoundPc
  <2>6. ~Closing'
    BY <2>1, <2>4, <2>5 DEF Closing, FoundPc
  <2>7. Leaving' = {conn[s]}
    BY <2>1, <2>4, <2>5 DEF Leaving, FoundPc
  <2> QED
    BY <2>1, <2>2, <2>6, <2>7 DEF Atomic!Join
<1>3. ASSUME ListenersCount(s)
      PROVE  Atomic!Leave(conn[s]) /\ conn[s] \in Conn
  <2>1. pc[s] = "countIn" /\ UNCHANGED dataVars
        /\ \A u \in ServerThread : u # s => pc'[u] = pc[u]
    BY <1>3 DEF ListenersCount, Step, TypeOK, Thread
  <2>2. mapped /\ ~closed /\ ~Closing /\ conn[s] \in Conn /\ Leaving = {conn[s]}
    BY <2>1, Alone DEF FoundPc
  <2>3. conn[s] \notin listeners
    BY <2>1 DEF Counted
  <2>4. \A u \in ServerThread : pc[u] \in FoundPc => u = s
    BY <2>1, OneFound DEF FoundPc
  <2>5. pc'[s] = IF listeners = {} THEN "close" ELSE "idle"
    BY <1>3 DEF ListenersCount, Step, TypeOK, Thread
  <2>6. Leaving' = {}
    BY <2>1, <2>4, <2>5 DEF Leaving, FoundPc
  <2>7. Closing' <=> listeners = {}
    BY <2>1, <2>4, <2>5 DEF Closing, FoundPc
  <2> QED
    BY <2>1, <2>2, <2>3, <2>6, <2>7 DEF Atomic!Leave, dataVars
<1>4. ASSUME CloseSession(s)
      PROVE  UNCHANGED Atomic!vars
  <2>1. /\ pc[s] = "close" /\ pc'[s] = "idle" /\ closed' /\ ~mapped'
        /\ UNCHANGED <<listeners, open>>
        /\ \A u \in ServerThread : u # s => pc'[u] = pc[u] /\ conn'[u] = conn[u]
    BY <1>4 DEF CloseSession, Step, Return, TypeOK, Thread
  <2>2. Closing
    BY <2>1 DEF Closing
  <2>3. Leaving' = Leaving
    BY <2>1 DEF Leaving
  <2> QED
    BY <2>1, <2>2, <2>3 DEF Atomic!vars, TypeOK
<1>5. ASSUME CloseReports(s) \/ ClosePublished(s) \/ CloseCrashes(s)
      PROVE  UNCHANGED Atomic!vars
  <2>1. /\ pc[s] \in ClosePc /\ pc'[s] \in ClosePc
        /\ UNCHANGED <<conn, listeners, open, mapped>>
        /\ \A u \in ServerThread : u # s => pc'[u] = pc[u]
    BY <1>5 DEF CloseReports, ClosePublished, CloseCrashes, Step, TypeOK, Thread,
                threadVars, localVars, dataVars
  <2>2. Closing /\ Closing'
    BY <2>1 DEF Closing
  <2>3. \A u \in ServerThread : pc'[u] \in {"count", "countIn"} <=> pc[u] \in {"count", "countIn"}
    BY <2>1
  <2>4. Leaving' = Leaving
    BY <2>1, <2>3 DEF Leaving
  <2> QED
    BY <2>1, <2>2, <2>4 DEF Atomic!vars
<1> QED
  BY <1>1, <1>2, <1>3, <1>4, <1>5 DEF Atomic!Next

\* The steps of a publish and a report that change what is shared.
LEMMA PublishStep ==
  ASSUME IInv, NEW t \in ClientThread, Send(t) \/ EraseFailed(t) \/ OnPlatformClose(t)
  PROVE  Atomic!Next \/ UNCHANGED Atomic!vars
<1> USE DEF IInv
<1>1. ASSUME Send(t)
      PROVE  Atomic!Next \/ UNCHANGED Atomic!vars
  <2> DEFINE c == First(todo[t])
  <2>1. c \in todo[t] /\ c \in Conn
    BY <1>1, FirstIsSmallest DEF Send, TypeOK
  <2>2. pc[t] = "send" /\ UNCHANGED <<pc, conn, listeners, mapped, closed>>
    BY <1>1 DEF Send
  <2>3. Leaving' = Leaving /\ Closing' = Closing
    BY <2>2 DEF Leaving, Closing
  <2>4. CASE c \in open /\ ec[t]
    <3>1. open' = open \ {c}
      BY <1>1, <2>4 DEF Send, SendFails
    <3>2. c \in listeners
      BY <2>1, <2>2, <2>4 DEF Failing
    <3>3. PICK d \in failed[t] : d < c
      BY <2>1, <2>2, <2>4 DEF Failing
    <3>4. d \in Conn \ open
      BY <3>3 DEF Failing, TypeOK
    <3>5. Atomic!Kick(c)
      BY <2>2, <2>3, <2>4, <3>1, <3>2, <3>3, <3>4 DEF Atomic!Kick
    <3> QED
      BY <2>1, <3>5 DEF Atomic!Next
  <2>5. CASE ~(c \in open /\ ec[t])
    <3>1. open' = open
      BY <1>1, <2>5 DEF Send, SendFails
    <3> QED
      BY <2>2, <2>3, <3>1 DEF Atomic!vars
  <2> QED
    BY <2>4, <2>5
<1>2. ASSUME EraseFailed(t)
      PROVE  Atomic!Next \/ UNCHANGED Atomic!vars
  <2>1. PICK c \in failed[t] : listeners' = listeners \ {c}
    BY <1>2 DEF EraseFailed
  <2>2. UNCHANGED <<pc, conn, open, mapped, closed>>
    BY <1>2 DEF EraseFailed
  <2>3. c \in Conn \ open
    BY DEF Failing, TypeOK
  <2>4. Leaving' = Leaving /\ Closing' = Closing
    BY <2>2 DEF Leaving, Closing
  <2>5. CASE c \in listeners /\ c \notin Leaving
    <3>1. Atomic!Drop(c)
      BY <2>1, <2>2, <2>3, <2>4, <2>5 DEF Atomic!Drop
    <3> QED
      BY <2>3, <3>1 DEF Atomic!Next
  <2>6. CASE ~(c \in listeners /\ c \notin Leaving)
    BY <2>1, <2>2, <2>4, <2>6 DEF Atomic!vars
  <2> QED
    BY <2>5, <2>6
<1>3. ASSUME OnPlatformClose(t)
      PROVE  Atomic!Unmap
  <2>1. ~mapped' /\ UNCHANGED <<conn, listeners, open, closed>>
    BY <1>3 DEF OnPlatformClose, localVars
  <2>2. Leaving' = Leaving /\ Closing' = Closing
    BY <1>3, <2>1, Bystander DEF OnPlatformClose, EndPc, ClosePc, Thread
  <2> QED
    BY <2>1, <2>2 DEF Atomic!Unmap
<1> QED
  BY <1>1, <1>2, <1>3 DEF Atomic!Next

LEMMA LoseStep ==
  ASSUME NEW c \in Conn, Lose(c)
  PROVE  Atomic!Lose(c)
<1>1. Leaving' = Leaving /\ Closing' = Closing
  BY DEF Lose, threadVars, Leaving, Closing
<1> QED
  BY <1>1 DEF Lose, Atomic!Lose

\* platform_base.cpp and main.cpp:39-94, with every mutex taken and every access
\* to the set of listeners a step of its own, implement the listeners with atomic
\* operations of ListenerSet, for any number of viewers and threads.
THEOREM AtomicOperations == Spec => ImplementsAtomic
<1>1. Init => Atomic!Init
  <2> SUFFICES ASSUME Init PROVE Atomic!Init
    OBVIOUS
  <2>1. Leaving = {} /\ ~Closing
    BY DEF Init, Leaving, Closing, ClosePc, Thread
  <2> QED
    BY <2>1 DEF Init, Atomic!Init
<1>2. IInv /\ IInv' /\ [Next]_vars => [Atomic!Next]_Atomic!vars
  <2> SUFFICES ASSUME IInv, IInv', [Next]_vars
               PROVE  Atomic!Next \/ UNCHANGED Atomic!vars
    OBVIOUS
  <2>1. ASSUME UNCHANGED vars
        PROVE  UNCHANGED Atomic!vars
    BY <2>1 DEF vars, threadVars, Leaving, Closing, Atomic!vars
  <2>2. TypeOK /\ Roles
    BY DEF IInv
  <2> QED
    BY <2>1, <2>2, OwnStep, HandlerStep, PublishStep, LoseStep
       DEF Next, Advance, Handler, Publishing, Atomic!Next
<1> QED
  BY <1>1, <1>2, Invariant, PTL DEF Spec, ImplementsAtomic, Atomic!Spec
=============================================================================
