---------------------------- MODULE BilibiliProofs ---------------------------
(* Proofs about the bilibili session, for any client threads and bounds.   *)
EXTENDS Bilibili, SequenceTheorems, TLAPS

-----------------------------------------------------------------------------
(* The inductive invariant.                                                *)

Total(f, o) == f[o].started + f[o].done + f[o].failed

\* Of the steps of the session, one at a time is outstanding, until a failure is
\* reported.
OneAtATime ==
  /\ \A o \in StepOp : Total(ops, o) > 0 =>
       Total(ops, o) = 1 /\ \A p \in StepOp \ {o} : Total(ops, p) = 0
  /\ ~reported => \E o \in StepOp : Total(ops, o) > 0

\* A message that has been read is one of MaxMsg.
Bounded == ops["data"].done > 0 => received < MaxMsg

\* Before the first frame is waited for no message is at hand, and the socket is
\* new only while the first host is being resolved.
Earlier(o) == o \in StepOp \ Frame /\ Total(ops, o) > 0
NothingYet == (\E o \in StepOp : Earlier(o)) => \A t \in ClientThread : pc[t] # "dispatch"
Opened     == socket = "new" /\ ~reported => Total(ops, "resolve") > 0

\* A handler that goes on to close the socket or to cancel the timer has
\* reported a failure.
EndingPc == {"callShut", "callClose", "shut", "close", "cancel"}
Ending   == \A t \in ClientThread : pc[t] \in EndingPc => reported

\* A session that reads frames, open or not, has a heartbeat to come, or close() has
\* cancelled the one it had and the handler of that is due.
Beats ==
  \/ ops["wait"].started + ops["wait"].done > 0
  \/ \E t \in ClientThread : pc[t] = "arm"
  \/ closing = "done" /\ ops["wait"].failed > 0
Beating == ~reported /\ (\E o \in Frame : Total(ops, o) > 0) => Beats

\* A chat message that a thread holds has been received, is held by no other and
\* has not been published; all that were published have been received.
Holds(t) == pc[t] = "dispatch" /\ msg[t] = "danmu"
Holding ==
  /\ \A n \in chats : n <= received
  /\ \A t \in ClientThread : Holds(t) => num[t] \in chats
  /\ \A t, u \in ClientThread : Holds(t) /\ Holds(u) /\ num[t] = num[u] => t = u

\* The response has ended only when the read that found that is done, and the
\* next step after it is the second resolve.
EofLate ==
  eof => \A o \in StepOp \ {"resolve2"} :
           Total(ops, o) > 0 => o = "content" /\ ops[o].done > 0

\* What was read of the body has been appended, unless a read is done that
\* has not been handled yet.
Appended ==
  \/ Total(ops, "resolve2") > 0
  \/ Total(ops, "content") > 0 /\ (eof \/ ops["content"].done = 0)
  => IsSuffix(Buffer, live)

IInv ==
  /\ TypeOK /\ OneAtATime /\ Bounded /\ NothingYet /\ Opened /\ Ending /\ Beating
  /\ Holding /\ PublishedOnce /\ EofLate /\ Appended

-----------------------------------------------------------------------------
(* The operations.                                                         *)

Counts == [started : Nat, done : Nat, failed : Nat]
OpsFun == [Op -> Counts]

LEMMA TotalIsNat ==
  ASSUME NEW f \in OpsFun, NEW o \in Op
  PROVE  /\ f[o].started \in Nat /\ f[o].done \in Nat /\ f[o].failed \in Nat
         /\ Total(f, o) \in Nat
         /\ \A how \in {"done", "failed"} : f[o][how] \in Nat /\ f[o][how] <= Total(f, o)
<1>1. f[o] \in Counts
  BY DEF OpsFun
<1>2. f[o].started \in Nat /\ f[o].done \in Nat /\ f[o].failed \in Nat
  BY <1>1 DEF Counts
<1> QED
  BY <1>2 DEF Total

LEMMA StartCounts ==
  ASSUME NEW f \in OpsFun, NEW o \in Op
  PROVE  /\ Start(f, o) \in OpsFun
         /\ Total(Start(f, o), o) = Total(f, o) + 1
         /\ \A p \in Op : p # o => Start(f, o)[p] = f[p]
         /\ \A p \in Op : Start(f, o)[p].done = f[p].done
         /\ o \notin SocketOp => Start(f, o)[o].started = f[o].started + 1
BY DEF Start, OpsFun, Counts, Total

LEMMA AbortCounts ==
  ASSUME NEW f \in OpsFun, NEW S \in SUBSET Op
  PROVE  /\ Abort(f, S) \in OpsFun
         /\ \A p \in Op : Total(Abort(f, S), p) = Total(f, p)
         /\ \A p \in Op : Abort(f, S)[p].done = f[p].done
         /\ \A p \in Op : p \notin S => Abort(f, S)[p] = f[p]
<1>1. ASSUME NEW p \in Op
      PROVE  /\ Abort(f, S)[p] \in Counts
             /\ Total(Abort(f, S), p) = Total(f, p)
             /\ Abort(f, S)[p].done = f[p].done
             /\ p \notin S => Abort(f, S)[p] = f[p]
  <2>1. f[p] \in Counts
    BY DEF OpsFun
  <2>2. Abort(f, S)[p] = IF p \in S
                         THEN [started |-> 0, done |-> f[p].done,
                               failed |-> f[p].failed + f[p].started]
                         ELSE f[p]
    BY DEF Abort
  <2>3. CASE p \in S
    <3>1. /\ Abort(f, S)[p] \in Counts
          /\ Abort(f, S)[p].started = 0
          /\ Abort(f, S)[p].done = f[p].done
          /\ Abort(f, S)[p].failed = f[p].failed + f[p].started
      BY <2>1, <2>2, <2>3 DEF Counts
    <3> QED
      BY <2>1, <2>3, <3>1 DEF Counts, Total
  <2>4. CASE p \notin S
    BY <2>1, <2>2, <2>4 DEF Total
  <2> QED
    BY <2>3, <2>4
<1>2. Abort(f, S) \in OpsFun
  <2>1. Abort(f, S) = [p \in Op |-> Abort(f, S)[p]]
    BY DEF Abort
  <2> QED
    BY <1>1, <2>1 DEF OpsFun
<1> QED
  BY <1>1, <1>2

LEMMA ConsumedCounts ==
  ASSUME ops \in OpsFun, NEW o \in Op, NEW how \in {"done", "failed"}, ops[o][how] > 0
  PROVE  /\ Consumed(o, how) \in OpsFun
         /\ Total(Consumed(o, how), o) = Total(ops, o) - 1
         /\ \A p \in Op : p # o => Consumed(o, how)[p] = ops[p]
         /\ Consumed(o, how)[o].started = ops[o].started
         /\ how = "done" => Consumed(o, how)[o].done = ops[o].done - 1
         /\ how = "failed" => Consumed(o, how)[o].done = ops[o].done
<1>1. CASE how = "done"
  BY <1>1 DEF Consumed, OpsFun, Counts, Total
<1>2. CASE how = "failed"
  BY <1>2 DEF Consumed, OpsFun, Counts, Total
<1> QED
  BY <1>1, <1>2

LEMMA FinishCounts ==
  ASSUME ops \in OpsFun, NEW o \in Op, NEW how \in {"done", "failed"}, Finish(o, how)
  PROVE  /\ ops' \in OpsFun
         /\ \A p \in Op : Total(ops', p) = Total(ops, p)
         /\ \A p \in Op : p # o => ops'[p] = ops[p]
         /\ how = "failed" => ops'[o].done = ops[o].done
         /\ how = "done" => ops'[o].done = ops[o].done + 1
                            /\ ops'[o].started = ops[o].started - 1
<1>1. CASE how = "done"
  BY <1>1 DEF Finish, OpsFun, Counts, Total
<1>2. CASE how = "failed"
  BY <1>2 DEF Finish, OpsFun, Counts, Total
<1> QED
  BY <1>1, <1>2

LEMMA OpsOfType == TypeOK => ops \in OpsFun
BY DEF TypeOK, OpsType, OpsFun, Counts

\* What an action does to the steps of the session: nothing, or the next is
\* started as the last one is done, or none is and a failure is reported.
Stays ==
  /\ ops' \in OpsFun
  /\ \A o \in StepOp : Total(ops', o) = Total(ops, o)
  /\ reported => reported'

Aside ==
  /\ Stays
  /\ \A o \in StepOp : ops'[o].done = ops[o].done
  /\ received' = received

Moves(o, p) ==
  /\ ops' \in OpsFun
  /\ Total(ops, o) > 0
  /\ \A q \in StepOp : Total(ops', q) = (IF q = p THEN 1 ELSE 0) /\ ops'[q].done = 0
  /\ ops'["wait"] = ops["wait"]
  /\ reported' = reported

Stops(o) ==
  /\ ops' \in OpsFun
  /\ Total(ops, o) > 0
  /\ \A q \in StepOp : Total(ops', q) = 0 /\ ops'[q].done = 0
  /\ reported'

\* The handler of the only step that is outstanding is taken.
LEMMA Taken ==
  ASSUME TypeOK, OneAtATime, NEW o \in StepOp, NEW how \in {"done", "failed"}, ops[o][how] > 0
  PROVE  /\ Consumed(o, how) \in OpsFun
         /\ Total(ops, o) = 1
         /\ \A q \in StepOp : /\ Total(Consumed(o, how), q) = 0
                              /\ Consumed(o, how)[q].done = 0
         /\ \A q \in Op \ StepOp : Consumed(o, how)[q] = ops[q]
<1> DEFINE f == Consumed(o, how)
<1>1. ops \in OpsFun /\ StepOp \subseteq Op
  BY OpsOfType DEF Op
<1>2. /\ f \in OpsFun /\ Total(f, o) = Total(ops, o) - 1
      /\ \A q \in Op : q # o => f[q] = ops[q]
  BY <1>1, ConsumedCounts
<1>3. Total(ops, o) > 0
  BY <1>1, TotalIsNat
<1>4. Total(ops, o) = 1 /\ \A q \in StepOp \ {o} : Total(ops, q) = 0
  BY <1>3 DEF OneAtATime
<1> HIDE DEF f
<1>5. \A q \in StepOp : Total(f, q) = 0
  <2>1. Total(f, o) = 0
    BY <1>2, <1>4
  <2>2. ASSUME NEW q \in StepOp, q # o PROVE Total(f, q) = 0
    BY <1>1, <1>2, <1>4, <2>2 DEF Total
  <2> QED
    BY <2>1, <2>2
<1>6. \A q \in StepOp : f[q].done = 0
  <2> SUFFICES ASSUME NEW q \in StepOp PROVE f[q].done = 0
    OBVIOUS
  <2>1. f[q].done \in Nat /\ f[q].started \in Nat /\ f[q].failed \in Nat
    BY <1>1, <1>2, TotalIsNat
  <2> QED
    BY <1>5, <2>1 DEF Total
<1> QED
  BY <1>1, <1>2, <1>4, <1>5, <1>6 DEF f

\* The next step is started, perhaps with other operations.
LEMMA NextStarted ==
  ASSUME NEW f \in OpsFun, NEW p \in StepOp,
         \A q \in StepOp : Total(f, q) = 0 /\ f[q].done = 0
  PROVE  \A g \in {Start(f, p), [f EXCEPT ![p].started = @ + 1]} :
           /\ g \in OpsFun
           /\ \A q \in StepOp : Total(g, q) = (IF q = p THEN 1 ELSE 0) /\ g[q].done = 0
           /\ \A q \in Op : q # p => g[q] = f[q]
<1>1. p \in Op /\ StepOp \subseteq Op
  BY DEF Op
<1>2. ASSUME NEW g \in {Start(f, p), [f EXCEPT ![p].started = @ + 1]}
      PROVE  /\ g \in OpsFun
             /\ Total(g, p) = Total(f, p) + 1
             /\ \A q \in Op : q # p => g[q] = f[q]
             /\ \A q \in Op : g[q].done = f[q].done
  <2>1. CASE g = Start(f, p)
    BY <1>1, <2>1, StartCounts
  <2>2. CASE g = [f EXCEPT ![p].started = @ + 1]
    BY <1>1, <2>2 DEF OpsFun, Counts, Total
  <2> QED
    BY <1>2, <2>1, <2>2
<1>3. ASSUME NEW g \in {Start(f, p), [f EXCEPT ![p].started = @ + 1]},
             NEW q \in StepOp
      PROVE  Total(g, q) = (IF q = p THEN 1 ELSE 0) /\ g[q].done = 0
  <2>1. CASE q = p
    <3>1. Total(g, p) = 0 + 1 /\ g[p].done = 0
      BY <1>1, <1>2
    <3> QED
      BY <2>1, <3>1
  <2>2. CASE q # p
    <3>1. g[q] = f[q]
      BY <1>1, <1>2, <2>2
    <3> QED
      BY <2>2, <3>1 DEF Total
  <2> QED
    BY <2>1, <2>2
<1> QED
  BY <1>2, <1>3

\* Writes and waits are not steps.
LEMMA BesideSteps ==
  ASSUME NEW f \in OpsFun, NEW o \in {"write", "wait"}
  PROVE  /\ Start(f, o) \in OpsFun
         /\ Total(Start(f, o), o) \in Nat /\ Total(Start(f, o), o) > 0
         /\ \A q \in Op : q # o => Start(f, o)[q] = f[q]
         /\ \A q \in StepOp : Start(f, o)[q] = f[q]
<1>1. o \in Op /\ StepOp \subseteq Op /\ \A q \in StepOp : q # o
  BY DEF Op, StepOp, Connecting, Http, Frame
<1>2. Start(f, o) \in OpsFun /\ Total(Start(f, o), o) = Total(f, o) + 1 /\ Total(f, o) \in Nat
  BY <1>1, StartCounts, TotalIsNat
<1> QED
  BY <1>1, <1>2, StartCounts

LEMMA AbortAside ==
  ASSUME TypeOK, NEW S \in SUBSET Op, ops' \in {ops, Abort(ops, S)},
         received' = received, reported => reported'
  PROVE  Aside
BY OpsOfType, AbortCounts DEF Aside, Stays, Op

LEMMA GoAside ==
  ASSUME TypeOK, NEW t \in ClientThread, Go(t)
  PROVE  Aside
<1>1. received' = received /\ (reported => reported')
  BY DEF Go, OnPlatformClose, Return, ShutSocket, CancelTimer, DispatchError, DispatchOther,
         HandleDanmu, ArmTimer, Report, reports, upstream
<1>2. ops' \in {ops, Abort(ops, SocketOp), Abort(ops, {"wait"})} \/ ops' = Arm(ops)
  BY DEF Go, OnPlatformClose, Return, ShutSocket, Shut, CancelTimer, DispatchError,
         DispatchOther, HandleDanmu, ArmTimer
<1>3. CASE ops' \in {ops, Abort(ops, SocketOp), Abort(ops, {"wait"})}
  BY <1>1, <1>3, AbortAside DEF SocketOp, Op
<1>4. CASE ops' = Arm(ops)
  <2> DEFINE f == Abort(ops, {"wait"})
  <2>1. /\ f \in OpsFun
        /\ \A o \in Op : Total(f, o) = Total(ops, o) /\ f[o].done = ops[o].done
    BY OpsOfType, AbortCounts DEF Op
  <2> HIDE DEF f
  <2>2. ops' = Start(f, "wait")
    BY <1>4 DEF Arm, f
  <2>3. /\ ops' \in OpsFun
        /\ \A o \in StepOp : ops'[o] = f[o]
    BY <2>1, <2>2, BesideSteps
  <2> QED
    BY <1>1, <2>1, <2>3 DEF Aside, Stays, Total, Op
<1> QED
  BY <1>2, <1>3, <1>4

\* A handler that is taken, and what it starts next.
LEMMA TakenAndStarted ==
  ASSUME TypeOK, OneAtATime, NEW o \in StepOp, NEW how \in {"done", "failed"}, ops[o][how] > 0,
         NEW p \in StepOp,
         \/ ops' = Start(Consumed(o, how), p)
         \/ ops' = [Consumed(o, how) EXCEPT ![p].started = @ + 1]
         \/ ops' = Start(Start(Consumed(o, how), "write"), p),
         reported' = reported
  PROVE  Moves(o, p)
<1> DEFINE f == Consumed(o, how)
           g == IF ops' = Start(Start(f, "write"), p) THEN Start(f, "write") ELSE f
<1>1. /\ f \in OpsFun /\ Total(ops, o) = 1 /\ f["wait"] = ops["wait"]
      /\ \A q \in StepOp : Total(f, q) = 0 /\ f[q].done = 0
  BY Taken DEF Op, StepOp, Connecting, Http, Frame
<1> HIDE DEF f
<1>2. /\ g \in OpsFun /\ g["wait"] = f["wait"]
      /\ \A q \in StepOp : g[q] = f[q]
  BY <1>1, BesideSteps DEF Op
<1>3. ops' \in {Start(g, p), [g EXCEPT ![p].started = @ + 1]}
  BY DEF f
<1> HIDE DEF g
<1>4. \A q \in StepOp : Total(g, q) = 0 /\ g[q].done = 0
  BY <1>1, <1>2 DEF Total
<1>5. /\ ops' \in OpsFun
      /\ \A q \in StepOp : Total(ops', q) = (IF q = p THEN 1 ELSE 0) /\ ops'[q].done = 0
      /\ \A q \in Op : q # p => ops'[q] = g[q]
  <2>1. \A h \in {Start(g, p), [g EXCEPT ![p].started = @ + 1]} :
          /\ h \in OpsFun
          /\ \A q \in StepOp : Total(h, q) = (IF q = p THEN 1 ELSE 0) /\ h[q].done = 0
          /\ \A q \in Op : q # p => h[q] = g[q]
    BY <1>2, <1>4, NextStarted
  <2> QED
    BY <1>3, <2>1
<1>6. ops'["wait"] = ops["wait"]
  BY <1>1, <1>2, <1>5 DEF Op, StepOp, Connecting, Http, Frame
<1> QED
  BY <1>1, <1>5, <1>6 DEF Moves, Total

LEMMA TakenAndLeft ==
  ASSUME TypeOK, OneAtATime, NEW o \in StepOp, NEW how \in {"done", "failed"}, ops[o][how] > 0,
         ops' = Consumed(o, how), reported'
  PROVE  Stops(o)
BY Taken DEF Stops

LEMMA TakenAside ==
  ASSUME TypeOK, NEW o \in {"write", "wait"}, NEW how \in {"done", "failed"}, ops[o][how] > 0,
         ops' \in {Consumed(o, how), Start(Consumed(o, how), "write")},
         received' = received, reported => reported'
  PROVE  Aside /\ (o = "write" => ops'["wait"] = ops["wait"])
<1> DEFINE f == Consumed(o, how)
<1>1. o \in Op /\ StepOp \subseteq Op /\ \A q \in StepOp : q # o
  BY DEF Op, StepOp, Connecting, Http, Frame
<1>2. f \in OpsFun /\ \A q \in Op : q # o => f[q] = ops[q]
  BY <1>1, OpsOfType, ConsumedCounts
<1> HIDE DEF f
<1>3. ops' \in {f, Start(f, "write")}
  BY DEF f
<1>4. ops' \in OpsFun /\ ops'["wait"] = f["wait"] /\ \A q \in StepOp : ops'[q] = f[q]
  BY <1>2, <1>3, BesideSteps DEF Op
<1> QED
  BY <1>1, <1>2, <1>4 DEF Aside, Stays, Total, Op

LEMMA Handlers ==
  ASSUME TypeOK, OneAtATime, NEW t \in ClientThread
  PROVE  /\ \A o \in Op : OnError(t, o) => Aside \/ (o \in StepOp /\ Stops(o))
         /\ OnHttpResolve(t) => Moves("resolve", "connect")
         /\ OnHttpConnect(t) => Moves("connect", "request")
         /\ OnRequest(t)     => Moves("request", "status")
         /\ HandleStatus(t)  => Moves("status", "head") \/ Stops("status")
         /\ HandleHead(t)    => Moves("head", "content")
         /\ HandleContent(t) => Moves("content", "content")
         /\ HandleEof(t)     => Moves("content", "resolve2") \/ Stops("content")
         /\ OnTcpResolve(t)  => Moves("resolve2", "connect2")
         /\ OnTcpConnect(t)  => Moves("connect2", "header")
         /\ HandleHeader(t)  => \E p \in Frame : Moves("header", p)
         /\ HandleSkip(t)    => Moves("skip", "header")
         /\ HandleData(t)    => Moves("data", "header")
         /\ OnWritten(t)     => Aside /\ ops'["wait"] = ops["wait"]
         /\ HandleHeartbeatTimer(t) => Aside
<1> USE DEF on, reports, Report
<1>1. {"resolve", "connect", "request", "status", "head", "content", "resolve2", "connect2",
       "header", "data", "skip"} = StepOp
  BY DEF StepOp, Connecting, Http, Frame
<1>2. ASSUME NEW o \in StepOp, NEW p \in StepOp, Continue(t, o, p)
      PROVE  Moves(o, p)
  <2>1. /\ ops[o]["done"] > 0 /\ ops' = Start(Consumed(o, "done"), p)
        /\ reported' = reported
    BY <1>2 DEF Continue
  <2> QED
    BY <2>1, TakenAndStarted
<1>3. ASSUME NEW o \in StepOp, NEW p \in StepOp, Connect(t, o, p)
      PROVE  Moves(o, p)
  <2>1. /\ ops[o]["done"] > 0 /\ ops' = [Consumed(o, "done") EXCEPT ![p].started = @ + 1]
        /\ reported' = reported
    BY <1>3 DEF Connect
  <2> QED
    BY <2>1, TakenAndStarted
<1>4. ASSUME NEW o \in StepOp, OnError(t, o)
      PROVE  Stops(o)
  <2>1. ops[o]["failed"] > 0 /\ ops' = Consumed(o, "failed") /\ reported'
    BY <1>4 DEF OnError, TypeOK
  <2> QED
    BY <2>1, TakenAndLeft
<1>5. ASSUME NEW o \in {"write", "wait"}, OnError(t, o)
      PROVE  Aside
  <2>1. /\ ops[o]["failed"] > 0 /\ ops' = Consumed(o, "failed") /\ reported'
        /\ received' = received
    BY <1>5 DEF OnError, TypeOK, upstream
  <2> QED
    BY <2>1, TakenAside
<1>6. HandleStatus(t)  => Moves("status", "head") \/ Stops("status")
  <2>1. ASSUME ops["status"]["done"] > 0, ops' = Consumed("status", "done"), reported'
        PROVE  Stops("status")
    BY <1>1, <2>1, TakenAndLeft
  <2> QED
    BY <1>1, <1>2, <2>1 DEF HandleStatus
<1>7. HandleEof(t)     => Moves("content", "resolve2") \/ Stops("content")
  <2>1. ASSUME ops["content"]["done"] > 0, ops' = Consumed("content", "done"), reported'
        PROVE  Stops("content")
    BY <1>1, <2>1, TakenAndLeft
  <2>2. ASSUME ops["content"]["done"] > 0, reported' = reported,
               ops' = Start(Consumed("content", "done"), "resolve2")
        PROVE  Moves("content", "resolve2")
    BY <1>1, <2>2, TakenAndStarted
  <2> QED
    BY <2>1, <2>2 DEF HandleEof
<1>8. OnTcpConnect(t)  => Moves("connect2", "header")
  <2>1. ASSUME ops["connect2"]["done"] > 0, reported' = reported,
               ops' = Start(Start(Consumed("connect2", "done"), "write"), "header")
        PROVE  Moves("connect2", "header")
    BY <1>1, <2>1, TakenAndStarted
  <2> QED
    BY <2>1 DEF OnTcpConnect
<1>9. HandleData(t)    => Moves("data", "header")
  <2>1. ASSUME NEW how \in {"done", "failed"}, ops["data"][how] > 0, reported' = reported,
               ops' = Start(Consumed("data", how), "header")
        PROVE  Moves("data", "header")
    BY <1>1, <2>1, TakenAndStarted
  <2> QED
    BY <2>1 DEF HandleData
<1>10. /\ OnWritten(t) => Aside /\ ops'["wait"] = ops["wait"]
       /\ HandleHeartbeatTimer(t) => Aside
  <2>1. ASSUME NEW o \in {"write", "wait"}, ops[o]["done"] > 0, received' = received,
               reported' = reported,
               ops' \in {Consumed(o, "done"), Start(Consumed(o, "done"), "write")}
        PROVE  Aside /\ (o = "write" => ops'["wait"] = ops["wait"])
    BY <2>1, TakenAside
  <2> QED
    BY <2>1 DEF OnWritten, HandleHeartbeatTimer, upstream
<1>11. HandleHeader(t) => \E p \in Frame : Moves("header", p)
  <2>1. Frame \subseteq StepOp
    BY DEF StepOp
  <2> QED
    BY <1>1, <1>2, <2>1 DEF HandleHeader
<1>12. /\ OnHttpConnect(t) => Moves("connect", "request")
       /\ OnRequest(t)     => Moves("request", "status")
       /\ HandleHead(t)    => Moves("head", "content")
       /\ HandleContent(t) => Moves("content", "content")
       /\ HandleSkip(t)    => Moves("skip", "header")
  BY <1>1, <1>2 DEF OnHttpConnect, OnRequest, HandleHead, HandleContent, HandleSkip
<1>13. /\ OnHttpResolve(t) => Moves("resolve", "connect")
       /\ OnTcpResolve(t)  => Moves("resolve2", "connect2")
  BY <1>1, <1>3 DEF OnHttpResolve, OnTcpResolve
<1>14. \A o \in Op : OnError(t, o) => Aside \/ (o \in StepOp /\ Stops(o))
  BY <1>4, <1>5 DEF Op
<1> QED
  BY <1>14, <1>6, <1>7, <1>8, <1>9, <1>10, <1>11, <1>12, <1>13

\* The network, the clock and close() neither start an operation nor take its
\* handler.
LEMMA OutsideStays ==
  ASSUME TypeOK, (\E o \in Op : Complete(o)) \/ CloseSocket \/ CloseTimer \/ UNCHANGED vars
  PROVE  Stays /\ \A o \in Op : Total(ops', o) = Total(ops, o)
<1> USE DEF reports, upstream
<1>1. CASE \E o \in Op : Complete(o)
  <2>1. ops' \in OpsFun /\ \A o \in Op : Total(ops', o) = Total(ops, o)
    BY <1>1, OpsOfType, FinishCounts DEF Complete
  <2>2. reported' = reported
    BY <1>1 DEF Complete
  <2> QED
    BY <2>1, <2>2 DEF Stays, Op
<1>2. CASE CloseSocket \/ CloseTimer \/ UNCHANGED vars
  <2>1. ops' = Abort(ops, SocketOp) \/ ops' = Abort(ops, {"wait"}) \/ ops' = ops
    BY <1>2 DEF CloseSocket, Shut, CloseTimer, vars
  <2>2. reported' = reported
    BY <1>2 DEF CloseSocket, CloseTimer, vars
  <2>3. ops' \in OpsFun /\ \A o \in Op : Total(ops', o) = Total(ops, o)
    BY <2>1, OpsOfType, AbortCounts DEF SocketOp, Op
  <2> QED
    BY <2>2, <2>3 DEF Stays, Op
<1> QED
  BY <1>1, <1>2

LEMMA OutsideAside ==
  ASSUME TypeOK, CloseSocket \/ CloseTimer \/ UNCHANGED vars
  PROVE  Aside
<1>1. ops' = Abort(ops, SocketOp) \/ ops' = Abort(ops, {"wait"}) \/ ops' = ops
  BY DEF CloseSocket, Shut, CloseTimer, vars
<1>2. reported' = reported /\ received' = received
  BY DEF CloseSocket, CloseTimer, vars, reports, upstream
<1> QED
  BY <1>1, <1>2, AbortAside DEF SocketOp, Op

\* Every step of the program, by what it does to the steps of the session.  The
\* first host is not resolved again, nor is anything before the first frame done
\* again; the response ends before the second host is resolved.
Onward(o, p) ==
  /\ Moves(o, p) /\ p # "resolve" /\ (o \in Frame => p \in Frame)
  /\ o = "resolve" => socket' = "open"
  /\ o = "content" => p = "resolve2" \/ ~eof
  /\ o = "resolve2" => ~eof'
  /\ eof' => eof

LEMMA EveryStep ==
  ASSUME TypeOK, OneAtATime, [Next]_vars
  PROVE  \/ Aside /\ UNCHANGED response
         \/ \E o \in Op : Complete(o)
         \/ \E o \in StepOp : Stops(o)
         \/ \E o, p \in StepOp : Onward(o, p)
<1> USE DEF Report, response
<1>1. {"resolve", "connect", "request", "status", "head", "content", "resolve2", "connect2",
       "header", "data", "skip"} = StepOp
  BY DEF StepOp, Connecting, Http, Frame
<1>2. ASSUME NEW t \in ClientThread, Go(t)
      PROVE  Aside /\ UNCHANGED response
  <2>1. UNCHANGED response
    BY <1>2 DEF Go, OnPlatformClose, Return, ShutSocket, CancelTimer, DispatchError,
                DispatchOther, HandleDanmu, ArmTimer
  <2> QED
    BY <1>2, <2>1, GoAside
<1>3. ASSUME NEW t \in ClientThread, NEW o \in Op, OnError(t, o)
      PROVE  (Aside /\ UNCHANGED response) \/ (o \in StepOp /\ Stops(o))
  <2>1. UNCHANGED response
    BY <1>3 DEF OnError
  <2> QED
    BY <1>3, <2>1, Handlers
<1>4. ASSUME NEW t \in ClientThread, HandleStatus(t) \/ HandleEof(t)
      PROVE  \/ \E o \in StepOp : Stops(o)
             \/ \E o, p \in StepOp : Onward(o, p)
  <2>1. UNCHANGED response
    BY <1>4 DEF HandleStatus, HandleEof
  <2> QED
    BY <1>1, <1>4, <2>1, Handlers DEF Onward, Frame
<1>5. ASSUME NEW t \in ClientThread, OnHttpResolve(t) \/ OnTcpResolve(t)
      PROVE  \E o, p \in StepOp : Onward(o, p)
  <2>1. OnHttpResolve(t) => socket' = "open" /\ eof' = eof
    BY DEF OnHttpResolve, Connect
  <2>2. OnTcpResolve(t) => ~eof'
    BY DEF OnTcpResolve
  <2> QED
    BY <1>1, <1>5, <2>1, <2>2, Handlers DEF Onward, Frame
<1>6. ASSUME NEW t \in ClientThread,
             \/ OnHttpConnect(t) \/ OnRequest(t) \/ HandleHead(t)
             \/ HandleContent(t) \/ OnTcpConnect(t)
      PROVE  \E o, p \in StepOp : Onward(o, p)
  <2>1. eof' = eof /\ (HandleContent(t) => ~eof)
    BY <1>6 DEF OnHttpConnect, OnRequest, HandleHead, HandleContent, OnTcpConnect
  <2> QED
    BY <1>1, <1>6, <2>1, Handlers DEF Onward, Frame
<1>7. ASSUME NEW t \in ClientThread, HandleHeader(t) \/ HandleSkip(t) \/ HandleData(t)
      PROVE  \E o, p \in StepOp : Onward(o, p)
  <2>1. \E o, p \in Frame : Moves(o, p)
    BY <1>7, Handlers DEF Frame
  <2>2. eof' = eof
    BY <1>7 DEF HandleHeader, HandleSkip, HandleData
  <2> QED
    BY <1>1, <2>1, <2>2 DEF Onward, Frame
<1>8. ASSUME NEW t \in ClientThread, OnWritten(t) \/ HandleHeartbeatTimer(t)
      PROVE  Aside /\ UNCHANGED response
  <2>1. UNCHANGED response
    BY <1>8 DEF OnWritten, HandleHeartbeatTimer
  <2> QED
    BY <1>8, <2>1, Handlers
<1>9. ASSUME CloseSocket \/ CloseTimer \/ UNCHANGED vars
      PROVE  Aside /\ UNCHANGED response
  <2>1. UNCHANGED response
    BY <1>9 DEF CloseSocket, CloseTimer, vars
  <2> QED
    BY <1>9, <2>1, OutsideAside
<1> QED
  BY <1>2, <1>3, <1>4, <1>5, <1>6, <1>7, <1>8, <1>9 DEF Next, Begin

LEMMA OneStepStep ==
  ASSUME TypeOK, OneAtATime, [Next]_vars
  PROVE  OneAtATime'
<1>1. ASSUME Stays
      PROVE  OneAtATime'
  BY <1>1 DEF Stays, OneAtATime
<1>2. ASSUME NEW o \in StepOp, Stops(o)
      PROVE  OneAtATime'
  BY <1>2 DEF Stops, OneAtATime
<1>3. ASSUME NEW o \in StepOp, NEW p \in StepOp, Moves(o, p)
      PROVE  OneAtATime'
  <2>1. \A q \in StepOp : Total(ops', q) = IF q = p THEN 1 ELSE 0
    BY <1>3 DEF Moves
  <2> QED
    BY <2>1 DEF OneAtATime
<1> QED
  BY <1>1, <1>2, <1>3, EveryStep, OutsideStays DEF Onward, Aside

LEMMA OpsStep ==
  ASSUME TypeOK, OneAtATime, [Next]_vars
  PROVE  ops' \in OpsFun /\ (reported => reported')
BY EveryStep, OutsideStays DEF Aside, Stays, Stops, Onward, Moves, TypeOK

LEMMA BoundedStep ==
  ASSUME TypeOK, OneAtATime, Bounded, [Next]_vars
  PROVE  Bounded'
<1>1. "data" \in StepOp
  BY DEF StepOp, Frame
<1>2. CASE Aside
  BY <1>1, <1>2 DEF Aside, Bounded
<1>3. ASSUME NEW o \in StepOp, Stops(o) \/ \E p \in StepOp : Moves(o, p)
      PROVE  Bounded'
  <2>1. ops'["data"].done = 0
    BY <1>1, <1>3 DEF Stops, Moves
  <2> QED
    BY <2>1 DEF Bounded
<1>4. ASSUME NEW o \in Op, Complete(o)
      PROVE  Bounded'
  <2>1. received' = received
    BY <1>4 DEF Complete, upstream
  <2>2. PICK how \in {"done", "failed"} :
          Finish(o, how) /\ (o = "data" /\ how = "done" => received < MaxMsg)
    BY <1>4 DEF Complete
  <2>3. ops'["data"].done = ops["data"].done \/ (o = "data" /\ how = "done")
    BY <2>2, OpsOfType, FinishCounts DEF Op, StepOp, Frame
  <2> QED
    BY <2>1, <2>2, <2>3 DEF Bounded
<1> QED
  BY <1>2, <1>3, <1>4, EveryStep DEF Onward

-----------------------------------------------------------------------------
(* The order of the steps.                                                 *)

LEMMA NothingYetStep ==
  ASSUME TypeOK, OneAtATime, NothingYet, [Next]_vars
  PROVE  NothingYet'
<1> USE DEF Goto, TypeOK
<1>1. ASSUME NEW t \in ClientThread, HandleData(t)
      PROVE  NothingYet'
  <2>1. \A q \in StepOp : q # "header" => Total(ops', q) = 0
    BY <1>1, Handlers DEF Moves
  <2> QED
    BY <2>1 DEF NothingYet, Earlier, Frame
<1>2. ASSUME \A u \in ClientThread : pc'[u] = "dispatch" => pc[u] = "dispatch"
      PROVE  NothingYet'
  <2>1. (\E o \in StepOp : Earlier(o)') => \E o \in StepOp : Earlier(o)
    <3>1. CASE Stays
      BY <3>1 DEF Stays, Earlier
    <3>2. ASSUME NEW o \in StepOp, Stops(o)
          PROVE  ~ \E q \in StepOp : Earlier(q)'
      BY <3>2 DEF Stops, Earlier
    <3>3. ASSUME NEW o \in StepOp, NEW p \in StepOp, Onward(o, p)
          PROVE  \A q \in StepOp : Earlier(q)' => Earlier(o)
      BY <3>3 DEF Onward, Moves, Earlier
    <3> QED
      BY <3>1, <3>2, <3>3, EveryStep, OutsideStays DEF Aside
  <2> QED
    BY <1>2, <2>1 DEF NothingYet
<1>3. ASSUME NEW t \in ClientThread, Go(t)
      PROVE  \A u \in ClientThread : pc'[u] = "dispatch" => pc[u] = "dispatch"
  BY <1>3 DEF Go, OnPlatformClose, Return, ShutSocket, CancelTimer, DispatchError,
              DispatchOther, HandleDanmu, ArmTimer, Report
<1>4. ASSUME NEW t \in ClientThread, NEW o \in Op, OnError(t, o)
      PROVE  \A u \in ClientThread : pc'[u] = "dispatch" => pc[u] = "dispatch"
  BY <1>4 DEF OnError, Report, AfterError
<1>5. ASSUME NEW t \in ClientThread,
             \/ HandleStatus(t) \/ HandleEof(t) \/ OnTcpConnect(t) \/ HandleHeartbeatTimer(t)
      PROVE  \A u \in ClientThread : pc'[u] = "dispatch" => pc[u] = "dispatch"
  BY <1>5 DEF HandleStatus, Continue, HandleEof, OnTcpConnect, HandleHeartbeatTimer, Report
<1>6. ASSUME NEW t \in ClientThread,
             \/ OnHttpResolve(t) \/ OnHttpConnect(t) \/ OnRequest(t)
             \/ HandleHead(t) \/ HandleContent(t)
             \/ OnTcpResolve(t) \/ OnWritten(t) \/ HandleHeader(t) \/ HandleSkip(t)
      PROVE  pc' = pc
  BY <1>6 DEF OnHttpResolve, OnHttpConnect, OnRequest, HandleHead, HandleContent,
              OnTcpResolve, OnWritten, HandleHeader, HandleSkip, Connect, Continue
<1>7. ASSUME (\E o \in Op : Complete(o)) \/ CloseSocket \/ CloseTimer \/ UNCHANGED vars
      PROVE  pc' = pc
  BY <1>7 DEF Complete, CloseSocket, CloseTimer, vars
<1>8. CASE pc' = pc
  BY <1>2, <1>8
<1> QED
  BY <1>1, <1>2, <1>3, <1>4, <1>5, <1>6, <1>7, <1>8 DEF Next, Begin

\* Only a connect opens the socket, and nothing makes it new.
LEMMA SocketStep ==
  ASSUME TypeOK, [Next]_vars
  PROVE  /\ socket' \in {"new", "open", "closed"}
         /\ socket' = "new" => socket = "new"
<1> USE DEF TypeOK, OpsType
<1>1. ASSUME NEW t \in ClientThread, Go(t)
      PROVE  socket' = socket \/ socket' = IF socket = "new" THEN "new" ELSE "closed"
  BY <1>1 DEF Go, OnPlatformClose, Return, ShutSocket, Shut, CancelTimer, DispatchError,
              DispatchOther, HandleDanmu, ArmTimer
<1>2. ASSUME NEW t \in ClientThread, Begin(t)
      PROVE  socket' \in {socket, "open", "closed"}
  <2>1. CASE \E o \in Op : OnError(t, o)
    BY <2>1 DEF OnError
  <2>2. CASE HandleStatus(t) \/ HandleEof(t)
    BY <2>2 DEF HandleStatus, HandleEof, Continue
  <2> QED
    BY <1>2, <2>1, <2>2
       DEF Begin, OnHttpResolve, OnHttpConnect, OnRequest, HandleHead, HandleContent,
           OnTcpResolve, OnTcpConnect, OnWritten, HandleHeader, HandleSkip, HandleData,
           HandleHeartbeatTimer, Connect, Continue
<1>3. ASSUME (\E o \in Op : Complete(o)) \/ CloseSocket \/ CloseTimer \/ UNCHANGED vars
      PROVE  socket' = socket \/ socket' = IF socket = "new" THEN "new" ELSE "closed"
  BY <1>3 DEF Complete, CloseSocket, Shut, CloseTimer, vars
<1> QED
  BY <1>1, <1>2, <1>3 DEF Next

LEMMA OpenedStep ==
  ASSUME TypeOK, OneAtATime, Opened, [Next]_vars
  PROVE  Opened'
<1>1. "resolve" \in StepOp
  BY DEF StepOp, Connecting
<1>2. CASE Stays
  BY <1>1, <1>2, SocketStep DEF Stays, Opened
<1>3. ASSUME NEW o \in StepOp, Stops(o)
      PROVE  Opened'
  BY <1>3 DEF Stops, Opened
<1>4. ASSUME NEW o \in StepOp, NEW p \in StepOp, Onward(o, p)
      PROVE  Opened'
  <2>1. reported' = reported /\ Total(ops, o) > 0
    BY <1>4 DEF Onward, Moves
  <2>2. CASE o = "resolve"
    BY <1>4, <2>2 DEF Onward, Opened
  <2>3. CASE o # "resolve"
    <3>1. Total(ops, "resolve") = 0
      BY <1>1, <2>1, <2>3 DEF OneAtATime
    <3> QED
      BY <2>1, <3>1, SocketStep DEF Opened
  <2> QED
    BY <2>2, <2>3
<1> QED
  BY <1>2, <1>3, <1>4, EveryStep, OutsideStays DEF Aside

LEMMA EndingStep ==
  ASSUME TypeOK, OneAtATime, Ending, [Next]_vars
  PROVE  Ending'
<1> USE DEF Goto, EndingPc, Report
<1>1. reported => reported'
  BY OpsStep
<1>2. ASSUME NEW t \in ClientThread, NEW from, NEW to, Goto(t, from, to),
             to \in EndingPc => from \in EndingPc \/ reported'
      PROVE  Ending'
  BY <1>1, <1>2 DEF Ending, TypeOK
<1>3. ASSUME reported'
      PROVE  Ending'
  BY <1>3 DEF Ending
<1>4. ASSUME UNCHANGED pc
      PROVE  Ending'
  BY <1>1, <1>4 DEF Ending
<1>5. ASSUME NEW t \in ClientThread, OnPlatformClose(t) \/ Return(t) \/ ShutSocket(t)
      PROVE  Ending'
  <2>1. \/ Goto(t, "callReturn", "return") \/ Goto(t, "callShut", "shut")
        \/ Goto(t, "callClose", "close") \/ Goto(t, "return", "idle")
        \/ Goto(t, "shut", "idle") \/ Goto(t, "close", "cancel")
    BY <1>5 DEF OnPlatformClose, Return, ShutSocket
  <2> QED
    BY <1>2, <2>1
<1>6. ASSUME NEW t \in ClientThread,
             CancelTimer(t) \/ DispatchOther(t) \/ HandleDanmu(t) \/ ArmTimer(t)
      PROVE  Ending'
  <2>1. \/ Goto(t, "cancel", "idle") \/ Goto(t, "dispatch", "idle")
        \/ Goto(t, "dispatch", "return") \/ Goto(t, "arm", "idle")
    BY <1>6 DEF CancelTimer, DispatchOther, HandleDanmu, ArmTimer
  <2> QED
    BY <1>2, <2>1
<1>7. ASSUME NEW t \in ClientThread, DispatchError(t) \/ \E o \in Op : OnError(t, o)
      PROVE  Ending'
  BY <1>3, <1>7 DEF DispatchError, OnError
<1>8. ASSUME NEW t \in ClientThread, HandleStatus(t) \/ HandleEof(t)
      PROVE  Ending'
  BY <1>3, <1>4, <1>8 DEF HandleStatus, HandleEof, Continue
<1>9. ASSUME NEW t \in ClientThread,
             OnTcpConnect(t) \/ HandleData(t) \/ HandleHeartbeatTimer(t)
      PROVE  Ending'
  <2>1. Goto(t, "idle", "dispatch") \/ Goto(t, "idle", "arm")
    BY <1>9 DEF OnTcpConnect, HandleData, HandleHeartbeatTimer
  <2> QED
    BY <1>2, <2>1
<1>10. ASSUME NEW t \in ClientThread,
              \/ OnHttpResolve(t) \/ OnHttpConnect(t) \/ OnRequest(t)
              \/ HandleHead(t) \/ HandleContent(t)
              \/ OnTcpResolve(t) \/ OnWritten(t) \/ HandleHeader(t) \/ HandleSkip(t)
       PROVE  Ending'
  BY <1>4, <1>10 DEF OnHttpResolve, OnHttpConnect, OnRequest, HandleHead, HandleContent,
                     OnTcpResolve, OnWritten, HandleHeader, HandleSkip, Connect, Continue
<1>11. ASSUME (\E o \in Op : Complete(o)) \/ CloseSocket \/ CloseTimer \/ UNCHANGED vars
       PROVE  Ending'
  BY <1>4, <1>11 DEF Complete, CloseSocket, CloseTimer, vars
<1> QED
  BY <1>5, <1>6, <1>7, <1>8, <1>9, <1>10, <1>11 DEF Next, Go, Begin

-----------------------------------------------------------------------------
(* The body of the response.                                               *)

\* What a completed operation changes.
LEMMA Completed ==
  ASSUME TypeOK, NEW o \in Op, Complete(o)
  PROVE  /\ Stays /\ Total(ops, o) > 0
         /\ \A q \in Op : q # o => ops'[q] = ops[q]
         /\ \/ /\ ops'[o].done = ops[o].done + 1 /\ ops[o].started > 0
               /\ o # "data" \/ received < MaxMsg
               /\ Arrive(o)
            \/ ops'[o].done = ops[o].done /\ UNCHANGED <<got, eof>>
         /\ UNCHANGED <<socket, pc, locals, registry, lost, live, upstream, out, reports>>
<1>1. PICK how \in {"done", "failed"} :
        /\ Finish(o, how)
        /\ how = "done" => (o # "data" \/ received < MaxMsg) /\ Arrive(o)
        /\ how = "failed" => UNCHANGED <<got, eof>>
  BY DEF Complete
<1>2. /\ ops \in OpsFun /\ ops[o].started > 0
      /\ \A q \in Op : q # o => ops'[q] = ops[q]
      /\ how = "failed" => ops'[o].done = ops[o].done
      /\ how = "done" => ops'[o].done = ops[o].done + 1
  BY <1>1, OpsOfType, FinishCounts DEF Finish
<1>3. Total(ops, o) > 0
  BY <1>2, TotalIsNat DEF Total
<1>4. Stays
  BY OutsideStays
<1>5. UNCHANGED <<socket, pc, locals, registry, lost, live, upstream, out, reports>>
  BY DEF Complete
<1>6. CASE how = "done"
  BY <1>1, <1>2, <1>3, <1>4, <1>5, <1>6
<1>7. CASE how = "failed"
  BY <1>1, <1>2, <1>3, <1>4, <1>5, <1>7
<1> QED
  BY <1>6, <1>7

LEMMA EofLateStep ==
  ASSUME TypeOK, OneAtATime, EofLate, [Next]_vars
  PROVE  EofLate'
<1> USE DEF TypeOK
<1>1. CASE Aside /\ UNCHANGED response
  BY <1>1 DEF Aside, Stays, response, EofLate
<1>2. ASSUME NEW o \in StepOp, Stops(o)
      PROVE  EofLate'
  BY <1>2 DEF Stops, EofLate
<1>3. ASSUME NEW o \in StepOp, NEW p \in StepOp, Onward(o, p)
      PROVE  EofLate'
  <2> SUFFICES ASSUME eof' PROVE p = "resolve2"
    BY <1>3 DEF Onward, Moves, EofLate
  <2>1. eof /\ o # "resolve2" /\ Total(ops, o) > 0
    BY <1>3 DEF Onward, Moves
  <2>2. o = "content"
    BY <2>1 DEF EofLate
  <2> QED
    BY <1>3, <2>1, <2>2 DEF Onward
<1>4. ASSUME NEW o \in Op, Complete(o)
      PROVE  EofLate'
  <2>1. /\ ops \in OpsFun /\ StepOp \subseteq Op
        /\ \A q \in StepOp : Total(ops', q) = Total(ops, q)
        /\ \A q \in StepOp : q # o => ops'[q].done = ops[q].done
        /\ ops'[o].done \in {ops[o].done, ops[o].done + 1}
    BY <1>4, OpsOfType, Completed DEF Stays, Op
  <2>2. ASSUME NEW q \in StepOp, ops[q].done > 0
        PROVE  ops'[q].done > 0
    <3>1. ops[q].done \in Nat /\ ops'[q].done \in {ops[q].done, ops[q].done + 1}
      BY <2>1, TotalIsNat
    <3> QED
      BY <2>2, <3>1
  <2>3. CASE eof' = eof
    BY <2>1, <2>2, <2>3 DEF EofLate
  <2>4. CASE eof' # eof
    <3>1. o = "content" /\ ops'[o].done = ops[o].done + 1 /\ Total(ops, o) > 0
      BY <1>4, <2>4, Completed DEF Arrive
    <3>2. "content" \in StepOp
      BY DEF StepOp, Http
    <3>3. \A q \in StepOp : q # "content" => Total(ops, q) = 0
      BY <3>1, <3>2 DEF OneAtATime
    <3>4. ops'["content"].done > 0
      BY <2>1, <3>1, <3>2, TotalIsNat
    <3> QED
      BY <2>1, <3>3, <3>4 DEF EofLate
  <2> QED
    BY <2>3, <2>4
<1> QED
  BY <1>1, <1>2, <1>3, <1>4, EveryStep

\* The buffer, and what is appended to m_live_msg.
LEMMA BufferType ==
  ASSUME TypeOK
  PROVE  Buffer \in Seq(1..got)
<1> DEFINE body == [k \in 1..Body |-> k]
<1>1. lost \in 0..got /\ got \in 0..Body /\ Body \in Nat
  BY BodyAssumption DEF TypeOK
<1>2. \A i \in (lost + 1)..got : body[i] \in 1..got
  BY <1>1
<1> HIDE DEF body
<1>3. SubSeq(body, lost + 1, got) \in Seq(1..got)
  BY <1>1, <1>2, SubSeqProperties
<1> QED
  BY <1>3 DEF Buffer, body

LEMMA SuffixAppended ==
  ASSUME NEW s \in Seq(Nat), NEW e \in Seq(Nat)
  PROVE  IsSuffix(e, s \o e)
<1> DEFINE t == s \o e
<1>1. t \in Seq(Nat) /\ Len(t) = Len(s) + Len(e) /\ Len(s) \in Nat /\ Len(e) \in Nat
  OBVIOUS
<1>2. \A i \in 1..Len(e) : t[Len(s) + i] = e[i]
  OBVIOUS
<1> QED
  BY <1>1, <1>2 DEF IsSuffix, IsPrefix, Reverse

LEMMA EmptySuffix ==
  ASSUME NEW s \in Seq(Nat)
  PROVE  IsSuffix(<<>>, s)
BY DEF IsSuffix, IsPrefix, Reverse

LEMMA AppendedStep ==
  ASSUME TypeOK, OneAtATime, EofLate, Appended, [Next]_vars
  PROVE  Appended'
<1> USE DEF response
<1>1. "content" \in StepOp /\ "resolve2" \in StepOp /\ "head" \in StepOp /\ StepOp \subseteq Op
  BY DEF StepOp, Http, Connecting, Op
<1>2. ASSUME UNCHANGED response, Aside
      PROVE  Appended'
  <2>1. Buffer' = Buffer
    BY <1>2 DEF Buffer
  <2> QED
    BY <1>1, <1>2, <2>1 DEF Aside, Stays, Appended
<1>3. ASSUME Total(ops', "resolve2") = 0, Total(ops', "content") = 0
      PROVE  Appended'
  BY <1>3 DEF Appended
<1>4. ASSUME NEW t \in ClientThread, HandleHead(t)
      PROVE  Appended'
  <2>1. live' = live /\ lost' = got /\ got' = got
    BY <1>4 DEF HandleHead
  <2>2. got \in 0..Body /\ Body \in Nat /\ live \in Seq(Nat)
    BY BodyAssumption DEF TypeOK
  <2>3. Buffer' = <<>>
    BY <2>1, <2>2 DEF Buffer
  <2>4. IsSuffix(Buffer', live')
    BY <2>1, <2>2, <2>3, EmptySuffix
  <2> QED
    BY <2>4 DEF Appended
<1>5. ASSUME NEW t \in ClientThread, HandleContent(t)
      PROVE  Appended'
  <2>1. live' = live \o Buffer /\ Buffer' = Buffer
    BY <1>5 DEF HandleContent, Buffer
  <2>2. live \in Seq(Nat) /\ Buffer \in Seq(Nat)
    BY BufferType DEF TypeOK
  <2> QED
    BY <2>1, <2>2, SuffixAppended DEF Appended
<1>6. ASSUME NEW t \in ClientThread, HandleEof(t)
      PROVE  Appended'
  <2>1. UNCHANGED response /\ eof
    BY <1>6 DEF HandleEof, Report
  <2>2. Moves("content", "resolve2") \/ Stops("content")
    BY <1>6, Handlers
  <2>3. Total(ops, "content") > 0
    BY <2>2 DEF Moves, Stops
  <2>4. IsSuffix(Buffer, live)
    BY <2>1, <2>3 DEF Appended
  <2> QED
    BY <2>1, <2>4 DEF Appended, Buffer
<1>7. ASSUME NEW t \in ClientThread,
             \/ OnHttpResolve(t) \/ OnHttpConnect(t) \/ OnRequest(t) \/ HandleStatus(t)
             \/ OnTcpResolve(t) \/ OnTcpConnect(t) \/ HandleHeader(t) \/ HandleSkip(t)
             \/ HandleData(t)
      PROVE  Appended'
  <2>1. PICK p \in StepOp \ {"content", "resolve2"} :
          \A q \in StepOp : q # p => Total(ops', q) = 0
    <3>1. \E p \in {"connect", "request", "status", "head", "connect2", "header", "data", "skip"} :
            \A q \in StepOp : q # p => Total(ops', q) = 0
      BY <1>7, Handlers DEF Moves, Stops, Frame
    <3> QED
      BY <3>1 DEF StepOp, Http, Connecting, Frame
  <2> QED
    BY <1>1, <1>3, <2>1
<1>8. ASSUME NEW t \in ClientThread, NEW o \in Op, OnError(t, o)
      PROVE  Appended'
  <2>1. UNCHANGED response
    BY <1>8 DEF OnError, Report
  <2>2. Aside \/ Stops(o)
    BY <1>8, Handlers
  <2>3. Stops(o) => Total(ops', "resolve2") = 0 /\ Total(ops', "content") = 0
    BY <1>1 DEF Stops
  <2> QED
    BY <1>2, <1>3, <2>1, <2>2, <2>3
<1>9. ASSUME NEW o \in Op, Complete(o)
      PROVE  Appended'
  <2>1. /\ ops \in OpsFun /\ Total(ops, o) > 0 /\ live' = live /\ lost' = lost
        /\ \A q \in StepOp : Total(ops', q) = Total(ops, q) /\ Total(ops, q) \in Nat
        /\ \A q \in StepOp : q # o => ops'[q].done = ops[q].done
    BY <1>1, <1>9, OpsOfType, Completed, TotalIsNat DEF Stays
  <2>2. CASE UNCHANGED <<got, eof>> /\ ops'[o].done = ops[o].done
    <3>1. Buffer' = Buffer
      BY <2>1, <2>2 DEF Buffer
    <3> QED
      BY <1>1, <2>1, <2>2, <3>1 DEF Appended
  <2>3. CASE /\ ops'[o].done = ops[o].done + 1 /\ ops[o].started > 0
             /\ Arrive(o)
    <3>1. CASE o = "content"
      <4>1. Total(ops, "content") = 1 /\ Total(ops, "resolve2") = 0
        BY <1>1, <2>1, <3>1 DEF OneAtATime
      <4>2. ops["content"].done = 0
        <5>1. /\ ops["content"].started \in Nat /\ ops["content"].done \in Nat
              /\ ops["content"].failed \in Nat /\ ops["content"].started > 0
          BY <1>1, <2>1, <2>3, <3>1, TotalIsNat
        <5> QED
          BY <4>1, <5>1 DEF Total
      <4>3. IsSuffix(Buffer, live) /\ ~eof
        BY <1>1, <4>1, <4>2 DEF Appended, EofLate
      <4>4. CASE eof'
        <5>1. got' = got
          BY <2>3, <3>1, <4>3, <4>4 DEF Arrive
        <5> QED
          BY <2>1, <4>3, <5>1 DEF Appended, Buffer
      <4>5. CASE ~eof'
        <5>1. ops'["content"].done = 1 /\ Total(ops', "resolve2") = 0
          BY <1>1, <2>1, <2>3, <3>1, <4>1, <4>2
        <5> QED
          BY <4>5, <5>1 DEF Appended
      <4> QED
        BY <4>4, <4>5
    <3>2. CASE o = "head"
      <4>1. Total(ops, "content") = 0 /\ Total(ops, "resolve2") = 0
        BY <1>1, <2>1, <3>2 DEF OneAtATime
      <4> QED
        BY <1>1, <1>3, <2>1, <4>1
    <3>3. CASE o \notin {"head", "content"}
      <4>1. UNCHANGED <<got, eof>> /\ ops'["content"].done = ops["content"].done
        BY <1>1, <2>1, <2>3, <3>3 DEF Arrive
      <4>2. Buffer' = Buffer
        BY <2>1, <4>1 DEF Buffer
      <4> QED
        BY <1>1, <2>1, <4>1, <4>2 DEF Appended
    <3> QED
      BY <3>1, <3>2, <3>3
  <2> QED
    BY <1>9, <2>2, <2>3, Completed
<1>10. ASSUME NEW t \in ClientThread, Go(t) \/ OnWritten(t) \/ HandleHeartbeatTimer(t)
       PROVE  Appended'
  <2>1. Aside
    BY <1>10, GoAside, Handlers
  <2>2. UNCHANGED response
    BY <1>10 DEF Go, OnPlatformClose, Return, ShutSocket, CancelTimer, DispatchError,
                 DispatchOther, HandleDanmu, ArmTimer, OnWritten, HandleHeartbeatTimer, Report
  <2> QED
    BY <1>2, <2>1, <2>2
<1>11. ASSUME CloseSocket \/ CloseTimer \/ UNCHANGED vars
       PROVE  Appended'
  <2>1. Aside
    BY <1>11, OutsideAside
  <2>2. UNCHANGED response
    BY <1>11 DEF CloseSocket, CloseTimer, vars
  <2> QED
    BY <1>2, <2>1, <2>2
<1> QED
  BY <1>4, <1>5, <1>6, <1>7, <1>8, <1>9, <1>10, <1>11 DEF Next, Begin

-----------------------------------------------------------------------------
(* The heartbeat.                                                          *)

LEMMA BeatingStep ==
  ASSUME TypeOK, OneAtATime, Ending, Beating, [Next]_vars
  PROVE  Beating'
<1> USE DEF Goto, Report, reports
<1>1. Frame \subseteq StepOp /\ StepOp \subseteq Op /\ "wait" \in Op \ SocketOp
      /\ ops \in OpsFun
  BY OpsOfType DEF StepOp, Op, SocketOp
<1>2. ASSUME reported'
      PROVE  Beating'
  BY <1>2 DEF Beating
<1>3. ASSUME \A o \in Frame : Total(ops', o) = 0
      PROVE  Beating'
  BY <1>3 DEF Beating
<1>4. ASSUME Beats'
      PROVE  Beating'
  BY <1>4 DEF Beating
<1>5. ASSUME Stays \/ \E o, p \in Frame : Moves(o, p),
             ops'["wait"] = ops["wait"] /\ (closing = "done" => closing' = "done"),
             \A u \in ClientThread : pc[u] = "arm" => pc'[u] = "arm"
      PROVE  Beating'
  <2> SUFFICES ASSUME ~reported', \E o \in Frame : Total(ops', o) > 0
               PROVE  Beats'
    BY DEF Beating
  <2>1. ~reported /\ \E o \in Frame : Total(ops, o) > 0
    BY <1>1, <1>5 DEF Stays, Moves
  <2> QED
    BY <1>5, <2>1 DEF Beating, Beats
<1>6. ASSUME NEW t \in ClientThread, ArmTimer(t)
      PROVE  Beating'
  <2> DEFINE f == Abort(ops, {"wait"})
  <2>1. f \in OpsFun
    BY <1>1, AbortCounts
  <2>2. ops' = Start(f, "wait")
    BY <1>6 DEF ArmTimer, Arm
  <2> HIDE DEF f
  <2>3. /\ ops' \in OpsFun
        /\ ops'["wait"].started = f["wait"].started + 1
    BY <1>1, <2>1, <2>2, StartCounts
  <2>4. f["wait"].started \in Nat /\ ops'["wait"].done \in Nat
    BY <1>1, <2>1, <2>3, TotalIsNat
  <2> QED
    BY <1>4, <2>3, <2>4 DEF Beats
<1>7. ASSUME NEW t \in ClientThread,
             \/ OnPlatformClose(t) \/ Return(t) \/ ShutSocket(t)
             \/ DispatchError(t) \/ DispatchOther(t) \/ HandleDanmu(t)
      PROVE  Beating'
  <2>1. \A u \in ClientThread : pc[u] = "arm" => pc'[u] = "arm"
    BY <1>7 DEF OnPlatformClose, Return, ShutSocket, DispatchError, DispatchOther,
                HandleDanmu, TypeOK
  <2>2. Stays
    BY <1>7, GoAside DEF Go, Aside
  <2>3. ops' \in {ops, Abort(ops, SocketOp)} /\ closing' = closing
    BY <1>7 DEF OnPlatformClose, Return, ShutSocket, Shut, DispatchError, DispatchOther,
                HandleDanmu, registry
  <2>4. ops'["wait"] = ops["wait"]
    BY <1>1, <2>3, AbortCounts DEF SocketOp
  <2> QED
    BY <1>5, <2>1, <2>2, <2>3, <2>4
<1>8. ASSUME NEW t \in ClientThread, NEW o \in Op, OnError(t, o)
      PROVE  Beating'
  BY <1>2, <1>8 DEF OnError
<1>9. ASSUME NEW t \in ClientThread, HandleHeartbeatTimer(t) \/ OnTcpConnect(t)
      PROVE  Beating'
  <2>1. pc'[t] = "arm"
    BY <1>9 DEF HandleHeartbeatTimer, OnTcpConnect, TypeOK
  <2> QED
    BY <1>4, <2>1 DEF Beats
<1>10. ASSUME NEW t \in ClientThread, HandleHeader(t) \/ HandleSkip(t) \/ HandleData(t)
       PROVE  Beating'
  <2>1. \A u \in ClientThread : pc[u] = "arm" => pc'[u] = "arm"
    BY <1>10 DEF HandleHeader, HandleSkip, HandleData, Continue, TypeOK
  <2>4. closing' = closing
    BY <1>10 DEF HandleHeader, HandleSkip, HandleData, Continue, registry
  <2>2. \E o, p \in Frame : Moves(o, p)
    BY <1>10, Handlers DEF Frame
  <2>3. ops'["wait"] = ops["wait"]
    BY <2>2 DEF Moves
  <2> QED
    BY <1>5, <2>1, <2>2, <2>3, <2>4
<1>11. ASSUME NEW t \in ClientThread,
              \/ OnHttpResolve(t) \/ OnHttpConnect(t) \/ OnRequest(t) \/ HandleStatus(t)
              \/ HandleHead(t) \/ HandleContent(t) \/ HandleEof(t) \/ OnTcpResolve(t)
       PROVE  Beating'
  <2>1. \/ \E o, p \in StepOp : Moves(o, p) /\ p \notin Frame
        \/ \E o \in StepOp : Stops(o)
    BY <1>11, Handlers DEF StepOp, Connecting, Http, Frame
  <2>2. (\A o \in Frame : Total(ops', o) = 0) \/ reported'
    BY <1>1, <2>1 DEF Moves, Stops
  <2> QED
    BY <1>2, <1>3, <2>2
<1>12. ASSUME NEW t \in ClientThread, OnWritten(t)
       PROVE  Beating'
  BY <1>5, <1>12, Handlers DEF OnWritten, Aside, registry
<1>13. ASSUME NEW o \in Op, Complete(o)
       PROVE  Beating'
  <2>1. Stays /\ pc' = pc /\ closing' = closing
    BY <1>13, OutsideStays DEF Complete, registry
  <2>2. CASE o = "wait"
    <3>1. Finish("wait", "done")
      BY <1>13, <2>2 DEF Complete
    <3>2. /\ ops'["wait"].done = ops["wait"].done + 1
          /\ ops'["wait"].started = ops["wait"].started - 1
          /\ ops["wait"].started > 0
      BY <1>1, <3>1, FinishCounts DEF Finish
    <3>3. ops["wait"].done \in Nat /\ ops["wait"].started \in Nat
      BY <1>1, TotalIsNat
    <3> QED
      BY <1>4, <3>2, <3>3 DEF Beats
  <2>3. CASE o # "wait"
    <3>1. ops'["wait"] = ops["wait"]
      BY <1>1, <1>13, <2>3, FinishCounts DEF Complete
    <3> QED
      BY <1>5, <2>1, <3>1
  <2> QED
    BY <2>2, <2>3
<1>14. ASSUME NEW t \in ClientThread, CancelTimer(t)
       PROVE  Beating'
  BY <1>2, <1>14 DEF CancelTimer, Ending, EndingPc
<1>15. ASSUME CloseSocket \/ UNCHANGED vars
       PROVE  Beating'
  <2>1. Stays /\ pc' = pc
    BY <1>15, OutsideStays DEF CloseSocket, vars
  <2>2. ops' \in {ops, Abort(ops, SocketOp)} /\ (closing = "done" => closing' = "done")
    BY <1>15 DEF CloseSocket, Shut, vars, registry
  <2>3. ops'["wait"] = ops["wait"]
    BY <1>1, <2>2, AbortCounts DEF SocketOp
  <2> QED
    BY <1>5, <2>1, <2>2, <2>3
<1>16. ASSUME CloseTimer
       PROVE  Beating'
  <2>1. /\ pc' = pc /\ closing = "socket" /\ closing' = "done" /\ reported' = reported
        /\ ops' = Abort(ops, {"wait"})
    BY <1>16 DEF CloseTimer
  <2>2. /\ ops["wait"].started \in Nat /\ ops["wait"].done \in Nat
        /\ ops["wait"].failed \in Nat
    BY <1>1, TotalIsNat
  <2>3. /\ ops'["wait"].started = 0
        /\ ops'["wait"].done = ops["wait"].done
        /\ ops'["wait"].failed = ops["wait"].failed + ops["wait"].started
    BY <1>1, <2>1 DEF Abort
  <2>4. Beats => Beats'
    <3>1. CASE ops["wait"].started > 0
      BY <2>1, <2>2, <2>3, <3>1 DEF Beats
    <3>2. CASE ops["wait"].done > 0
      BY <2>2, <2>3, <3>2 DEF Beats
    <3>3. CASE \E t \in ClientThread : pc[t] = "arm"
      BY <2>1, <3>3 DEF Beats
    <3> QED
      BY <2>1, <2>2, <3>1, <3>2, <3>3 DEF Beats
  <2>5. \A o \in StepOp : Total(ops', o) = Total(ops, o)
    BY <1>16, OutsideStays DEF Stays
  <2> QED
    BY <1>1, <2>1, <2>4, <2>5 DEF Beating
<1> QED
  BY <1>6, <1>7, <1>8, <1>9, <1>10, <1>11, <1>12, <1>13, <1>14, <1>15, <1>16
     DEF Next, Go, Begin

-----------------------------------------------------------------------------
(* Types.                                                                  *)

LEMMA ResponseType ==
  ASSUME TypeOK, [Next]_vars
  PROVE  /\ got' \in 0..Body /\ lost' \in 0..got' /\ eof' \in BOOLEAN
         /\ live' \in Seq(1..got')
<1> USE BodyAssumption DEF response, TypeOK
<1>1. CASE UNCHANGED response
  BY <1>1
<1>2. ASSUME NEW o \in Op, Complete(o)
      PROVE  /\ got' \in got..Body /\ lost' = lost /\ eof' \in BOOLEAN /\ live' = live
  <2>1. lost' = lost /\ live' = live /\ (Arrive(o) \/ UNCHANGED <<got, eof>>)
    BY <1>2 DEF Complete
  <2>2. \/ got' \in got..Body /\ eof' = eof
        \/ got' \in (got + 1)..Body /\ eof' = eof
        \/ eof' = TRUE /\ got' = got
        \/ UNCHANGED <<got, eof>>
    <3>1. CASE o = "head"
      BY <2>1, <3>1 DEF Arrive
    <3>2. CASE o = "content"
      BY <2>1, <3>2 DEF Arrive
    <3>3. CASE o \notin {"head", "content"}
      BY <2>1, <3>3 DEF Arrive
    <3> QED
      BY <3>1, <3>2, <3>3
  <2>3. got \in 0..Body /\ Body \in Nat /\ eof \in BOOLEAN
    OBVIOUS
  <2> HIDE DEF TypeOK
  <2>4. got' \in got..Body /\ eof' \in BOOLEAN
    <3>1. eof' \in BOOLEAN
      BY <2>2, <2>3
    <3>2. got' \in got..Body \/ got' \in (got + 1)..Body \/ got' = got
      BY <2>2
    <3>3. got' \in got..Body
      BY <2>3, <3>2
    <3> QED
      BY <3>1, <3>3
  <2> QED
    BY <2>1, <2>4
<1>3. ASSUME got' \in got..Body, lost' = lost, eof' \in BOOLEAN, live' = live
      PROVE  /\ got' \in 0..Body /\ lost' \in 0..got' /\ eof' \in BOOLEAN
             /\ live' \in Seq(1..got')
  <2>1. got' \in 0..Body /\ lost' \in 0..got' /\ 1..got \subseteq 1..got'
    BY <1>3
  <2> QED
    BY <1>3, <2>1
<1>4. ASSUME NEW t \in ClientThread, HandleHead(t) \/ HandleContent(t) \/ OnTcpResolve(t)
      PROVE  /\ got' \in 0..Body /\ lost' \in 0..got' /\ eof' \in BOOLEAN
             /\ live' \in Seq(1..got')
  <2>1. live \o Buffer \in Seq(1..got)
    BY BufferType
  <2> QED
    <3>1. CASE HandleHead(t)
      BY <3>1 DEF HandleHead
    <3>2. CASE HandleContent(t)
      BY <2>1, <3>2 DEF HandleContent
    <3>3. CASE OnTcpResolve(t)
      <4>1. got' = 0 /\ lost' = 0 /\ eof' = FALSE /\ live' = <<>>
        BY <3>3 DEF OnTcpResolve
      <4>2. live' \in Seq(1..got')
        BY <4>1
      <4> HIDE DEF TypeOK, response
      <4>3. 0 \in 0..Body /\ 0 \in 0..0
        BY BodyAssumption
      <4>4. got' \in 0..Body /\ lost' \in 0..got'
        BY <4>1, <4>3
      <4>5. eof' \in BOOLEAN
        BY <4>1
      <4> QED
        BY <4>2, <4>4, <4>5
    <3> QED
      BY <1>4, <3>1, <3>2, <3>3
<1>5. ASSUME NEW t \in ClientThread, Go(t)
      PROVE  UNCHANGED response
  BY <1>5 DEF Go, OnPlatformClose, Return, ShutSocket, CancelTimer, DispatchError,
              DispatchOther, HandleDanmu, ArmTimer, Report
<1>6. ASSUME NEW t \in ClientThread, NEW o \in Op, OnError(t, o)
      PROVE  UNCHANGED response
  BY <1>6 DEF OnError, Report
<1>7. ASSUME NEW t \in ClientThread,
             \/ OnHttpResolve(t) \/ OnHttpConnect(t) \/ OnRequest(t) \/ HandleStatus(t)
             \/ HandleEof(t) \/ OnTcpConnect(t) \/ OnWritten(t) \/ HandleHeader(t)
             \/ HandleSkip(t) \/ HandleData(t) \/ HandleHeartbeatTimer(t)
      PROVE  UNCHANGED response
  BY <1>7 DEF OnHttpResolve, OnHttpConnect, OnRequest, HandleStatus, HandleEof, OnTcpConnect,
              OnWritten, HandleHeader, HandleSkip, HandleData, HandleHeartbeatTimer, Report
<1>8. ASSUME CloseSocket \/ CloseTimer \/ UNCHANGED vars
      PROVE  UNCHANGED response
  BY <1>8 DEF CloseSocket, CloseTimer, vars
<1> QED
  BY <1>1, <1>2, <1>3, <1>4, <1>5, <1>6, <1>7, <1>8 DEF Next, Begin

LEMMA TypeStep ==
  ASSUME TypeOK, OneAtATime, Bounded, Holding, [Next]_vars
  PROVE  TypeOK'
<1> USE DEF CallPc, Goto, locals, registry, upstream, reports, Report
<1> DEFINE Rest ==
      /\ pc \in [ClientThread -> CallPc \cup
                   {"idle", "dispatch", "arm", "return", "shut", "close", "cancel"}]
      /\ msg \in [ClientThread -> Kind \cup {"error"}]
      /\ num \in [ClientThread -> 0..MaxMsg]
      /\ closing \in {"no", "socket", "done"}
      /\ unmapped \in BOOLEAN
      /\ received \in 0..MaxMsg
      /\ chats \in SUBSET (1..MaxMsg)
      /\ out \in Seq(1..MaxMsg)
      /\ said \in BOOLEAN
      /\ reported \in BOOLEAN
<1>1. OpsType'
  BY OpsStep, SocketStep DEF OpsType, OpsFun, Counts
<1>2. Rest
  BY DEF TypeOK
<1>3. ASSUME Rest'
      PROVE  TypeOK'
  BY <1>1, <1>3, ResponseType DEF TypeOK
<1>4. ASSUME NEW t \in ClientThread, OnPlatformClose(t) \/ Return(t) \/ ShutSocket(t)
                                     \/ CancelTimer(t) \/ ArmTimer(t)
      PROVE  Rest'
  BY <1>2, <1>4 DEF OnPlatformClose, Return, ShutSocket, CancelTimer, ArmTimer
<1>5. ASSUME NEW t \in ClientThread, DispatchError(t) \/ DispatchOther(t)
      PROVE  Rest'
  <2>1. Forget(t)
    BY <1>5 DEF DispatchError, DispatchOther
  <2>2. msg' \in [ClientThread -> Kind \cup {"error"}] /\ num' \in [ClientThread -> 0..MaxMsg]
    BY <1>2, <2>1, MaxMsgAssumption DEF Forget, Kind
  <2> QED
    BY <1>2, <1>5, <2>2 DEF DispatchError, DispatchOther
<1>6. ASSUME NEW t \in ClientThread, NEW o \in Op, OnError(t, o)
      PROVE  Rest'
  BY <1>2, <1>6 DEF OnError, AfterError
<1>7. ASSUME NEW t \in ClientThread,
             \/ OnHttpResolve(t) \/ OnHttpConnect(t) \/ OnRequest(t)
             \/ HandleHead(t) \/ HandleContent(t)
             \/ OnTcpResolve(t) \/ OnWritten(t) \/ HandleHeader(t) \/ HandleSkip(t)
      PROVE  Rest'
  BY <1>2, <1>7 DEF OnHttpResolve, OnHttpConnect, OnRequest, HandleHead, HandleContent,
              OnTcpResolve, OnWritten, HandleHeader, HandleSkip, Connect, Continue
<1>8. ASSUME NEW t \in ClientThread,
             \/ HandleStatus(t) \/ HandleEof(t) \/ OnTcpConnect(t) \/ HandleHeartbeatTimer(t)
      PROVE  Rest'
  BY <1>2, <1>8 DEF HandleStatus, HandleEof, OnTcpConnect, HandleHeartbeatTimer, Continue
<1>9. ASSUME (\E o \in Op : Complete(o)) \/ CloseSocket \/ CloseTimer \/ UNCHANGED vars
      PROVE  Rest'
  BY <1>2, <1>9 DEF Complete, CloseSocket, CloseTimer, vars
<1>10. ASSUME NEW t \in ClientThread, HandleDanmu(t)
       PROVE  Rest'
  <2>1. num[t] \in 1..MaxMsg
    BY <1>2, <1>10 DEF HandleDanmu, Holding, Holds
  <2>2. out' \in Seq(1..MaxMsg)
    BY <1>2, <1>10, <2>1, AppendProperties DEF HandleDanmu
  <2> QED
    BY <1>2, <1>10, <2>2, MaxMsgAssumption DEF HandleDanmu, Forget, Kind
<1>11. ASSUME NEW t \in ClientThread, HandleData(t)
       PROVE  Rest'
  <2>1. CASE UNCHANGED <<num, upstream>> /\ msg' = [msg EXCEPT ![t] = "error"]
    BY <1>2, <1>11, <2>1 DEF HandleData
  <2>2. CASE ops["data"].done > 0 /\ received' = received + 1
             /\ num' = [num EXCEPT ![t] = received']
             /\ \E k \in Kind :
                  /\ msg' = [msg EXCEPT ![t] = k]
                  /\ chats' = IF k = "danmu" THEN chats \cup {received'} ELSE chats
    <3>1. received' \in 1..MaxMsg
      BY <1>2, <2>2, MaxMsgAssumption DEF Bounded
    <3>2. chats' \in SUBSET (1..MaxMsg) /\ msg' \in [ClientThread -> Kind \cup {"error"}]
          /\ num' \in [ClientThread -> 0..MaxMsg]
      BY <1>2, <2>2, <3>1
    <3> QED
      BY <1>2, <1>11, <3>1, <3>2 DEF HandleData
  <2> QED
    BY <1>11, <2>1, <2>2 DEF HandleData
<1> HIDE DEF Rest
<1> QED
  BY <1>3, <1>4, <1>5, <1>6, <1>7, <1>8, <1>9, <1>10, <1>11 DEF Next, Go, Begin

-----------------------------------------------------------------------------
(* Publication.                                                            *)

\* A step of a thread that neither takes a message nor gives one up.
LEMMA HoldingKept ==
  ASSUME TypeOK, Holding, PublishedOnce, UNCHANGED <<upstream, out>>,
         \A t \in ClientThread : /\ Holds(t)' <=> Holds(t)
                                 /\ Holds(t) => num'[t] = num[t]
  PROVE  Holding' /\ PublishedOnce'
<1>1. \A n \in 1..MaxMsg : Held(n)' <=> Held(n)
  BY DEF Held, Holds
<1>2. PublishedOnce'
  <2>1. chats' = chats /\ out' = out
    BY DEF upstream
  <2>2. ASSUME NEW n \in 1..MaxMsg
        PROVE  IF n \in chats THEN Held(n)' # (\E i \in 1..Len(out) : out[i] = n)
               ELSE \A i \in 1..Len(out) : out[i] # n
    <3>1. Held(n) \in BOOLEAN /\ Held(n)' \in BOOLEAN
      BY DEF Held
    <3> QED
      BY <1>1, <3>1 DEF PublishedOnce
  <2> QED
    BY <2>1, <2>2 DEF PublishedOnce
<1>3. Holding'
  BY DEF Holding, upstream
<1> QED
  BY <1>2, <1>3

LEMMA DanmuHolding ==
  ASSUME TypeOK, Holding, PublishedOnce, NEW t \in ClientThread, HandleDanmu(t)
  PROVE  Holding' /\ PublishedOnce'
<1>0. Holds(t) /\ pc' = [pc EXCEPT ![t] = "return"]
  BY DEF HandleDanmu, Goto, Holds
<1>13. PICK m \in chats : m = num[t]
  BY <1>0 DEF Holding
<1>1. /\ Holds(t) /\ out' = Append(out, m) /\ UNCHANGED upstream
      /\ pc' = [pc EXCEPT ![t] = "return"]
      /\ \A u \in ClientThread : u # t => msg'[u] = msg[u] /\ num'[u] = num[u]
  BY <1>0, <1>13 DEF HandleDanmu, Forget, TypeOK
<1>2. m \in chats /\ m \in 1..MaxMsg /\ out \in Seq(1..MaxMsg)
  BY DEF TypeOK
<1>3. /\ Len(out) \in Nat /\ Len(out') = Len(out) + 1
      /\ \A i \in 1..Len(out) : out'[i] = out[i]
      /\ out'[Len(out) + 1] = m
  BY <1>1, <1>2, AppendProperties, LenProperties
<1>4. ~Holds(t)' /\ \A u \in ClientThread : u # t => (Holds(u)' <=> Holds(u))
  BY <1>1 DEF Holds, TypeOK
<1>5. Holding'
  BY <1>1, <1>4 DEF Holding, upstream
<1>6. \A u \in ClientThread : u # t /\ Holds(u) => num[u] # m
  BY <1>1, <1>13 DEF Holding
<1>7. Held(m) /\ ~Held(m)'
  BY <1>1, <1>4, <1>6, <1>13 DEF Held, Holds
<1>8. \A n \in 1..MaxMsg : n # m => (Held(n)' <=> Held(n))
  BY <1>1, <1>4, <1>13 DEF Held, Holds
<1>9. \A i \in 1..Len(out) : out[i] # m
  BY <1>2, <1>7 DEF PublishedOnce
<1>10. \A i, j \in 1..Len(out') : out'[i] = out'[j] => i = j
  BY <1>3, <1>9 DEF PublishedOnce
<1>11. ASSUME NEW n \in 1..MaxMsg
       PROVE  IF n \in chats' THEN Held(n)' # (\E i \in 1..Len(out') : out'[i] = n)
              ELSE \A i \in 1..Len(out') : out'[i] # n
  <2>1. (\E i \in 1..Len(out') : out'[i] = n) <=> n = m \/ \E i \in 1..Len(out) : out[i] = n
    BY <1>3
  <2>2. Held(n) \in BOOLEAN /\ Held(n)' \in BOOLEAN
    BY DEF Held
  <2>3. CASE n = m
    BY <1>1, <1>2, <1>7, <2>1, <2>2, <2>3 DEF upstream
  <2>4. CASE n # m
    <3>1. chats' = chats
      BY <1>1 DEF upstream
    <3>2. Held(n)' <=> Held(n)
      BY <1>8, <2>4
    <3>3. (\E i \in 1..Len(out') : out'[i] = n) <=> \E i \in 1..Len(out) : out[i] = n
      BY <2>1, <2>4
    <3>4. IF n \in chats THEN Held(n) # (\E i \in 1..Len(out) : out[i] = n)
          ELSE ~ \E i \in 1..Len(out) : out[i] = n
      BY DEF PublishedOnce
    <3>5. IF n \in chats' THEN Held(n)' # (\E i \in 1..Len(out') : out'[i] = n)
          ELSE ~ \E i \in 1..Len(out') : out'[i] = n
      BY <2>2, <3>1, <3>2, <3>3, <3>4
    <3> QED
      BY <3>5
  <2> QED
    BY <2>3, <2>4
<1>12. PublishedOnce'
  BY <1>10, <1>11 DEF PublishedOnce
<1> QED
  BY <1>5, <1>12

LEMMA DataHolding ==
  ASSUME TypeOK, Bounded, Holding, PublishedOnce, NEW t \in ClientThread, HandleData(t)
  PROVE  Holding' /\ PublishedOnce'
<1>0. pc[t] = "idle" /\ pc' = [pc EXCEPT ![t] = "dispatch"] /\ out' = out
  BY DEF HandleData, Goto
<1>1. CASE UNCHANGED <<num, upstream>> /\ msg' = [msg EXCEPT ![t] = "error"]
  <2>1. \A u \in ClientThread : Holds(u)' <=> Holds(u)
    BY <1>0, <1>1 DEF Holds, TypeOK
  <2> QED
    BY <1>0, <1>1, <2>1, HoldingKept
<1>2. CASE ops["data"].done > 0 /\ received' = received + 1
           /\ num' = [num EXCEPT ![t] = received']
           /\ \E k \in Kind :
                /\ msg' = [msg EXCEPT ![t] = k]
                /\ chats' = IF k = "danmu" THEN chats \cup {received'} ELSE chats
  <2>1. PICK k \in Kind :
          /\ msg' = [msg EXCEPT ![t] = k]
          /\ chats' = IF k = "danmu" THEN chats \cup {received'} ELSE chats
    BY <1>2
  <2>2. PICK m \in 1..MaxMsg : m = received'
    BY <1>2, MaxMsgAssumption DEF TypeOK, Bounded
  <2>11. received \in Nat /\ m = received + 1
    BY <1>2, <2>2 DEF TypeOK
  <2>3. \A u \in ClientThread : /\ u # t => (Holds(u)' <=> Holds(u)) /\ num'[u] = num[u]
                                /\ u = t => (Holds(u)' <=> k = "danmu") /\ num'[u] = m
                                /\ ~Holds(t)
    BY <1>0, <1>2, <2>1, <2>2 DEF Holds, TypeOK
  <2>4. m \notin chats /\ \A n \in chats : n \in 1..MaxMsg /\ n <= received
    BY <2>11 DEF Holding, TypeOK
  <2>5. Holding'
    <3>1. \A n \in chats' : n <= m
      BY <2>11, <2>1, <2>2, <2>4
    <3>2. \A u \in ClientThread : Holds(u)' => num'[u] \in chats'
      BY <2>1, <2>2, <2>3 DEF Holding
    <3>3. \A u, v \in ClientThread : Holds(u)' /\ Holds(v)' /\ num'[u] = num'[v] => u = v
      BY <2>3, <2>4 DEF Holding
    <3> QED
      BY <2>2, <3>1, <3>2, <3>3 DEF Holding
  <2>6. \A n \in 1..MaxMsg : n # m => (Held(n)' <=> Held(n)) /\ (n \in chats' <=> n \in chats)
    BY <2>1, <2>2, <2>3 DEF Held, Holds
  <2>7. Held(m)' <=> k = "danmu"
    <3>1. Held(m)' <=> \E u \in ClientThread : Holds(u)' /\ num'[u] = m
      BY DEF Held, Holds
    <3>2. \A u \in ClientThread : u # t /\ Holds(u)' => num'[u] # m
      BY <2>3, <2>4 DEF Holding
    <3> QED
      BY <2>3, <3>1, <3>2
  <2>8. \A i \in 1..Len(out) : out[i] # m
    BY <2>2, <2>4 DEF PublishedOnce
  <2>9. ASSUME NEW n \in 1..MaxMsg
        PROVE  IF n \in chats' THEN Held(n)' # (\E i \in 1..Len(out) : out[i] = n)
               ELSE \A i \in 1..Len(out) : out[i] # n
    <3>1. CASE n = m
      <4>1. n \in chats' <=> k = "danmu"
        BY <2>1, <2>2, <2>4, <3>1
      <4>2. Held(n)' \in BOOLEAN
        BY DEF Held
      <4>3. Held(n)' <=> k = "danmu"
        BY <2>7, <3>1
      <4>4. ~ \E i \in 1..Len(out) : out[i] = n
        BY <2>8, <3>1
      <4> QED
        BY <4>1, <4>2, <4>3, <4>4
    <3>2. CASE n # m
      <4>1. (Held(n)' <=> Held(n)) /\ (n \in chats' <=> n \in chats)
        BY <2>6, <3>2
      <4>2. Held(n)' \in BOOLEAN /\ Held(n) \in BOOLEAN
        BY DEF Held
      <4> QED
        BY <4>1, <4>2 DEF PublishedOnce
    <3> QED
      BY <3>1, <3>2
  <2>10. PublishedOnce'
    BY <1>0, <2>9 DEF PublishedOnce
  <2> QED
    BY <2>5, <2>10
<1> QED
  BY <1>1, <1>2 DEF HandleData

LEMMA HoldingStep ==
  ASSUME TypeOK, Bounded, Holding, PublishedOnce, [Next]_vars
  PROVE  Holding' /\ PublishedOnce'
<1> USE DEF locals, Report
\* The steps of a thread that does not hold a message, before or after.
<1>1. ASSUME NEW t \in ClientThread, UNCHANGED <<upstream, out>>, ~Holds(t), ~Holds(t)',
             \A u \in ClientThread :
               u # t => pc'[u] = pc[u] /\ msg'[u] = msg[u] /\ num'[u] = num[u]
      PROVE  Holding' /\ PublishedOnce'
  <2>1. \A u \in ClientThread : (Holds(u)' <=> Holds(u)) /\ (Holds(u) => num'[u] = num[u])
    BY <1>1 DEF Holds
  <2> QED
    BY <1>1, <2>1, HoldingKept
<1>2. ASSUME NEW t \in ClientThread, UNCHANGED <<upstream, out, msg, num>>, ~Holds(t),
             NEW to, to # "dispatch", pc' = [pc EXCEPT ![t] = to]
      PROVE  Holding' /\ PublishedOnce'
  <2>1. ~Holds(t)' /\ \A u \in ClientThread : u # t => pc'[u] = pc[u]
    BY <1>2 DEF Holds, TypeOK
  <2> QED
    BY <1>1, <1>2, <2>1
<1>3. ASSUME UNCHANGED <<pc, msg, num, upstream, out>>
      PROVE  Holding' /\ PublishedOnce'
  <2>1. \A u \in ClientThread : Holds(u)' <=> Holds(u)
    BY <1>3 DEF Holds
  <2> QED
    BY <1>3, <2>1, HoldingKept
<1>4. ASSUME NEW t \in ClientThread, OnPlatformClose(t) \/ Return(t) \/ ShutSocket(t)
                                     \/ CancelTimer(t) \/ ArmTimer(t)
      PROVE  Holding' /\ PublishedOnce'
  <2>1. UNCHANGED <<upstream, out, num, msg>> /\ pc[t] # "dispatch"
    BY <1>4 DEF OnPlatformClose, Return, ShutSocket, CancelTimer, ArmTimer, Goto
  <2>2. \E to : to # "dispatch" /\ pc' = [pc EXCEPT ![t] = to]
    BY <1>4 DEF OnPlatformClose, Return, ShutSocket, CancelTimer, ArmTimer, Goto
  <2> QED
    BY <1>2, <2>1, <2>2 DEF Holds
<1>5. ASSUME NEW t \in ClientThread, DispatchError(t) \/ DispatchOther(t)
      PROVE  Holding' /\ PublishedOnce'
  <2>1. UNCHANGED <<upstream, out>> /\ msg[t] # "danmu" /\ Forget(t)
    BY <1>5 DEF DispatchError, DispatchOther
  <2>2. pc' = [pc EXCEPT ![t] = "callClose"] \/ pc' = [pc EXCEPT ![t] = "idle"]
    BY <1>5 DEF DispatchError, DispatchOther, Goto
  <2>3. /\ ~Holds(t) /\ ~Holds(t)'
        /\ \A u \in ClientThread :
             u # t => pc'[u] = pc[u] /\ msg'[u] = msg[u] /\ num'[u] = num[u]
    BY <2>1, <2>2 DEF Holds, Forget, TypeOK
  <2> QED
    BY <1>1, <2>1, <2>3
<1>6. ASSUME NEW t \in ClientThread, NEW o \in Op, OnError(t, o)
      PROVE  Holding' /\ PublishedOnce'
  <2>1. UNCHANGED <<upstream, out, num, msg>> /\ pc[t] = "idle"
    BY <1>6 DEF OnError, Goto
  <2>2. \E to : to # "dispatch" /\ pc' = [pc EXCEPT ![t] = to]
    BY <1>6 DEF OnError, Goto, AfterError
  <2> QED
    BY <1>2, <2>1, <2>2 DEF Holds
<1>7. ASSUME NEW t \in ClientThread, HandleStatus(t) \/ HandleEof(t)
      PROVE  Holding' /\ PublishedOnce'
  <2>1. UNCHANGED <<upstream, out, num, msg>>
    BY <1>7 DEF HandleStatus, HandleEof, Continue
  <2>2. \/ pc' = pc
        \/ Goto(t, "idle", "callReturn")
        \/ Goto(t, "idle", "callShut")
    BY <1>7 DEF HandleStatus, HandleEof, Continue
  <2>3. ASSUME NEW to, to # "dispatch", Goto(t, "idle", to)
        PROVE  Holding' /\ PublishedOnce'
    BY <1>2, <2>1, <2>3 DEF Goto, Holds
  <2> QED
    BY <1>3, <2>1, <2>2, <2>3
<1>8. ASSUME NEW t \in ClientThread, OnTcpConnect(t) \/ HandleHeartbeatTimer(t)
      PROVE  Holding' /\ PublishedOnce'
  <2>1. UNCHANGED <<upstream, out, num, msg>> /\ pc[t] = "idle" /\ pc' = [pc EXCEPT ![t] = "arm"]
    BY <1>8 DEF OnTcpConnect, HandleHeartbeatTimer, Goto
  <2> QED
    BY <1>2, <2>1 DEF Holds
<1>9. ASSUME NEW t \in ClientThread,
             \/ OnHttpResolve(t) \/ OnHttpConnect(t) \/ OnRequest(t)
             \/ HandleHead(t) \/ HandleContent(t)
             \/ OnTcpResolve(t) \/ OnWritten(t) \/ HandleHeader(t) \/ HandleSkip(t)
      PROVE  Holding' /\ PublishedOnce'
  BY <1>3, <1>9 DEF OnHttpResolve, OnHttpConnect, OnRequest, HandleHead, HandleContent,
                    OnTcpResolve, OnWritten, HandleHeader, HandleSkip, Connect, Continue
<1>10. ASSUME (\E o \in Op : Complete(o)) \/ CloseSocket \/ CloseTimer \/ UNCHANGED vars
       PROVE  Holding' /\ PublishedOnce'
  BY <1>3, <1>10 DEF Complete, CloseSocket, CloseTimer, vars
<1> QED
  BY <1>4, <1>5, <1>6, <1>7, <1>8, <1>9, <1>10, DanmuHolding, DataHolding DEF Next, Go, Begin

-----------------------------------------------------------------------------
(* The theorems.                                                           *)

LEMMA InitIInv == Init => IInv
<1> SUFFICES ASSUME Init PROVE IInv
  OBVIOUS
<1> USE DEF Init
<1>1. /\ ops \in OpsFun
      /\ \A o \in Op : ops[o] = [started |-> IF o = "resolve" THEN 1 ELSE 0,
                                 done |-> 0, failed |-> 0]
  BY DEF OpsInit, OpsFun, Counts
<1>2. "resolve" \in StepOp /\ StepOp \subseteq Op /\ Frame \subseteq Op /\ "data" \in Op
      /\ "resolve" \notin Frame
  BY DEF StepOp, Connecting, Op, Frame
<1>3. \A o \in Op : Total(ops, o) = IF o = "resolve" THEN 1 ELSE 0
  <2>1. ASSUME NEW o \in Op, NEW n \in Nat, ops[o] = [started |-> n, done |-> 0, failed |-> 0]
        PROVE  Total(ops, o) = n
    BY <2>1 DEF Total
  <2> QED
    BY <1>1, <2>1
<1>4. TypeOK
  <2>1. OpsType
    BY <1>1 DEF OpsInit, OpsType, OpsFun, Counts
  <2>2. /\ pc \in [ClientThread -> {"idle"}]
        /\ msg \in [ClientThread -> Kind \cup {"error"}]
        /\ num \in [ClientThread -> 0..MaxMsg]
    BY MaxMsgAssumption DEF Kind
  <2>3. received \in 0..MaxMsg /\ out \in Seq(1..MaxMsg)
    BY MaxMsgAssumption
  <2>4. got \in 0..Body /\ lost \in 0..got /\ live \in Seq(1..got)
    BY BodyAssumption
  <2> QED
    BY <2>1, <2>2, <2>3, <2>4 DEF TypeOK
<1>5. OneAtATime /\ Bounded /\ NothingYet /\ Opened
  <2>1. OneAtATime /\ Opened
    BY <1>2, <1>3 DEF OneAtATime, Opened
  <2>2. Bounded
    <3>1. /\ ops["data"].started \in Nat /\ ops["data"].done \in Nat
          /\ ops["data"].failed \in Nat /\ Total(ops, "data") = 0
      BY <1>1, <1>2, <1>3, TotalIsNat
    <3> QED
      BY <3>1 DEF Bounded, Total
  <2>3. NothingYet
    BY DEF NothingYet
  <2> QED
    BY <2>1, <2>2, <2>3
<1>6. Ending /\ Beating
  BY <1>2, <1>3 DEF Ending, EndingPc, Beating
<1>7. Holding /\ PublishedOnce
  BY DEF Holding, Holds, PublishedOnce
<1>8. EofLate /\ Appended
  <2>1. "resolve2" \in Op /\ "content" \in Op
    BY DEF Op, StepOp, Connecting, Http
  <2> QED
    BY <1>3, <2>1 DEF EofLate, Appended
<1> QED
  BY <1>4, <1>5, <1>6, <1>7, <1>8 DEF IInv

LEMMA IInvStep == IInv /\ [Next]_vars => IInv'
<1> SUFFICES ASSUME IInv, [Next]_vars PROVE IInv'
  OBVIOUS
<1>1. TypeOK' /\ OneAtATime' /\ Bounded'
  BY TypeStep, OneStepStep, BoundedStep DEF IInv
<1>2. NothingYet' /\ Opened' /\ Beating'
  BY NothingYetStep, OpenedStep, BeatingStep DEF IInv
<1>3. Holding' /\ PublishedOnce'
  BY HoldingStep DEF IInv
<1>4. EofLate' /\ Appended'
  BY EofLateStep, AppendedStep DEF IInv
<1> QED
  BY <1>1, <1>2, <1>3, <1>4, EndingStep DEF IInv

LEMMA Invariant == Spec => []IInv
BY InitIInv, IInvStep, PTL DEF Spec

\* What is outstanding, before and after a step.
LEMMA OutstandingIs ==
  ASSUME TypeOK
  PROVE  \A o \in Op : Total(ops, o) \in Nat /\ Outstanding(o) = Total(ops, o)
BY OpsOfType, TotalIsNat DEF Outstanding, Total

LEMMA OutstandingBecomes ==
  ASSUME TypeOK'
  PROVE  \A o \in Op : Total(ops', o) \in Nat /\ Outstanding(o)' = Total(ops', o)
<1>1. ops' \in OpsFun
  BY DEF TypeOK, OpsType, OpsFun, Counts
<1> QED
  BY <1>1, TotalIsNat DEF Outstanding, Total

\* Every variable keeps its type; above all, no more than MaxMsg messages are
\* counted, because handle_data (bilibili.cpp:360-414) never has more than one
\* read done, and m_live_msg holds nothing but chunks that were read.
THEOREM TypeCorrect == Spec => []TypeOK
<1>1. IInv => TypeOK
  BY DEF IInv
<1> QED
  BY <1>1, Invariant, PTL

\* bilibili.cpp:45-152, 259-362: of the resolves, connects, reads and the write
\* of the request exactly one is outstanding until a failure is reported, and
\* never two.
THEOREM OneStepHolds == Spec => []OneStep
<1>1. IInv => OneStep
  <2> SUFFICES ASSUME IInv PROVE OneStep
    OBVIOUS
  <2>1. StepOp \subseteq Op
    BY DEF Op
  <2> QED
    BY <2>1, OutstandingIs DEF IInv, OneAtATime, OneStep
<1> QED
  BY <1>1, Invariant, PTL

\* bilibili.cpp:273-281, 401-412: a session that reads frames and has reported
\* nothing has a wait started or done, or a thread about to start one; or close()
\* has cancelled its wait, whose handler is due and reports.
THEOREM HeartbeatHolds == Spec => []HeartbeatGoesOn
<1>1. IInv => HeartbeatGoesOn
  <2> SUFFICES ASSUME IInv PROVE HeartbeatGoesOn
    OBVIOUS
  <2>1. Frame \subseteq Op /\ "wait" \in Op
    BY DEF Op, StepOp
  <2> QED
    BY <2>1, OutstandingIs DEF IInv, Beating, Beats, HeartbeatGoesOn
<1> QED
  BY <1>1, Invariant, PTL

\* bilibili.cpp:360-398: every chat message received is published exactly once
\* or still held by a thread, and nothing else is published.
THEOREM PublishedOnceHolds == Spec => []PublishedOnce
<1>1. IInv => PublishedOnce
  BY DEF IInv
<1> QED
  BY <1>1, Invariant, PTL

\* bilibili.cpp:121-151: what is parsed for the chat server ends with all of the
\* body after the header, for a body in any number of chunks however they arrive.
THEOREM ParsedBodyHolds == Spec => []ParsedBody
<1>1. IInv => ParsedBody
  <2> SUFFICES ASSUME IInv PROVE ParsedBody
    OBVIOUS
  <2>1. "resolve2" \in Op
    BY DEF Op, StepOp, Connecting
  <2> QED
    BY <2>1, OutstandingIs DEF IInv, Appended, ParsedBody
<1> QED
  BY <1>1, Invariant, PTL


-----------------------------------------------------------------------------
(* The refinement of TcpSession.                                           *)

\* One of the two hosts is being resolved, before and after a step.
LEMMA ResolvingIs ==
  ASSUME TypeOK
  PROVE  Resolving <=> Total(ops, "resolve") > 0 \/ Total(ops, "resolve2") > 0
<1>1. "resolve" \in Op /\ "resolve2" \in Op
  BY DEF Op, StepOp, Connecting
<1> QED
  BY <1>1, OutstandingIs DEF Resolving

LEMMA ResolvingBecomes ==
  ASSUME TypeOK'
  PROVE  Resolving' <=> Total(ops', "resolve") > 0 \/ Total(ops', "resolve2") > 0
<1>1. "resolve" \in Op /\ "resolve2" \in Op
  BY DEF Op, StepOp, Connecting
<1>2. Resolving' <=> Outstanding("resolve")' + Outstanding("resolve2")' > 0
  BY DEF Resolving
<1> QED
  BY <1>1, <1>2, OutstandingBecomes

\* A session that has not reported a failure has a step outstanding.
LEMMA QuietIsReported ==
  ASSUME TypeOK, OneAtATime, Quiet
  PROVE  reported
BY OutstandingIs DEF Quiet, OneAtATime, Op

LEMMA QuietBecomesReported ==
  ASSUME TypeOK', OneAtATime', Quiet'
  PROVE  reported'
BY OutstandingBecomes DEF Quiet, OneAtATime, Op

\* The stage of the session, before and after a step.
LEMMA StageIs ==
  ASSUME TypeOK, OneAtATime
  PROVE  /\ reported => Stage = IF Quiet THEN "ended" ELSE "draining"
         /\ ~reported => Stage = IF Resolving THEN "resolving"
                                 ELSE IF socket = "closed" THEN "aborting" ELSE "socket"
BY QuietIsReported DEF Stage

LEMMA StageBecomes ==
  ASSUME TypeOK', OneAtATime'
  PROVE  /\ reported' => Stage' = IF Quiet' THEN "ended" ELSE "draining"
         /\ ~reported' => Stage' = IF Resolving' THEN "resolving"
                                   ELSE IF socket' = "closed" THEN "aborting" ELSE "socket"
BY QuietBecomesReported DEF Stage

\* A step of a handler that is not about a report, and the two of one that is.
LEMMA WaitingKept ==
  ASSUME TypeOK, NEW t \in ClientThread, NEW to, pc' = [pc EXCEPT ![t] = to],
         ~Waiting[t], to \notin CallPc
  PROVE  Waiting' = Waiting
<1>1. \A u \in ClientThread : (pc'[u] \in CallPc) = (pc[u] \in CallPc)
  <2>1. pc[t] \notin CallPc /\ pc'[t] \notin CallPc
    BY DEF TypeOK, Waiting
  <2>2. \A u \in ClientThread : u # t => pc'[u] = pc[u]
    BY DEF TypeOK
  <2> QED
    BY <2>1, <2>2
<1> QED
  BY <1>1, Zenon DEF Waiting

LEMMA WaitingEnds ==
  ASSUME TypeOK, NEW t \in ClientThread, NEW to, pc' = [pc EXCEPT ![t] = to],
         to \notin CallPc
  PROVE  Waiting' = [Waiting EXCEPT ![t] = FALSE]
<1>1. (pc'[t] \in CallPc) = FALSE
  BY DEF TypeOK
<1>2. \A u \in ClientThread : u # t => (pc'[u] \in CallPc) = (pc[u] \in CallPc)
  BY DEF TypeOK
<1> QED
  BY <1>1, <1>2, Zenon DEF Waiting

LEMMA WaitingBegins ==
  ASSUME TypeOK, NEW t \in ClientThread, NEW to \in CallPc, pc' = [pc EXCEPT ![t] = to]
  PROVE  Waiting' = [Waiting EXCEPT ![t] = TRUE]
<1>1. (pc'[t] \in CallPc) = TRUE
  BY DEF TypeOK
<1>2. \A u \in ClientThread : u # t => (pc'[u] \in CallPc) = (pc[u] \in CallPc)
  BY DEF TypeOK
<1> QED
  BY <1>1, <1>2, Zenon DEF Waiting

\* A step that ends the session, or that the registry does not see.
LEMMA Unseen ==
  ASSUME TypeOK, TypeOK', OneAtATime, OneAtATime', Waiting' = Waiting,
         UNCHANGED <<said, reported>>, closing' = "no" <=> closing = "no",
         Resolving' <=> Resolving, socket' = socket \/ reported, Quiet => Quiet'
  PROVE  Session!End \/ UNCHANGED Session!vars
<1>1. (closing # "no")' = (closing # "no")
  OBVIOUS
<1>2. CASE Stage' = Stage
  BY <1>1, <1>2 DEF Session!vars
<1>3. CASE Stage' # Stage
  <2>1. Stage = "draining" /\ Stage' = "ended" /\ Quiet'
    BY <1>3, StageIs, StageBecomes
  <2>2. \A t \in ClientThread : ~Waiting[t]
    <3>1. \A t \in ClientThread : ~Waiting'[t]
      BY <2>1 DEF Quiet, Waiting, CallPc
    <3> QED
      BY <3>1
  <2> QED
    BY <1>1, <2>1, <2>2 DEF Session!End
<1> QED
  BY <1>2, <1>3

\* What is due, and a thread in a handler, make the session busy.
LEMMA DueIsBusy ==
  ASSUME TypeOK, NEW o \in Op, NEW how \in {"done", "failed"}, ops[o][how] > 0
  PROVE  ~Quiet
<1>1. Outstanding(o) > 0
  BY OpsOfType, TotalIsNat, OutstandingIs
<1> QED
  BY <1>1 DEF Quiet

\* The steps before and after a handler tell whether a host is being resolved.
LEMMA MovesSeen ==
  ASSUME TypeOK, TypeOK', OneAtATime, NEW o \in StepOp, NEW p \in StepOp, Moves(o, p)
  PROVE  /\ ~Quiet /\ ~Quiet'
         /\ Resolving <=> o \in {"resolve", "resolve2"}
         /\ Resolving' <=> p \in {"resolve", "resolve2"}
<1>1. "resolve" \in StepOp /\ "resolve2" \in StepOp /\ o \in Op /\ p \in Op
  BY DEF Op, StepOp, Connecting
<1>2. Total(ops, o) > 0 /\ \A q \in StepOp \ {o} : Total(ops, q) = 0
  BY DEF Moves, OneAtATime
<1>3. \A q \in StepOp : Total(ops', q) = IF q = p THEN 1 ELSE 0
  BY DEF Moves
<1>4. Resolving <=> o \in {"resolve", "resolve2"}
  BY <1>1, <1>2, ResolvingIs
<1>5. Resolving' <=> p \in {"resolve", "resolve2"}
  BY <1>1, <1>3, ResolvingBecomes
<1>6. Outstanding(o) > 0 /\ Outstanding(p)' > 0
  BY <1>1, <1>2, <1>3, OutstandingIs, OutstandingBecomes
<1> QED
  BY <1>1, <1>4, <1>5, <1>6 DEF Quiet

LEMMA StaysSeen ==
  ASSUME TypeOK, TypeOK', Stays
  PROVE  Resolving' <=> Resolving
<1>1. "resolve" \in StepOp /\ "resolve2" \in StepOp
  BY DEF StepOp, Connecting
<1> QED
  BY <1>1, ResolvingIs, ResolvingBecomes DEF Stays

\* A report: the one that ends the session, or one after it.
LEMMA ReportSeen ==
  ASSUME TypeOK, TypeOK', OneAtATime, OneAtATime', ~Quiet,
         NEW t \in ClientThread, ~Waiting[t],
         NEW to \in CallPc, pc' = [pc EXCEPT ![t] = to],
         said' = ~said, reported' = TRUE, closing' = closing
  PROVE  Session!FinalReport(t) \/ Session!ExtraReport(t)
<1>1. Waiting' = [Waiting EXCEPT ![t] = TRUE]
  BY WaitingBegins
<1>2. ~Quiet'
  BY DEF Quiet, TypeOK, CallPc
<1>3. (closing # "no")' = (closing # "no")
  OBVIOUS
<1>4. Stage' = "draining"
  BY <1>2, StageBecomes
<1>5. Stage \in {"draining", "resolving", "aborting", "socket"}
  BY StageIs
<1> QED
  BY <1>1, <1>3, <1>4, <1>5 DEF Session!FinalReport, Session!ExtraReport, Session!Report

LEMMA GoSeen ==
  ASSUME IInv, IInv', NEW t \in ClientThread, Go(t)
  PROVE  Session!Next \/ UNCHANGED Session!vars
<1> USE DEF IInv, Goto, registry, reports
<1>1. ~Quiet /\ (Resolving' <=> Resolving)
  <2>1. pc[t] # "idle"
    BY DEF Go, OnPlatformClose, Return, ShutSocket, CancelTimer, DispatchError, DispatchOther,
           HandleDanmu, ArmTimer, Report
  <2>2. Stays
    BY GoAside DEF Aside
  <2> QED
    BY <2>1, <2>2, StaysSeen DEF Quiet
<1>2. ASSUME OnPlatformClose(t)
      PROVE  Session!OnPlatformClose(t)
  <2>1. /\ pc[t] \in CallPc /\ Waiting[t]
        /\ UNCHANGED <<ops, socket, closing, said, reported>>
    BY <1>2 DEF OnPlatformClose, Waiting, CallPc
  <2>2. PICK to \in {"return", "shut", "close"} : pc' = [pc EXCEPT ![t] = to]
    BY <1>2 DEF OnPlatformClose
  <2>3. Waiting' = [Waiting EXCEPT ![t] = FALSE]
    BY <2>2, WaitingEnds DEF CallPc
  <2>4. ~Quiet'
    BY <2>2 DEF Quiet, TypeOK
  <2>5. Stage' = Stage
    BY <1>1, <2>1, <2>4, StageIs, StageBecomes
  <2>6. (closing # "no")' = (closing # "no")
    BY <2>1
  <2> QED
    BY <2>1, <2>3, <2>5, <2>6 DEF Session!OnPlatformClose
<1>3. ASSUME \/ Return(t) \/ ShutSocket(t) \/ CancelTimer(t) \/ DispatchOther(t)
             \/ ArmTimer(t)
      PROVE  Session!End \/ UNCHANGED Session!vars
  <2>1. /\ UNCHANGED <<said, reported, closing>>
        /\ socket' = socket \/ ShutSocket(t)
    BY <1>3 DEF Return, ShutSocket, CancelTimer, DispatchOther, ArmTimer
  <2>2. ShutSocket(t) => reported
    BY DEF ShutSocket, Ending, EndingPc
  <2>3. PICK to \in {"idle", "cancel"} : pc' = [pc EXCEPT ![t] = to]
    BY <1>3 DEF Return, ShutSocket, CancelTimer, DispatchOther, ArmTimer
  <2>4. pc[t] \notin CallPc
    BY <1>3 DEF Return, ShutSocket, CancelTimer, DispatchOther, ArmTimer, CallPc
  <2>5. Waiting' = Waiting
    BY <2>3, <2>4, WaitingKept DEF Waiting, CallPc
  <2> QED
    BY <1>1, <2>1, <2>2, <2>5, Unseen
<1>4. ASSUME HandleDanmu(t)
      PROVE  Session!Publish
  <2>1. /\ pc[t] = "dispatch" /\ pc' = [pc EXCEPT ![t] = "return"] /\ said' = ~said
        /\ UNCHANGED <<ops, socket, closing, reported>>
    BY <1>4 DEF HandleDanmu
  <2>2. Waiting' = Waiting
    BY <2>1, WaitingKept DEF Waiting, CallPc
  <2>3. ~Quiet'
    BY <2>1 DEF Quiet, TypeOK
  <2>4. ~Resolving
    <3>1. "resolve" \in StepOp \ Frame /\ "resolve2" \in StepOp \ Frame
      BY DEF StepOp, Connecting, Frame
    <3> QED
      BY <2>1, <3>1, ResolvingIs DEF NothingYet, Earlier
  <2>5. Stage' = Stage /\ Stage \in {"socket", "aborting", "draining"}
    BY <1>1, <2>1, <2>3, <2>4, StageIs, StageBecomes
  <2>6. (closing # "no")' = (closing # "no")
    BY <2>1
  <2> QED
    BY <2>1, <2>2, <2>5, <2>6 DEF Session!Publish
<1>5. ASSUME DispatchError(t)
      PROVE  Session!FinalReport(t) \/ Session!ExtraReport(t)
  <2>1. /\ said' = ~said /\ reported' = TRUE /\ closing' = closing
        /\ pc[t] = "dispatch" /\ pc' = [pc EXCEPT ![t] = "callClose"]
    BY <1>5 DEF DispatchError, Report
  <2>2. ~Waiting[t] /\ "callClose" \in CallPc
    BY <2>1 DEF Waiting, CallPc
  <2> QED
    BY <1>1, <2>1, <2>2, ReportSeen
<1> QED
  BY <1>2, <1>3, <1>4, <1>5 DEF Go, Session!Next

LEMMA BeginSeen ==
  ASSUME IInv, IInv', NEW t \in ClientThread, Begin(t)
  PROVE  Session!Next \/ UNCHANGED Session!vars
<1> USE DEF IInv, Goto, registry, reports
<1>1. pc[t] = "idle" /\ ~Waiting[t]
  <2>1. pc[t] = "idle"
    BY DEF Begin, OnError, OnHttpResolve, OnHttpConnect, OnRequest, HandleStatus, HandleHead,
           HandleContent, HandleEof, OnTcpResolve, OnTcpConnect, OnWritten, HandleHeader,
           HandleSkip, HandleData, HandleHeartbeatTimer, Connect, Continue, Report, on
  <2> QED
    BY <2>1 DEF Waiting, CallPc
<1>2. {"resolve", "connect", "request", "status", "head", "content", "resolve2", "connect2",
       "header", "data", "skip"} = StepOp /\ StepOp \subseteq Op
  BY DEF Op, StepOp, Connecting, Http, Frame
<1>3. ASSUME NEW o \in Op, NEW how \in {"done", "failed"}, ops[o][how] > 0,
             NEW to \in CallPc, Report(t, "idle", to)
      PROVE  Session!FinalReport(t) \/ Session!ExtraReport(t)
  <2>1. /\ said' = ~said /\ reported' = TRUE /\ closing' = closing
        /\ pc' = [pc EXCEPT ![t] = to] /\ ~Quiet
    BY <1>3, DueIsBusy DEF Report
  <2> QED
    BY <1>1, <2>1, ReportSeen
<1>4. ASSUME NEW o \in Op, OnError(t, o)
      PROVE  Session!FinalReport(t) \/ Session!ExtraReport(t)
  <2>1. ops[o]["failed"] > 0 /\ AfterError(o) \in CallPc /\ Report(t, "idle", AfterError(o))
    BY <1>4 DEF OnError, AfterError, CallPc
  <2> QED
    BY <1>3, <2>1
<1>5. ASSUME UNCHANGED <<said, reported, closing>>
      PROVE  (closing # "no")' = (closing # "no")
  BY <1>5
<1>6. ASSUME OnHttpResolve(t) \/ OnTcpResolve(t)
      PROVE  Session!Progress \/ UNCHANGED Session!vars
  <2>1. Resolving /\ ~Resolving' /\ ~Quiet /\ ~Quiet'
    BY <1>2, <1>6, Handlers, MovesSeen
  <2>2. socket' = "open" /\ UNCHANGED <<pc, said, reported, closing>>
    BY <1>6 DEF OnHttpResolve, OnTcpResolve, Connect
  <2>3. Waiting' = Waiting
    BY <2>2 DEF Waiting
  <2>4. CASE reported
    BY <1>5, <2>1, <2>2, <2>3, <2>4, StageIs, StageBecomes DEF Session!vars
  <2>5. CASE ~reported
    <3>1. Stage = "resolving" /\ Stage' = "socket"
      BY <2>1, <2>2, <2>5, StageIs, StageBecomes
    <3> QED
      BY <1>5, <2>2, <2>3, <3>1 DEF Session!Progress
  <2> QED
    BY <2>4, <2>5
<1>7. ASSUME HandleStatus(t), reported' # reported \/ pc' # pc
      PROVE  Session!FinalReport(t) \/ Session!ExtraReport(t)
  <2>1. ops["status"]["done"] > 0 /\ Report(t, "idle", "callReturn") /\ "callReturn" \in CallPc
    BY <1>7 DEF HandleStatus, Continue, on, CallPc
  <2> QED
    BY <1>2, <1>3, <2>1
<1>8. ASSUME HandleEof(t)
      PROVE  Session!Next \/ UNCHANGED Session!vars
  <2>1. ops["content"]["done"] > 0
    BY <1>8 DEF HandleEof, on
  <2>2. CASE Report(t, "idle", "callShut")
    BY <1>2, <1>3, <2>1, <2>2 DEF CallPc, Session!Next
  <2>3. CASE ~Report(t, "idle", "callShut")
    <3>1. /\ socket' = "closed" /\ UNCHANGED <<pc, said, reported, closing>>
          /\ ops' = Start(Consumed("content", "done"), "resolve2")
      BY <1>8, <2>3 DEF HandleEof
    <3>2. Moves("content", "resolve2")
      BY <1>2, <2>1, <3>1, TakenAndStarted
    <3>3. ~Resolving /\ Resolving' /\ ~Quiet /\ ~Quiet'
      BY <1>2, <3>2, MovesSeen
    <3>4. Waiting' = Waiting
      BY <3>1 DEF Waiting
    <3>5. CASE reported
      BY <1>5, <3>1, <3>3, <3>4, <3>5, StageIs, StageBecomes DEF Session!vars
    <3>6. CASE ~reported
      <4>1. Stage \in {"socket", "aborting"} /\ Stage' = "resolving"
        BY <3>1, <3>3, <3>6, StageIs, StageBecomes
      <4> QED
        BY <1>5, <3>1, <3>4, <4>1 DEF Session!Progress, Session!Next
    <3> QED
      BY <3>5, <3>6
  <2> QED
    BY <2>2, <2>3
<1>9. ASSUME NEW to \in {"idle", "dispatch", "arm"}, pc' = [pc EXCEPT ![t] = to],
             UNCHANGED <<socket, said, reported, closing>>,
             Resolving' <=> Resolving, ~Quiet
      PROVE  Session!End \/ UNCHANGED Session!vars
  <2>1. Waiting' = Waiting
    BY <1>1, <1>9, WaitingKept DEF CallPc
  <2> QED
    BY <1>9, <2>1, Unseen
<1>10. ASSUME \/ OnHttpConnect(t) \/ OnRequest(t) \/ HandleHead(t) \/ HandleContent(t)
              \/ OnTcpConnect(t) \/ HandleHeader(t) \/ HandleSkip(t) \/ HandleData(t)
              \/ (HandleStatus(t) /\ reported' = reported /\ pc' = pc)
       PROVE  Session!End \/ UNCHANGED Session!vars
  <2>1. PICK o \in StepOp, p \in StepOp :
          Moves(o, p) /\ {o, p} \cap {"resolve", "resolve2"} = {}
    <3>1. ASSUME HandleStatus(t), reported' = reported, pc' = pc
          PROVE  Moves("status", "head")
      <4>1. Continue(t, "status", "head")
        BY <3>1 DEF HandleStatus, Report, TypeOK
      <4>2. ops["status"]["done"] > 0 /\ ops' = Start(Consumed("status", "done"), "head")
        BY <4>1 DEF Continue, on
      <4> QED
        BY <1>2, <3>1, <4>2, TakenAndStarted
    <3>2. ASSUME HandleHeader(t)
          PROVE  \E p \in Frame : Moves("header", p)
      BY <3>2, Handlers
    <3>3. \/ Moves("connect", "request") \/ Moves("request", "status")
          \/ Moves("head", "content") \/ Moves("content", "content")
          \/ Moves("connect2", "header") \/ Moves("skip", "header")
          \/ Moves("data", "header") \/ Moves("status", "head")
          \/ \E p \in Frame : Moves("header", p)
      BY <1>10, <3>1, <3>2, Handlers
    <3> QED
      BY <1>2, <3>3 DEF Frame
  <2>2. UNCHANGED <<socket, said, closing>>
    <3>1. ASSUME NEW a, NEW b, Continue(t, a, b)
          PROVE  UNCHANGED <<socket, said, closing>>
      BY <3>1 DEF Continue
    <3>2. ASSUME HandleStatus(t), pc' = pc
          PROVE  Continue(t, "status", "head")
      BY <3>2 DEF HandleStatus, Report, TypeOK
    <3>3. ASSUME OnTcpConnect(t) \/ HandleData(t)
          PROVE  UNCHANGED <<socket, said, closing>>
      BY <3>3 DEF OnTcpConnect, HandleData
    <3>4. ASSUME OnHttpConnect(t) \/ OnRequest(t) \/ HandleHead(t) \/ HandleContent(t)
                 \/ HandleHeader(t) \/ HandleSkip(t)
          PROVE  \E a, b \in StepOp : Continue(t, a, b)
      BY <1>2, <3>4 DEF OnHttpConnect, OnRequest, HandleHead, HandleContent, HandleHeader,
                        HandleSkip, Frame
    <3> QED
      BY <1>10, <3>1, <3>2, <3>3, <3>4
  <2>3. \E to \in {"idle", "dispatch", "arm"} : pc' = [pc EXCEPT ![t] = to]
    <3>1. CASE OnTcpConnect(t) \/ HandleData(t)
      BY <3>1 DEF OnTcpConnect, HandleData
    <3>2. CASE pc' = pc
      BY <1>1, <3>2 DEF TypeOK
    <3> QED
      BY <1>10, <3>1, <3>2 DEF OnHttpConnect, OnRequest, HandleHead, HandleContent,
                               HandleHeader, HandleSkip, Continue
  <2>4. reported' = reported /\ ~Quiet /\ (Resolving' <=> Resolving)
    BY <2>1, MovesSeen DEF Moves
  <2> QED
    BY <1>9, <2>2, <2>3, <2>4
<1>11. ASSUME OnWritten(t) \/ HandleHeartbeatTimer(t)
       PROVE  Session!End \/ UNCHANGED Session!vars
  <2>1. Stays
    BY <1>11, Handlers DEF Aside
  <2>2. UNCHANGED <<socket, said, reported, closing>>
    BY <1>11 DEF OnWritten, HandleHeartbeatTimer
  <2>3. \E to \in {"idle", "dispatch", "arm"} : pc' = [pc EXCEPT ![t] = to]
    <3>1. CASE OnWritten(t)
      <4>1. pc' = pc
        BY <3>1 DEF OnWritten
      <4> QED
        BY <1>1, <4>1 DEF TypeOK
    <3>2. CASE HandleHeartbeatTimer(t)
      BY <3>2 DEF HandleHeartbeatTimer
    <3> QED
      BY <1>11, <3>1, <3>2
  <2>4. ~Quiet
    <3>1. PICK o \in {"write", "wait"} : ops[o]["done"] > 0
      BY <1>11 DEF OnWritten, HandleHeartbeatTimer, on
    <3> QED
      BY <3>1, DueIsBusy DEF Op
  <2> QED
    BY <1>9, <2>1, <2>2, <2>3, <2>4, StaysSeen
<1> QED
  BY <1>4, <1>6, <1>7, <1>8, <1>10, <1>11 DEF Begin, Session!Next

LEMMA OutsideSeen ==
  ASSUME IInv, IInv',
         (\E o \in Op : Complete(o)) \/ CloseSocket \/ CloseTimer \/ UNCHANGED vars
  PROVE  Session!Next \/ UNCHANGED Session!vars
<1> USE DEF IInv, registry, reports
<1>1. /\ UNCHANGED <<pc, said, reported>> /\ Waiting' = Waiting
      /\ Resolving' <=> Resolving
      /\ Quiet' <=> Quiet
  <2>1. UNCHANGED <<pc, said, reported>>
    BY DEF Complete, CloseSocket, CloseTimer, vars
  <2>2. Stays /\ \A o \in Op : Outstanding(o)' = Outstanding(o)
    BY OutsideStays, OutstandingIs, OutstandingBecomes
  <2> QED
    BY <2>1, <2>2, StaysSeen DEF Quiet, Waiting
<1>2. ASSUME (\E o \in Op : Complete(o)) \/ CloseTimer \/ UNCHANGED vars
      PROVE  Session!End \/ UNCHANGED Session!vars
  <2>1. socket' = socket /\ (closing' = "no" <=> closing = "no")
    BY <1>2 DEF Complete, CloseTimer, vars
  <2> QED
    BY <1>1, <2>1, Unseen
<1>3. ASSUME CloseSocket
      PROVE  Session!Close
  <2>1. /\ closing = "no" /\ closing' = "socket"
        /\ socket' = IF socket = "new" THEN "new" ELSE "closed"
    BY <1>3 DEF CloseSocket, Shut
  <2>2. (closing # "no")' = TRUE /\ ~(closing # "no")
    BY <2>1
  <2>3. socket = "new" /\ ~reported => Resolving
    BY ResolvingIs DEF Opened
  <2>4. Stage' = IF Stage = "socket" THEN "aborting" ELSE Stage
    BY <1>1, <2>1, <2>3, StageIs, StageBecomes
  <2> QED
    BY <1>1, <2>2, <2>4 DEF Session!Close
<1> QED
  BY <1>2, <1>3 DEF Session!Next

\* bilibili.cpp makes the publishes and reports that the registry relies on, in
\* the stages it relies on, although it resolves two hosts and closes and opens
\* its socket in between: every step of the session is a step of TcpSession or
\* one the registry does not see.
THEOREM SessionImplemented == Spec => ImplementsSession
<1>1. Init => Session!Init
  <2> SUFFICES ASSUME Init PROVE Session!Init
    OBVIOUS
  <2>1. TypeOK /\ OneAtATime /\ Opened
    BY InitIInv DEF IInv
  <2>2. Resolving /\ ~reported
    BY <2>1, ResolvingIs DEF Init, OpsInit, Opened
  <2>3. Stage = "resolving"
    BY <2>1, <2>2, StageIs
  <2>4. ASSUME NEW t \in ClientThread
        PROVE  (pc[t] \in CallPc) = FALSE
    BY DEF Init, CallPc
  <2>5. Waiting = [t \in ClientThread |-> FALSE]
    BY <2>4, Zenon DEF Waiting
  <2>6. (closing # "no") = FALSE
    BY DEF Init
  <2> QED
    BY <2>3, <2>5, <2>6 DEF Init, Session!Init
<1>2. IInv /\ IInv' /\ [Next]_vars => [Session!Next]_Session!vars
  BY GoSeen, BeginSeen, OutsideSeen DEF Next
<1> QED
  BY <1>1, <1>2, Invariant, PTL DEF Spec, ImplementsSession, Session!Spec
=============================================================================
