----------------------------- MODULE DouyuProofs -----------------------------
(* Proofs about the douyu session, for any client threads and bounds.      *)
EXTENDS Douyu, SequenceTheorems, TLAPS

-----------------------------------------------------------------------------
(* The inductive invariant.                                                *)

\* Resolve, connect and read follow one another, one at a time, until one of
\* them fails and is reported.
Total(f, o) == f[o].started + f[o].done + f[o].failed
Chain(f) == Total(f, "resolve") + Total(f, "connect") + Total(f, "header") + Total(f, "data")
OneAtATime ==
  /\ Chain(ops) <= 1
  /\ ~final => Chain(ops) = 1

\* A message that has been read is one of MaxMsg.
Bounded == ops["data"].done > 0 => received < MaxMsg

\* A handler that goes on to close the socket or to cancel the timer has
\* reported a failure.
Ending ==
  \A t \in ClientThread :
    pc[t] \in {"callShut", "callClose", "shut", "close", "cancel"} => final

\* No message has been read while the host is being resolved.
NothingYet ==
  Total(ops, "resolve") > 0 => ~login /\ \A t \in ClientThread : pc[t] # "dispatch"

\* A chat message that a thread holds has been received, is held by no other and
\* has not been published; all that were published have been received.
Holds(t) == pc[t] = "dispatch" /\ msg[t] = "chatmsg"
Holding ==
  /\ \A n \in chats : n <= received
  /\ \A t \in ClientThread : Holds(t) => num[t] \in chats
  /\ \A t, u \in ClientThread : Holds(t) /\ Holds(u) /\ num[t] = num[u] => t = u

IInv ==
  /\ TypeOK /\ OneAtATime /\ Bounded /\ Ending /\ NothingYet /\ HeartbeatGoesOn
  /\ Holding /\ PublishedOnce

-----------------------------------------------------------------------------
(* The operations.                                                         *)

Counts == [started : Nat, done : Nat, failed : Nat]
OpsFun == [Op -> Counts]

LEMMA TotalIsNat ==
  ASSUME NEW f \in OpsFun, NEW o \in Op
  PROVE  /\ f[o].started \in Nat /\ f[o].done \in Nat /\ f[o].failed \in Nat
         /\ Total(f, o) \in Nat
         /\ \A how \in {"done", "failed"} : f[o][how] \in Nat /\ f[o][how] <= Total(f, o)
<1>1. f[o] \in Counts
  BY DEF OpsFun
<1>2. f[o].started \in Nat /\ f[o].done \in Nat /\ f[o].failed \in Nat
  BY <1>1 DEF Counts
<1> QED
  BY <1>2 DEF Total

LEMMA StartCounts ==
  ASSUME NEW f \in OpsFun, NEW o \in Op
  PROVE  /\ Start(f, o) \in OpsFun
         /\ Total(Start(f, o), o) = Total(f, o) + 1
         /\ \A p \in Op : p # o => Start(f, o)[p] = f[p]
         /\ \A p \in Op : Start(f, o)[p].done = f[p].done
         /\ o \notin SocketOp => Start(f, o)[o].started = f[o].started + 1
BY DEF Start, OpsFun, Counts, Total

LEMMA AbortCounts ==
  ASSUME NEW f \in OpsFun, NEW S \in SUBSET Op
  PROVE  /\ Abort(f, S) \in OpsFun
         /\ \A p \in Op : Total(Abort(f, S), p) = Total(f, p)
         /\ \A p \in Op : Abort(f, S)[p].done = f[p].done
         /\ \A p \in Op : p \notin S => Abort(f, S)[p] = f[p]
<1>1. ASSUME NEW p \in Op
      PROVE  /\ Abort(f, S)[p] \in Counts
             /\ Total(Abort(f, S), p) = Total(f, p)
             /\ Abort(f, S)[p].done = f[p].done
             /\ p \notin S => Abort(f, S)[p] = f[p]
  <2>1. f[p] \in Counts
    BY DEF OpsFun
  <2>2. Abort(f, S)[p] = IF p \in S
                         THEN [started |-> 0, done |-> f[p].done,
                               failed |-> f[p].failed + f[p].started]
                         ELSE f[p]
    BY DEF Abort
  <2>3. CASE p \in S
    <3>1. /\ Abort(f, S)[p] \in Counts
          /\ Abort(f, S)[p].started = 0
          /\ Abort(f, S)[p].done = f[p].done
          /\ Abort(f, S)[p].failed = f[p].failed + f[p].started
      BY <2>1, <2>2, <2>3 DEF Counts
    <3> QED
      BY <2>1, <2>3, <3>1 DEF Counts, Total
  <2>4. CASE p \notin S
    BY <2>1, <2>2, <2>4 DEF Total
  <2> QED
    BY <2>3, <2>4
<1>2. Abort(f, S) \in OpsFun
  <2>1. Abort(f, S) = [p \in Op |-> Abort(f, S)[p]]
    BY DEF Abort
  <2> QED
    BY <1>1, <2>1 DEF OpsFun
<1> QED
  BY <1>1, <1>2

LEMMA ConsumedCounts ==
  ASSUME ops \in OpsFun, NEW o \in Op, NEW how \in {"done", "failed"}, ops[o][how] > 0
  PROVE  /\ Consumed(o, how) \in OpsFun
         /\ Total(Consumed(o, how), o) = Total(ops, o) - 1
         /\ \A p \in Op : p # o => Consumed(o, how)[p] = ops[p]
         /\ Consumed(o, how)[o].started = ops[o].started
         /\ how = "done" => Consumed(o, how)[o].done = ops[o].done - 1
         /\ how = "failed" => Consumed(o, how)[o].done = ops[o].done
<1>1. CASE how = "done"
  BY <1>1 DEF Consumed, OpsFun, Counts, Total
<1>2. CASE how = "failed"
  BY <1>2 DEF Consumed, OpsFun, Counts, Total
<1> QED
  BY <1>1, <1>2

LEMMA FinishCounts ==
  ASSUME ops \in OpsFun, NEW o \in Op, NEW how \in {"done", "failed"}, Finish(o, how)
  PROVE  /\ ops' \in OpsFun
         /\ \A p \in Op : Total(ops', p) = Total(ops, p)
         /\ \A p \in Op : p # o => ops'[p] = ops[p]
         /\ how = "failed" => ops'[o].done = ops[o].done
         /\ how = "done" => ops'[o].done = ops[o].done + 1
                            /\ ops'[o].started = ops[o].started - 1
<1>1. CASE how = "done"
  BY <1>1 DEF Finish, OpsFun, Counts, Total
<1>2. CASE how = "failed"
  BY <1>2 DEF Finish, OpsFun, Counts, Total
<1> QED
  BY <1>1, <1>2

-----------------------------------------------------------------------------
(* Types.                                                                  *)

LEMMA OpsOfType == TypeOK => ops \in OpsFun
BY DEF TypeOK, OpsType, OpsFun, Counts

\* The operations keep their type.
LEMMA OpsStep ==
  ASSUME TypeOK, [Next]_vars
  PROVE  ops' \in OpsFun
<1> USE OpsOfType DEF Op, SocketOp
<1>1. ASSUME NEW t \in ClientThread, Go(t)
      PROVE  ops' \in OpsFun
  <2>1. \/ ops' = ops
        \/ ops' = Abort(ops, SocketOp)
        \/ ops' = Abort(ops, {"wait"})
        \/ ops' = Start(Start(Abort(ops, {"wait"}), "wait"), "write")
        \/ ops' = Start(Abort(ops, {"wait"}), "wait")
    BY <1>1 DEF Go, OnPlatformClose, Return, ShutSocket, Shut, CancelTimer, DispatchError,
                DispatchOther, HandleChatmsg, HandleLoginres, ArmTimer, Arm
  <2> QED
    BY <2>1, AbortCounts, StartCounts
<1>2. ASSUME NEW t \in ClientThread, Begin(t)
      PROVE  ops' \in OpsFun
  <2>1. PICK o \in Op, how \in {"done", "failed"} :
          /\ ops[o][how] > 0
          /\ \/ ops' = Consumed(o, how)
             \/ \E p \in Op : ops' = Start(Consumed(o, how), p)
             \/ ops' = Start(Start(Consumed(o, how), "write"), "header")
    BY <1>2 DEF Begin, OnError, on, OnResolve, OnConnect, OnWritten, HandleHeader,
                HandleData, HandleHeartbeatTimer
  <2>2. Consumed(o, how) \in OpsFun
    BY <2>1, ConsumedCounts
  <2>3. \A p \in Op : Start(Consumed(o, how), p) \in OpsFun
    BY <2>2, StartCounts
  <2>4. Start(Start(Consumed(o, how), "write"), "header") \in OpsFun
    BY <2>3, StartCounts
  <2> QED
    BY <2>1, <2>2, <2>3, <2>4
<1>3. ASSUME NEW o \in Op, Complete(o)
      PROVE  ops' \in OpsFun
  BY <1>3, FinishCounts DEF Complete
<1>4. ASSUME CloseSocket \/ CloseTimer
      PROVE  ops' \in OpsFun
  BY <1>4, AbortCounts DEF CloseSocket, CloseTimer, Shut
<1>5. ASSUME UNCHANGED vars
      PROVE  ops' \in OpsFun
  BY <1>5 DEF vars
<1> QED
  BY <1>1, <1>2, <1>3, <1>4, <1>5 DEF Next

LEMMA TypeStep ==
  ASSUME TypeOK, Bounded, Holding, [Next]_vars
  PROVE  TypeOK'
<1> USE DEF TypeOK, CallPc, Goto, locals, registry, upstream, reports, Report
<1>1. OpsType'
  <2>1. ops' \in OpsFun
    BY OpsStep
  <2>2. socket' \in {"new", "open", "closed"}
    <3>1. ASSUME NEW t \in ClientThread, Go(t)
          PROVE  socket' \in {socket, "new", "closed"}
      BY <3>1 DEF Go, OnPlatformClose, Return, ShutSocket, Shut, CancelTimer,
                  DispatchError, DispatchOther, HandleChatmsg, HandleLoginres, ArmTimer
    <3>2. ASSUME NEW t \in ClientThread, Begin(t)
          PROVE  socket' \in {socket, "open"}
      BY <3>2 DEF Begin, OnError, OnResolve, OnConnect, OnWritten, HandleHeader,
                  HandleData, HandleHeartbeatTimer
    <3>3. ASSUME (\E o \in Op : Complete(o)) \/ CloseSocket \/ CloseTimer \/ UNCHANGED vars
          PROVE  socket' \in {socket, "new", "closed"}
      BY <3>3 DEF Complete, CloseSocket, Shut, CloseTimer, vars
    <3> QED
      BY <3>1, <3>2, <3>3 DEF Next, OpsType
  <2> QED
    BY <2>1, <2>2 DEF OpsType, OpsFun, Counts
<1>2. ASSUME NEW t \in ClientThread, OnPlatformClose(t) \/ Return(t) \/ ShutSocket(t)
                                     \/ CancelTimer(t)
      PROVE  TypeOK'
  BY <1>1, <1>2 DEF OnPlatformClose, Return, ShutSocket, CancelTimer
<1>3. ASSUME NEW t \in ClientThread, DispatchError(t) \/ DispatchOther(t)
      PROVE  TypeOK'
  BY <1>1, <1>3 DEF DispatchError, DispatchOther
<1>4. ASSUME NEW t \in ClientThread, HandleLoginres(t) \/ ArmTimer(t)
      PROVE  TypeOK'
  BY <1>1, <1>4 DEF HandleLoginres, ArmTimer
<1>5. ASSUME NEW t \in ClientThread, NEW o \in Op, OnError(t, o)
      PROVE  TypeOK'
  BY <1>1, <1>5 DEF OnError
<1>6. ASSUME NEW t \in ClientThread, OnResolve(t) \/ OnConnect(t) \/ OnWritten(t)
                                     \/ HandleHeader(t) \/ HandleHeartbeatTimer(t)
      PROVE  TypeOK'
  BY <1>1, <1>6 DEF OnResolve, OnConnect, OnWritten, HandleHeader, HandleHeartbeatTimer
<1>7. ASSUME (\E o \in Op : Complete(o)) \/ CloseSocket \/ CloseTimer \/ UNCHANGED vars
      PROVE  TypeOK'
  BY <1>1, <1>7 DEF Complete, CloseSocket, CloseTimer, vars
<1>8. ASSUME NEW t \in ClientThread, HandleChatmsg(t)
      PROVE  TypeOK'
  <2>1. num[t] \in 1..MaxMsg
    BY <1>8 DEF HandleChatmsg, Holding, Holds
  <2>2. out' \in Seq(1..MaxMsg)
    BY <1>8, <2>1, AppendProperties DEF HandleChatmsg
  <2> QED
    BY <1>1, <1>8, <2>2 DEF HandleChatmsg
<1>9. ASSUME NEW t \in ClientThread, HandleData(t)
      PROVE  TypeOK'
  <2>1. CASE UNCHANGED <<num, upstream>> /\ msg' = [msg EXCEPT ![t] = "error"]
    BY <1>1, <1>9, <2>1 DEF HandleData
  <2>2. CASE ops["data"].done > 0 /\ received' = received + 1
             /\ num' = [num EXCEPT ![t] = received']
             /\ \E k \in Kind :
                  /\ msg' = [msg EXCEPT ![t] = k]
                  /\ chats' = IF k = "chatmsg" THEN chats \cup {received'} ELSE chats
    <3>1. received' \in 1..MaxMsg
      BY <2>2, MaxMsgAssumption DEF Bounded
    <3>2. chats' \in SUBSET (1..MaxMsg) /\ msg' \in [ClientThread -> Kind \cup {"error"}]
          /\ num' \in [ClientThread -> 0..MaxMsg]
      BY <2>2, <3>1
    <3> QED
      BY <1>1, <1>9, <3>1, <3>2 DEF HandleData
  <2> QED
    BY <1>9, <2>1, <2>2 DEF HandleData
<1> QED
  BY <1>2, <1>3, <1>4, <1>5, <1>6, <1>7, <1>8, <1>9 DEF Next, Go, Begin

-----------------------------------------------------------------------------
(* One read at a time.                                                     *)

\* A step that leaves the chain of resolve, connect and reads alone.
ChainOp == {"resolve", "connect", "header", "data"}
Elsewhere ==
  /\ \A o \in ChainOp : Total(ops', o) = Total(ops, o)
  /\ ops'["data"].done = ops["data"].done
  /\ received' = received
  /\ final => final'

LEMMA ElsewhereKeeps ==
  ASSUME TypeOK, OneAtATime, Bounded, Elsewhere
  PROVE  OneAtATime' /\ Bounded'
BY DEF Elsewhere, ChainOp, OneAtATime, Bounded, Chain

\* Aborts change no total.
LEMMA AbortElsewhere ==
  ASSUME TypeOK, NEW S \in SUBSET Op, ops' \in {ops, Abort(ops, S)},
         received' = received, final => final'
  PROVE  Elsewhere
BY OpsOfType, AbortCounts DEF Elsewhere, ChainOp, Op

\* Nor do writes and waits concern the chain.
LEMMA StartElsewhere ==
  ASSUME NEW f \in OpsFun, NEW o \in {"write", "wait"}
  PROVE  /\ Start(f, o) \in OpsFun
         /\ \A p \in ChainOp : Start(f, o)[p] = f[p]
<1>1. o \in Op /\ \A p \in ChainOp : p \in Op /\ p # o
  BY DEF ChainOp, Op
<1> QED
  BY <1>1, StartCounts

LEMMA GoElsewhere ==
  ASSUME TypeOK, NEW t \in ClientThread, Go(t)
  PROVE  Elsewhere
<1> USE DEF reports, upstream, Report
<1>1. received' = received /\ (final => final')
  <2>1. CASE DispatchError(t)
    BY <2>1 DEF DispatchError, TypeOK
  <2>2. CASE OnPlatformClose(t) \/ Return(t) \/ ShutSocket(t) \/ CancelTimer(t)
    BY <2>2 DEF OnPlatformClose, Return, ShutSocket, CancelTimer
  <2>3. CASE DispatchOther(t) \/ HandleChatmsg(t) \/ HandleLoginres(t) \/ ArmTimer(t)
    BY <2>3 DEF DispatchOther, HandleChatmsg, HandleLoginres, ArmTimer
  <2> QED
    BY <2>1, <2>2, <2>3 DEF Go
<1>2. CASE OnPlatformClose(t) \/ Return(t) \/ DispatchError(t) \/ DispatchOther(t)
           \/ HandleChatmsg(t)
  BY <1>1, <1>2, AbortElsewhere
     DEF OnPlatformClose, Return, DispatchError, DispatchOther, HandleChatmsg
<1>3. CASE ShutSocket(t) \/ CancelTimer(t)
  <2>1. ops' = Abort(ops, SocketOp) \/ ops' = Abort(ops, {"wait"})
    BY <1>3 DEF ShutSocket, Shut, CancelTimer
  <2> QED
    BY <1>1, <2>1, AbortElsewhere DEF SocketOp, Op
<1>4. CASE HandleLoginres(t) \/ ArmTimer(t)
  <2> DEFINE f == Abort(ops, {"wait"})
             g == Start(f, "wait")
  <2>1. f \in OpsFun /\ \A o \in ChainOp : f[o] = ops[o]
    BY OpsOfType, AbortCounts DEF ChainOp, Op
  <2> HIDE DEF f
  <2>2. g \in OpsFun /\ \A o \in ChainOp : g[o] = ops[o]
    BY <2>1, StartElsewhere
  <2> HIDE DEF g
  <2>3. ops' \in {g, Start(g, "write")}
    BY <1>4 DEF HandleLoginres, ArmTimer, Arm, f, g
  <2>4. \A o \in ChainOp : ops'[o] = ops[o]
    BY <2>2, <2>3, StartElsewhere
  <2> QED
    BY <1>1, <2>4 DEF Elsewhere, ChainOp, Total
<1> QED
  BY <1>2, <1>3, <1>4 DEF Go

\* Consumed operations that are not of the chain.
LEMMA ConsumedElsewhere ==
  ASSUME TypeOK, NEW o \in {"write", "wait"}, NEW how \in {"done", "failed"},
         ops[o][how] > 0,
         ops' \in {Consumed(o, how), Start(Consumed(o, how), "write")},
         received' = received, final => final'
  PROVE  Elsewhere
<1>1. /\ Consumed(o, how) \in OpsFun
      /\ \A p \in ChainOp : Consumed(o, how)[p] = ops[p]
  BY OpsOfType, ConsumedCounts DEF ChainOp, Op
<1>2. \A p \in ChainOp : ops'[p] = ops[p]
  BY <1>1, StartElsewhere
<1> QED
  BY <1>2 DEF Elsewhere, ChainOp, Total

\* The next operation of the chain is started as the last one is done.
LEMMA ChainGoesOn ==
  ASSUME TypeOK, OneAtATime, Bounded,
         NEW o \in ChainOp, NEW how \in {"done", "failed"}, ops[o][how] > 0,
         NEW p \in ChainOp \ {o},
         \/ ops' = Start(Consumed(o, how), p)
         \/ p = "header" /\ ops' = Start(Start(Consumed(o, how), "write"), p),
         final' = final
  PROVE  OneAtATime' /\ Bounded'
<1> DEFINE f == Consumed(o, how)
           g == IF ops' = Start(f, p) THEN f ELSE Start(f, "write")
<1>1. ops \in OpsFun /\ ChainOp \subseteq Op
  BY OpsOfType DEF ChainOp, Op
<1>2. /\ f \in OpsFun
      /\ Total(f, o) = Total(ops, o) - 1
      /\ \A q \in ChainOp : q # o => f[q] = ops[q]
      /\ f["data"].done <= ops["data"].done
      /\ o = "data" => f["data"].done <= Total(f, "data")
  <2>1. \A q \in Op : q # o => f[q] = ops[q]
    BY <1>1, ConsumedCounts
  <2>2. f \in OpsFun /\ Total(f, o) = Total(ops, o) - 1
    BY <1>1, ConsumedCounts
  <2>3. f["data"].done <= Total(f, "data")
    BY <2>2 DEF OpsFun, Counts, Total, Op
  <2>4. f["data"].done <= ops["data"].done
    <3>1. CASE o = "data"
      <4>1. f[o].done \in {ops[o].done - 1, ops[o].done}
        BY <1>1, ConsumedCounts
      <4> QED
        BY <1>1, <3>1, <4>1 DEF OpsFun, Counts, Op
    <3>2. CASE o # "data"
      BY <1>1, <2>1, <3>2 DEF OpsFun, Counts, Op
    <3> QED
      BY <3>1, <3>2
  <2> QED
    BY <1>1, <2>1, <2>2, <2>3, <2>4
<1> HIDE DEF f
<1>3. g \in OpsFun /\ \A q \in ChainOp : g[q] = f[q]
  BY <1>2, StartElsewhere
<1>4. ops' = Start(g, p)
  BY DEF f
<1> HIDE DEF g
<1>5. /\ ops' \in OpsFun
      /\ Total(ops', p) = Total(g, p) + 1
      /\ \A q \in ChainOp : q # p => ops'[q] = g[q]
      /\ ops'["data"].done = g["data"].done
  <2>1. p \in Op /\ "data" \in Op /\ ChainOp \subseteq Op
    BY DEF ChainOp, Op
  <2>2. /\ ops' \in OpsFun
        /\ Total(ops', p) = Total(g, p) + 1
        /\ \A q \in Op : q # p => ops'[q] = g[q]
        /\ \A q \in Op : ops'[q].done = g[q].done
    BY <1>3, <1>4, <2>1, StartCounts
  <2> QED
    BY <2>1, <2>2
<1>6. \A q \in ChainOp : /\ Total(ops, q) \in Nat /\ Total(ops', q) \in Nat
                         /\ Total(f, q) = IF q = o THEN Total(ops, q) - 1
                                          ELSE Total(ops, q)
                         /\ Total(ops', q) = IF q = p THEN Total(f, q) + 1
                                             ELSE Total(f, q)
  BY <1>1, <1>2, <1>3, <1>5 DEF Total, OpsFun, Counts, ChainOp, Op
<1>7. Chain(ops') = Chain(ops)
  BY <1>6 DEF Chain, ChainOp
<1>8. OneAtATime'
  BY <1>7 DEF OneAtATime
<1>9. Total(ops, o) >= 1
  BY <1>1 DEF Total, OpsFun, Counts
<1>10. ops'["data"].done = 0
  <2>1. Total(f, "data") = 0
    <3>1. Total(ops, o) = 1 /\ \A q \in ChainOp : q # o => Total(ops, q) = 0
      <4>1. /\ Total(ops, "resolve") \in Nat /\ Total(ops, "connect") \in Nat
            /\ Total(ops, "header") \in Nat /\ Total(ops, "data") \in Nat
        BY <1>6 DEF ChainOp
      <4>2. Total(ops, "resolve") + Total(ops, "connect") + Total(ops, "header")
            + Total(ops, "data") <= 1
        BY DEF OneAtATime, Chain
      <4>3. CASE o = "resolve"
        BY <1>9, <4>1, <4>2, <4>3 DEF ChainOp
      <4>4. CASE o = "connect"
        BY <1>9, <4>1, <4>2, <4>4 DEF ChainOp
      <4>5. CASE o = "header"
        BY <1>9, <4>1, <4>2, <4>5 DEF ChainOp
      <4>6. CASE o = "data"
        <5>1. Total(ops, "data") >= 1
          BY <1>9, <4>6
        <5>2. /\ Total(ops, "data") = 1 /\ Total(ops, "resolve") = 0
              /\ Total(ops, "connect") = 0 /\ Total(ops, "header") = 0
          BY <4>1, <4>2, <5>1
        <5> QED
          BY <4>6, <5>2 DEF ChainOp
      <4> QED
        BY <4>3, <4>4, <4>5, <4>6 DEF ChainOp
    <3> QED
      BY <1>6, <3>1 DEF ChainOp
  <2>2. f["data"].done = 0
    BY <1>2, <2>1 DEF Total, OpsFun, Counts, Op
  <2> QED
    BY <1>3, <1>5, <2>2 DEF ChainOp
<1> QED
  BY <1>8, <1>10 DEF Bounded

LEMMA ReadingStep ==
  ASSUME TypeOK, OneAtATime, Bounded, [Next]_vars
  PROVE  OneAtATime' /\ Bounded'
<1> USE DEF reports, upstream, Report, on
<1>1. ASSUME NEW t \in ClientThread, Go(t)
      PROVE  OneAtATime' /\ Bounded'
  BY <1>1, GoElsewhere, ElsewhereKeeps
<1>2. ASSUME NEW t \in ClientThread, NEW o \in Op, OnError(t, o)
      PROVE  OneAtATime' /\ Bounded'
  <2>1. final' /\ received' = received /\ ops[o]["failed"] > 0
        /\ ops' = Consumed(o, "failed")
    BY <1>2 DEF OnError, TypeOK
  <2>2. /\ ops \in OpsFun /\ ops' \in OpsFun
        /\ \A p \in Op : Total(ops', p) = IF p = o THEN Total(ops, p) - 1 ELSE Total(ops, p)
        /\ ops'["data"].done = ops["data"].done
    <3>1. ops \in OpsFun
      BY OpsOfType
    <3>2. /\ ops' \in OpsFun /\ Total(ops', o) = Total(ops, o) - 1
          /\ \A p \in Op : p # o => ops'[p] = ops[p]
          /\ ops'[o].done = ops[o].done
      BY <2>1, <3>1, ConsumedCounts
    <3> QED
      BY <3>1, <3>2 DEF Total, Op
  <2>3. Chain(ops') <= Chain(ops)
    <3>1. \A p \in Op : Total(ops, p) \in Nat
      BY <2>2 DEF Total, OpsFun, Counts
    <3> QED
      BY <2>2, <3>1 DEF Chain, Op
  <2>4. Chain(ops) \in Int /\ Chain(ops') \in Int
    BY <2>2 DEF Chain, Total, OpsFun, Counts, Op
  <2> QED
    BY <2>1, <2>2, <2>3, <2>4 DEF OneAtATime, Bounded
<1>3. ASSUME NEW t \in ClientThread,
             OnResolve(t) \/ OnConnect(t) \/ HandleHeader(t) \/ HandleData(t)
      PROVE  OneAtATime' /\ Bounded'
  <2>1. final' = final
    BY <1>3 DEF OnResolve, OnConnect, HandleHeader, HandleData
  <2>2. PICK o \in ChainOp, how \in {"done", "failed"}, p \in ChainOp :
          /\ p # o
          /\ ops[o][how] > 0
          /\ \/ ops' = Start(Consumed(o, how), p)
             \/ p = "header" /\ ops' = Start(Start(Consumed(o, how), "write"), p)
    <3>1. CASE OnResolve(t)
      BY <3>1 DEF OnResolve, ChainOp
    <3>2. CASE OnConnect(t)
      BY <3>2 DEF OnConnect, ChainOp
    <3>3. CASE HandleHeader(t)
      BY <3>3 DEF HandleHeader, ChainOp
    <3>4. CASE HandleData(t)
      BY <3>4 DEF HandleData, ChainOp
    <3> QED
      BY <1>3, <3>1, <3>2, <3>3, <3>4
  <2> QED
    BY <2>1, <2>2, ChainGoesOn
<1>4. ASSUME NEW t \in ClientThread, OnWritten(t) \/ HandleHeartbeatTimer(t)
      PROVE  OneAtATime' /\ Bounded'
  BY <1>4, ConsumedElsewhere, ElsewhereKeeps DEF OnWritten, HandleHeartbeatTimer
<1>5. ASSUME NEW o \in Op, Complete(o)
      PROVE  OneAtATime' /\ Bounded'
  <2>1. UNCHANGED <<final, received>>
    BY <1>5 DEF Complete
  <2>2. PICK how \in {"done", "failed"} :
          Finish(o, how) /\ (o = "data" /\ how = "done" => received < MaxMsg)
    BY <1>5 DEF Complete
  <2>3. \A p \in Op : Total(ops', p) = Total(ops, p)
    BY <2>2, OpsOfType, FinishCounts
  <2>4. ops'["data"].done = ops["data"].done \/ (o = "data" /\ how = "done")
    BY <2>2, OpsOfType, FinishCounts DEF Op
  <2> QED
    BY <2>1, <2>2, <2>3, <2>4 DEF OneAtATime, Bounded, Chain, Op
<1>6. ASSUME CloseSocket \/ CloseTimer \/ UNCHANGED vars
      PROVE  OneAtATime' /\ Bounded'
  <2>1. ops' = Abort(ops, SocketOp) \/ ops' = Abort(ops, {"wait"}) \/ ops' = ops
    BY <1>6 DEF CloseSocket, Shut, CloseTimer, vars
  <2>2. UNCHANGED <<received, final>>
    BY <1>6 DEF CloseSocket, CloseTimer, vars
  <2> QED
    BY <2>1, <2>2, AbortElsewhere, ElsewhereKeeps DEF SocketOp, Op
<1> QED
  BY <1>1, <1>2, <1>3, <1>4, <1>5, <1>6 DEF Next, Begin

-----------------------------------------------------------------------------
(* The heartbeat.                                                          *)

LEMMA FinalStays ==
  ASSUME TypeOK, [Next]_vars, final
  PROVE  final'
<1> USE DEF reports, Report
<1>1. ASSUME NEW t \in ClientThread, Go(t)
      PROVE  final'
  BY <1>1, GoElsewhere DEF Elsewhere
<1>2. ASSUME NEW t \in ClientThread, Begin(t)
      PROVE  final'
  BY <1>2 DEF Begin, OnError, OnResolve, OnConnect, OnWritten, HandleHeader,
              HandleData, HandleHeartbeatTimer
<1>3. ASSUME (\E o \in Op : Complete(o)) \/ CloseSocket \/ CloseTimer \/ UNCHANGED vars
      PROVE  final'
  BY <1>3 DEF Complete, CloseSocket, CloseTimer, vars
<1> QED
  BY <1>1, <1>2, <1>3 DEF Next

EndingPc == {"callShut", "callClose", "shut", "close", "cancel"}

LEMMA EndingStep ==
  ASSUME TypeOK, Ending, [Next]_vars
  PROVE  Ending'
<1> USE DEF Goto, TypeOK, EndingPc
<1>1. final => final'
  BY FinalStays
<1>2. ASSUME NEW t \in ClientThread, NEW from, NEW to, Goto(t, from, to),
             to \in EndingPc => from \in EndingPc \/ final'
      PROVE  Ending'
  BY <1>1, <1>2 DEF Ending
<1>3. ASSUME NEW t \in ClientThread, OnPlatformClose(t) \/ Return(t) \/ ShutSocket(t)
      PROVE  Ending'
  <2>1. \/ Goto(t, "callReturn", "return") \/ Goto(t, "callShut", "shut")
        \/ Goto(t, "callClose", "close") \/ Goto(t, "return", "idle")
        \/ Goto(t, "shut", "idle") \/ Goto(t, "close", "cancel")
    BY <1>3 DEF OnPlatformClose, Return, ShutSocket
  <2> QED
    BY <1>2, <2>1
<1>4. ASSUME NEW t \in ClientThread,
             \/ CancelTimer(t) \/ DispatchOther(t) \/ HandleChatmsg(t)
             \/ HandleLoginres(t) \/ ArmTimer(t)
      PROVE  Ending'
  <2>1. \/ Goto(t, "cancel", "idle") \/ Goto(t, "dispatch", "idle")
        \/ Goto(t, "dispatch", "return") \/ Goto(t, "arm", "idle")
    BY <1>4 DEF CancelTimer, DispatchOther, HandleChatmsg, HandleLoginres, ArmTimer
  <2> QED
    BY <1>2, <2>1
<1>5. ASSUME NEW t \in ClientThread, DispatchError(t)
      PROVE  Ending'
  <2>1. \/ final' /\ Goto(t, "dispatch", "callClose")
        \/ Goto(t, "dispatch", "callReturn")
    BY <1>5 DEF DispatchError, Report
  <2>2. CASE final' /\ Goto(t, "dispatch", "callClose")
    BY <1>2, <2>2
  <2>3. CASE Goto(t, "dispatch", "callReturn")
    <3>1. "callReturn" \notin EndingPc
      OBVIOUS
    <3> QED
      BY <1>2, <2>3, <3>1
  <2> QED
    BY <2>1, <2>2, <2>3
<1>6. ASSUME NEW t \in ClientThread, NEW o \in Op, OnError(t, o)
      PROVE  Ending'
  <2>1. final' /\ \E to : Goto(t, "idle", to)
    BY <1>6 DEF OnError, Report
  <2> QED
    BY <1>2, <2>1
<1>7. ASSUME NEW t \in ClientThread, HandleData(t) \/ HandleHeartbeatTimer(t)
      PROVE  Ending'
  <2>1. Goto(t, "idle", "dispatch") \/ Goto(t, "idle", "arm")
    BY <1>7 DEF HandleData, HandleHeartbeatTimer
  <2> QED
    BY <1>2, <2>1
<1>8. ASSUME UNCHANGED pc
      PROVE  Ending'
  BY <1>1, <1>8 DEF Ending
<1>9. ASSUME NEW t \in ClientThread,
             OnResolve(t) \/ OnConnect(t) \/ OnWritten(t) \/ HandleHeader(t)
      PROVE  Ending'
  BY <1>8, <1>9 DEF OnResolve, OnConnect, OnWritten, HandleHeader
<1>10. ASSUME (\E o \in Op : Complete(o)) \/ CloseSocket \/ CloseTimer \/ UNCHANGED vars
       PROVE  Ending'
  BY <1>8, <1>10 DEF Complete, CloseSocket, CloseTimer, vars
<1> QED
  BY <1>3, <1>4, <1>5, <1>6, <1>7, <1>9, <1>10 DEF Next, Go, Begin

\* No read is started before the resolve is over, and none is resolved again.
LEMMA NothingYetStep ==
  ASSUME TypeOK, OneAtATime, NothingYet, [Next]_vars
  PROVE  NothingYet'
<1> USE DEF Goto, TypeOK, reports
<1>1. ASSUME NEW t \in ClientThread, Go(t)
      PROVE  NothingYet'
  <2>1. Total(ops', "resolve") = Total(ops, "resolve")
    BY <1>1, GoElsewhere DEF Elsewhere, ChainOp
  <2>2. \A u \in ClientThread : pc'[u] = "dispatch" => pc[u] = "dispatch"
    BY <1>1 DEF Go, OnPlatformClose, Return, ShutSocket, CancelTimer, DispatchError,
                DispatchOther, HandleChatmsg, HandleLoginres, ArmTimer, Report
  <2>3. login' = login \/ pc[t] = "dispatch"
    BY <1>1 DEF Go, OnPlatformClose, Return, ShutSocket, CancelTimer, DispatchError,
                DispatchOther, HandleChatmsg, HandleLoginres, ArmTimer, Report
  <2> QED
    BY <2>1, <2>2, <2>3 DEF NothingYet
<1>2. ASSUME NEW t \in ClientThread, HandleData(t)
      PROVE  NothingYet'
  <2>1. PICK how \in {"done", "failed"} :
          ops["data"][how] > 0 /\ ops' = Start(Consumed("data", how), "header")
    BY <1>2 DEF HandleData
  <2>2. ops \in OpsFun
    BY OpsOfType
  <2>3. Total(ops, "data") >= 1
    BY <2>1, <2>2, TotalIsNat DEF Op
  <2>4. /\ Total(ops, "resolve") \in Nat /\ Total(ops, "connect") \in Nat
        /\ Total(ops, "header") \in Nat /\ Total(ops, "data") \in Nat
    BY <2>2, TotalIsNat DEF Op
  <2>5. Total(ops, "resolve") = 0
    BY <2>3, <2>4 DEF OneAtATime, Chain
  <2>6. Consumed("data", how) \in OpsFun /\ Consumed("data", how)["resolve"] = ops["resolve"]
    BY <2>1, <2>2, ConsumedCounts DEF Op
  <2>7. ops'["resolve"] = ops["resolve"]
    BY <2>1, <2>6, StartCounts DEF Op
  <2> QED
    BY <2>5, <2>7 DEF NothingYet, Total
<1>3. ASSUME NEW t \in ClientThread,
             \/ \E o \in Op : OnError(t, o)
             \/ OnResolve(t) \/ OnConnect(t) \/ OnWritten(t) \/ HandleHeader(t)
             \/ HandleHeartbeatTimer(t)
      PROVE  NothingYet'
  <2>1. /\ login' = login
        /\ \A u \in ClientThread : pc'[u] = "dispatch" => pc[u] = "dispatch"
    <3>1. ASSUME NEW o \in Op, OnError(t, o)
          PROVE  /\ login' = login
                 /\ \A u \in ClientThread : pc'[u] = "dispatch" => pc[u] = "dispatch"
      BY <3>1 DEF OnError, Report
    <3> QED
      BY <1>3, <3>1 DEF OnResolve, OnConnect, OnWritten, HandleHeader, HandleHeartbeatTimer
  <2>2. PICK o \in Op, how \in {"done", "failed"} :
          /\ ops[o][how] > 0
          /\ \/ ops' = Consumed(o, how)
             \/ \E p \in {"connect", "data", "write"} : ops' = Start(Consumed(o, how), p)
             \/ ops' = Start(Start(Consumed(o, how), "write"), "header")
    <3>1. ASSUME NEW o \in Op, OnError(t, o)
          PROVE  ops[o]["failed"] > 0 /\ ops' = Consumed(o, "failed")
      BY <3>1 DEF OnError
    <3>2. CASE OnResolve(t)
      BY <3>2 DEF OnResolve, on, Op
    <3>3. CASE OnConnect(t)
      BY <3>3 DEF OnConnect, on, Op
    <3>4. CASE OnWritten(t)
      BY <3>4 DEF OnWritten, on, Op
    <3>5. CASE HandleHeader(t)
      BY <3>5 DEF HandleHeader, on, Op
    <3>6. CASE HandleHeartbeatTimer(t)
      BY <3>6 DEF HandleHeartbeatTimer, on, Op
    <3> QED
      BY <1>3, <3>1, <3>2, <3>3, <3>4, <3>5, <3>6
  <2>3. Consumed(o, how) \in OpsFun
        /\ Total(Consumed(o, how), "resolve") <= Total(ops, "resolve")
    <3>1. ops \in OpsFun
      BY OpsOfType
    <3>2. Consumed(o, how) \in OpsFun
          /\ Total(Consumed(o, how), o) = Total(ops, o) - 1
          /\ \A p \in Op : p # o => Consumed(o, how)[p] = ops[p]
      BY <2>2, <3>1, ConsumedCounts
    <3>3. Total(ops, "resolve") \in Nat /\ Total(Consumed(o, how), "resolve") \in Nat
      BY <3>1, <3>2, TotalIsNat DEF Op
    <3>4. CASE o = "resolve"
      BY <3>2, <3>3, <3>4
    <3>5. CASE o # "resolve"
      <4>1. Consumed(o, how)["resolve"] = ops["resolve"]
        BY <3>2, <3>5 DEF Op
      <4> QED
        BY <3>2, <3>3, <4>1 DEF Total
    <3> QED
      BY <3>4, <3>5
  <2>4. \A f \in OpsFun : \A p \in {"connect", "data", "write", "header"} :
          Start(f, p) \in OpsFun /\ Start(f, p)["resolve"] = f["resolve"]
    <3>1. "resolve" \in Op /\ {"connect", "data", "write", "header"} \subseteq Op \ {"resolve"}
      BY DEF Op
    <3> SUFFICES ASSUME NEW f \in OpsFun, NEW p \in {"connect", "data", "write", "header"}
                 PROVE  Start(f, p) \in OpsFun /\ Start(f, p)["resolve"] = f["resolve"]
      OBVIOUS
    <3>2. p \in Op /\ "resolve" # p
      BY <3>1
    <3> QED
      BY <3>1, <3>2, StartCounts
  <2>5. ops'["resolve"] = Consumed(o, how)["resolve"]
    BY <2>2, <2>3, <2>4
  <2>6. Total(ops', "resolve") <= Total(ops, "resolve")
    BY <2>3, <2>5 DEF Total
  <2>7. Total(ops', "resolve") > 0 => Total(ops, "resolve") > 0
    <3>1. Total(ops, "resolve") \in Nat /\ Total(Consumed(o, how), "resolve") \in Nat
      BY <2>3, OpsOfType, TotalIsNat DEF Op
    <3> QED
      BY <2>3, <2>5, <3>1 DEF Total
  <2> QED
    BY <2>1, <2>7 DEF NothingYet
<1>4. ASSUME (\E o \in Op : Complete(o)) \/ CloseSocket \/ CloseTimer \/ UNCHANGED vars
      PROVE  NothingYet'
  <2>1. UNCHANGED <<pc, login>>
    BY <1>4 DEF Complete, CloseSocket, CloseTimer, vars
  <2>2. Total(ops', "resolve") = Total(ops, "resolve")
    <3>1. ASSUME NEW o \in Op, Complete(o)
          PROVE  Total(ops', "resolve") = Total(ops, "resolve")
      BY <3>1, OpsOfType, FinishCounts DEF Complete, Op
    <3>2. CASE CloseSocket \/ CloseTimer \/ UNCHANGED vars
      <4>1. \/ ops' = Abort(ops, SocketOp) \/ ops' = Abort(ops, {"wait"}) \/ ops' = ops
        BY <3>2 DEF CloseSocket, Shut, CloseTimer, vars
      <4> QED
        BY <4>1, OpsOfType, AbortCounts DEF SocketOp, Op
    <3> QED
      BY <1>4, <3>1, <3>2
  <2> QED
    BY <2>1, <2>2 DEF NothingYet
<1> QED
  BY <1>1, <1>2, <1>3, <1>4 DEF Next, Begin

\* A wait is armed or expired, or about to be armed.
Ticking(f) == f["wait"].started + f["wait"].done > 0
Beats(f)   == Ticking(f) \/ \E t \in ClientThread : pc[t] = "arm"

LEMMA ArmTicks ==
  ASSUME NEW f \in OpsFun
  PROVE  Arm(f) \in OpsFun /\ Ticking(Arm(f))
<1>1. Abort(f, {"wait"}) \in OpsFun
  BY AbortCounts DEF Op
<1>2. Arm(f) \in OpsFun /\ Arm(f)["wait"].started = Abort(f, {"wait"})["wait"].started + 1
  BY <1>1, StartCounts DEF Arm, Op, SocketOp
<1> QED
  BY <1>1, <1>2 DEF Ticking, OpsFun, Counts, Op

\* A step that leaves the waits and the threads about to arm alone.
LEMMA TicksOn ==
  ASSUME HeartbeatGoesOn, login' = login, final => final',
         socket' = "open" => socket = "open" \/ ~login,
         closing' = "no" => closing = "no",
         ops'["wait"] = ops["wait"],
         \A t \in ClientThread : pc[t] = "arm" => pc'[t] = "arm"
  PROVE  HeartbeatGoesOn'
BY DEF HeartbeatGoesOn

LEMMA HeartbeatStep ==
  ASSUME TypeOK, OneAtATime, Ending, NothingYet, HeartbeatGoesOn, [Next]_vars
  PROVE  HeartbeatGoesOn'
<1> USE DEF Goto, reports, registry, Op
<1>1. (final => final') /\ ops \in OpsFun /\ ops' \in OpsFun
  BY FinalStays, OpsOfType, OpsStep
<1>2. ASSUME NEW t \in ClientThread,
             \/ OnPlatformClose(t) \/ Return(t) \/ DispatchError(t) \/ DispatchOther(t)
             \/ HandleChatmsg(t)
      PROVE  HeartbeatGoesOn'
  <2>1. UNCHANGED <<ops, socket, closing, login>>
    BY <1>2 DEF OnPlatformClose, Return, DispatchError, DispatchOther, HandleChatmsg, Report
  <2>2. \A u \in ClientThread : pc[u] = "arm" => pc'[u] = "arm"
    BY <1>2 DEF OnPlatformClose, Return, DispatchError, DispatchOther, HandleChatmsg,
                Report, TypeOK
  <2> QED
    BY <1>1, <2>1, <2>2, TicksOn
<1>3. ASSUME NEW t \in ClientThread, ShutSocket(t) \/ CancelTimer(t)
      PROVE  HeartbeatGoesOn'
  <2>1. final
    BY <1>3 DEF ShutSocket, CancelTimer, Ending
  <2> QED
    BY <1>1, <2>1 DEF HeartbeatGoesOn
<1>4. ASSUME NEW t \in ClientThread, HandleLoginres(t) \/ ArmTimer(t)
      PROVE  HeartbeatGoesOn'
  <2>1. Arm(ops) \in OpsFun /\ Ticking(Arm(ops))
    BY <1>1, ArmTicks
  <2>2. Start(Arm(ops), "write")["wait"] = Arm(ops)["wait"]
    BY <2>1, StartCounts
  <2>3. Ticking(ops')
    BY <1>4, <2>1, <2>2 DEF HandleLoginres, ArmTimer, Ticking
  <2> QED
    BY <2>3 DEF HeartbeatGoesOn, Ticking
<1>5. ASSUME NEW t \in ClientThread, NEW o \in Op, OnError(t, o)
      PROVE  HeartbeatGoesOn'
  <2>1. final'
    BY <1>5 DEF OnError, Report
  <2> QED
    BY <2>1 DEF HeartbeatGoesOn
<1>6. ASSUME NEW t \in ClientThread, OnResolve(t)
      PROVE  HeartbeatGoesOn'
  <2>1. login' = login /\ ops["resolve"].done > 0
    BY <1>6 DEF OnResolve, on
  <2>2. Total(ops, "resolve") > 0
    BY <1>1, <2>1, TotalIsNat
  <2>3. ~login'
    BY <2>1, <2>2 DEF NothingYet
  <2> QED
    BY <2>3 DEF HeartbeatGoesOn
<1>7. ASSUME NEW t \in ClientThread, OnConnect(t) \/ OnWritten(t) \/ HandleHeader(t)
                                     \/ HandleData(t)
      PROVE  HeartbeatGoesOn'
  <2>1. UNCHANGED <<socket, closing, login>>
    BY <1>7 DEF OnConnect, OnWritten, HandleHeader, HandleData
  <2>2. \A u \in ClientThread : pc[u] = "arm" => pc'[u] = "arm"
    BY <1>7 DEF OnConnect, OnWritten, HandleHeader, HandleData, TypeOK
  <2>3. PICK o \in {"connect", "write", "header", "data"}, how \in {"done", "failed"} :
          /\ ops[o][how] > 0
          /\ \/ ops' = Consumed(o, how)
             \/ \E p \in {"data", "header"} : ops' = Start(Consumed(o, how), p)
             \/ ops' = Start(Start(Consumed(o, how), "write"), "header")
    <3>1. CASE OnConnect(t)
      BY <3>1 DEF OnConnect, on
    <3>2. CASE OnWritten(t)
      BY <3>2 DEF OnWritten, on
    <3>3. CASE HandleHeader(t)
      BY <3>3 DEF HandleHeader, on
    <3>4. CASE HandleData(t)
      BY <3>4 DEF HandleData
    <3> QED
      BY <1>7, <3>1, <3>2, <3>3, <3>4
  <2>4. Consumed(o, how) \in OpsFun /\ Consumed(o, how)["wait"] = ops["wait"]
    <3>1. o \in Op /\ "wait" # o
      OBVIOUS
    <3> QED
      BY <1>1, <2>3, <3>1, ConsumedCounts
  <2>5. \A f \in OpsFun : \A p \in {"data", "header", "write"} :
          Start(f, p) \in OpsFun /\ Start(f, p)["wait"] = f["wait"]
    <3> SUFFICES ASSUME NEW f \in OpsFun, NEW p \in {"data", "header", "write"}
                 PROVE  Start(f, p) \in OpsFun /\ Start(f, p)["wait"] = f["wait"]
      OBVIOUS
    <3>1. p \in Op /\ "wait" # p
      OBVIOUS
    <3> QED
      BY <3>1, StartCounts
  <2>6. ops'["wait"] = ops["wait"]
    BY <2>3, <2>4, <2>5
  <2> QED
    BY <1>1, <2>1, <2>2, <2>6, TicksOn
<1>8. ASSUME NEW t \in ClientThread, HandleHeartbeatTimer(t)
      PROVE  HeartbeatGoesOn'
  <2>1. pc'[t] = "arm"
    BY <1>8 DEF HandleHeartbeatTimer, TypeOK
  <2> QED
    BY <2>1 DEF HeartbeatGoesOn
<1>9. ASSUME NEW o \in Op, Complete(o)
      PROVE  HeartbeatGoesOn'
  <2>1. UNCHANGED <<socket, pc, closing, login, final>>
    BY <1>9 DEF Complete
  <2>2. PICK how \in {"done", "failed"} : Finish(o, how) /\ (how = "failed" => o # "wait")
    BY <1>9 DEF Complete
  <2>3. CASE o = "wait"
    <3>1. ops'["wait"].started = ops["wait"].started - 1
          /\ ops'["wait"].done = ops["wait"].done + 1
      BY <1>1, <2>2, <2>3, FinishCounts
    <3>2. Ticking(ops') <=> Ticking(ops)
      BY <1>1, <3>1, TotalIsNat DEF Ticking
    <3> QED
      BY <2>1, <3>2 DEF HeartbeatGoesOn, Ticking
  <2>4. CASE o # "wait"
    <3>1. ops'["wait"] = ops["wait"]
      BY <1>1, <2>2, <2>4, FinishCounts
    <3> QED
      BY <1>1, <2>1, <3>1, TicksOn
  <2> QED
    BY <2>3, <2>4
<1>10. ASSUME CloseSocket \/ CloseTimer
       PROVE  HeartbeatGoesOn'
  <2>1. closing' # "no"
    BY <1>10 DEF CloseSocket, CloseTimer
  <2> QED
    BY <2>1 DEF HeartbeatGoesOn
<1>11. ASSUME UNCHANGED vars
       PROVE  HeartbeatGoesOn'
  BY <1>1, <1>11, TicksOn DEF vars
<1> QED
  BY <1>2, <1>3, <1>4, <1>5, <1>6, <1>7, <1>8, <1>9, <1>10, <1>11 DEF Next, Go, Begin

-----------------------------------------------------------------------------
(* Publication.                                                            *)

\* A step of a thread that neither takes a message nor gives one up.
LEMMA HoldingKept ==
  ASSUME TypeOK, Holding, PublishedOnce, UNCHANGED <<upstream, out, num>>,
         \A t \in ClientThread : Holds(t)' <=> Holds(t)
  PROVE  Holding' /\ PublishedOnce'
<1>1. \A n \in 1..MaxMsg : Held(n)' <=> Held(n)
  BY DEF Held, Holds
<1>2. PublishedOnce'
  <2>1. chats' = chats /\ out' = out
    BY DEF upstream
  <2>2. ASSUME NEW n \in 1..MaxMsg
        PROVE  IF n \in chats THEN Held(n)' # (\E i \in 1..Len(out) : out[i] = n)
               ELSE \A i \in 1..Len(out) : out[i] # n
    <3>1. Held(n) \in BOOLEAN /\ Held(n)' \in BOOLEAN
      BY DEF Held
    <3> QED
      BY <1>1, <3>1 DEF PublishedOnce
  <2> QED
    BY <2>1, <2>2 DEF PublishedOnce
<1>3. Holding'
  BY DEF Holding, upstream
<1> QED
  BY <1>2, <1>3

LEMMA SameHolds ==
  ASSUME TypeOK, NEW t \in ClientThread, NEW from, NEW to, Goto(t, from, to),
         ~Holds(t), to # "dispatch", msg' = msg
  PROVE  \A u \in ClientThread : Holds(u)' <=> Holds(u)
BY DEF Goto, Holds, TypeOK

LEMMA ChatmsgHolding ==
  ASSUME TypeOK, Holding, PublishedOnce, NEW t \in ClientThread, HandleChatmsg(t)
  PROVE  Holding' /\ PublishedOnce'
<1> DEFINE m == num[t]
<1>1. Holds(t) /\ out' = Append(out, m) /\ UNCHANGED <<msg, num, upstream>>
      /\ pc' = [pc EXCEPT ![t] = "return"]
  BY DEF HandleChatmsg, Goto, Holds, locals
<1>2. m \in chats /\ m \in 1..MaxMsg /\ out \in Seq(1..MaxMsg)
  BY <1>1 DEF Holding, TypeOK
<1>3. /\ Len(out) \in Nat /\ Len(out') = Len(out) + 1
      /\ \A i \in 1..Len(out) : out'[i] = out[i]
      /\ out'[Len(out) + 1] = m
  BY <1>1, <1>2, AppendProperties, LenProperties
<1>4. ~Holds(t)' /\ \A u \in ClientThread : u # t => (Holds(u)' <=> Holds(u))
  BY <1>1 DEF Holds, TypeOK
<1>5. Holding'
  BY <1>1, <1>4 DEF Holding, upstream
<1>6. \A u \in ClientThread : u # t /\ Holds(u) => num[u] # m
  BY <1>1 DEF Holding
<1>7. Held(m) /\ ~Held(m)'
  BY <1>1, <1>4, <1>6 DEF Held, Holds
<1>8. \A n \in 1..MaxMsg : n # m => (Held(n)' <=> Held(n))
  BY <1>1, <1>4 DEF Held, Holds
<1>9. \A i \in 1..Len(out) : out[i] # m
  BY <1>2, <1>7 DEF PublishedOnce
<1>10. \A i, j \in 1..Len(out') : out'[i] = out'[j] => i = j
  BY <1>3, <1>9 DEF PublishedOnce
<1>11. ASSUME NEW n \in 1..MaxMsg
       PROVE  IF n \in chats' THEN Held(n)' # (\E i \in 1..Len(out') : out'[i] = n)
              ELSE \A i \in 1..Len(out') : out'[i] # n
  <2>1. (\E i \in 1..Len(out') : out'[i] = n) <=> n = m \/ \E i \in 1..Len(out) : out[i] = n
    BY <1>3
  <2>2. Held(n) \in BOOLEAN /\ Held(n)' \in BOOLEAN
    BY DEF Held
  <2>3. CASE n = m
    BY <1>1, <1>2, <1>7, <2>1, <2>2, <2>3 DEF upstream
  <2>4. CASE n # m
    <3>1. chats' = chats
      BY <1>1 DEF upstream
    <3>2. Held(n)' <=> Held(n)
      BY <1>8, <2>4
    <3>3. (\E i \in 1..Len(out') : out'[i] = n) <=> \E i \in 1..Len(out) : out[i] = n
      BY <2>1, <2>4
    <3>4. IF n \in chats THEN Held(n) # (\E i \in 1..Len(out) : out[i] = n)
          ELSE ~ \E i \in 1..Len(out) : out[i] = n
      BY DEF PublishedOnce
    <3>5. IF n \in chats' THEN Held(n)' # (\E i \in 1..Len(out') : out'[i] = n)
          ELSE ~ \E i \in 1..Len(out') : out'[i] = n
      BY <2>2, <3>1, <3>2, <3>3, <3>4
    <3> QED
      BY <3>5
  <2> QED
    BY <2>3, <2>4
<1>12. PublishedOnce'
  BY <1>10, <1>11 DEF PublishedOnce
<1> QED
  BY <1>5, <1>12

LEMMA DataHolding ==
  ASSUME TypeOK, Bounded, Holding, PublishedOnce, NEW t \in ClientThread, HandleData(t)
  PROVE  Holding' /\ PublishedOnce'
<1>0. pc[t] = "idle" /\ pc' = [pc EXCEPT ![t] = "dispatch"] /\ out' = out
  BY DEF HandleData, Goto
<1>1. CASE UNCHANGED <<num, upstream>> /\ msg' = [msg EXCEPT ![t] = "error"]
  <2>1. \A u \in ClientThread : Holds(u)' <=> Holds(u)
    BY <1>0, <1>1 DEF Holds, TypeOK
  <2> QED
    BY <1>0, <1>1, <2>1, HoldingKept
<1>2. CASE ops["data"].done > 0 /\ received' = received + 1
           /\ num' = [num EXCEPT ![t] = received']
           /\ \E k \in Kind :
                /\ msg' = [msg EXCEPT ![t] = k]
                /\ chats' = IF k = "chatmsg" THEN chats \cup {received'} ELSE chats
  <2>1. PICK k \in Kind :
          /\ msg' = [msg EXCEPT ![t] = k]
          /\ chats' = IF k = "chatmsg" THEN chats \cup {received'} ELSE chats
    BY <1>2
  <2>2. PICK m \in 1..MaxMsg : m = received'
    BY <1>2, MaxMsgAssumption DEF TypeOK, Bounded
  <2>11. received \in Nat /\ m = received + 1
    BY <1>2, <2>2 DEF TypeOK
  <2>3. \A u \in ClientThread : /\ u # t => (Holds(u)' <=> Holds(u)) /\ num'[u] = num[u]
                                /\ u = t => (Holds(u)' <=> k = "chatmsg") /\ num'[u] = m
                                /\ ~Holds(t)
    BY <1>0, <1>2, <2>1, <2>2 DEF Holds, TypeOK
  <2>4. m \notin chats /\ \A n \in chats : n \in 1..MaxMsg /\ n <= received
    BY <2>11 DEF Holding, TypeOK
  <2>5. Holding'
    <3>1. \A n \in chats' : n <= m
      BY <2>11, <2>1, <2>2, <2>4
    <3>2. \A u \in ClientThread : Holds(u)' => num'[u] \in chats'
      BY <2>1, <2>2, <2>3 DEF Holding
    <3>3. \A u, v \in ClientThread : Holds(u)' /\ Holds(v)' /\ num'[u] = num'[v] => u = v
      BY <2>3, <2>4 DEF Holding
    <3> QED
      BY <2>2, <3>1, <3>2, <3>3 DEF Holding
  <2>6. \A n \in 1..MaxMsg : n # m => (Held(n)' <=> Held(n)) /\ (n \in chats' <=> n \in chats)
    BY <2>1, <2>2, <2>3 DEF Held, Holds
  <2>7. Held(m)' <=> k = "chatmsg"
    <3>1. Held(m)' <=> \E u \in ClientThread : Holds(u)' /\ num'[u] = m
      BY DEF Held, Holds
    <3>2. \A u \in ClientThread : u # t /\ Holds(u)' => num'[u] # m
      BY <2>3, <2>4 DEF Holding
    <3> QED
      BY <2>3, <3>1, <3>2
  <2>8. \A i \in 1..Len(out) : out[i] # m
    BY <2>2, <2>4 DEF PublishedOnce
  <2>9. ASSUME NEW n \in 1..MaxMsg
        PROVE  IF n \in chats' THEN Held(n)' # (\E i \in 1..Len(out) : out[i] = n)
               ELSE \A i \in 1..Len(out) : out[i] # n
    <3>1. CASE n = m
      <4>1. n \in chats' <=> k = "chatmsg"
        BY <2>1, <2>2, <2>4, <3>1
      <4>2. Held(n)' \in BOOLEAN
        BY DEF Held
      <4>3. Held(n)' <=> k = "chatmsg"
        BY <2>7, <3>1
      <4>4. ~ \E i \in 1..Len(out) : out[i] = n
        BY <2>8, <3>1
      <4> QED
        BY <4>1, <4>2, <4>3, <4>4
    <3>2. CASE n # m
      <4>1. (Held(n)' <=> Held(n)) /\ (n \in chats' <=> n \in chats)
        BY <2>6, <3>2
      <4>2. Held(n)' \in BOOLEAN /\ Held(n) \in BOOLEAN
        BY DEF Held
      <4> QED
        BY <4>1, <4>2 DEF PublishedOnce
    <3> QED
      BY <3>1, <3>2
  <2>10. PublishedOnce'
    BY <1>0, <2>9 DEF PublishedOnce
  <2> QED
    BY <2>5, <2>10
<1> QED
  BY <1>1, <1>2 DEF HandleData

LEMMA HoldingStep ==
  ASSUME TypeOK, Bounded, Holding, PublishedOnce, [Next]_vars
  PROVE  Holding' /\ PublishedOnce'
<1> USE DEF locals, Report
<1>1. ASSUME NEW t \in ClientThread, OnPlatformClose(t) \/ Return(t) \/ ShutSocket(t)
      PROVE  Holding' /\ PublishedOnce'
  <2>1. \/ Goto(t, "callReturn", "return") \/ Goto(t, "callShut", "shut")
        \/ Goto(t, "callClose", "close") \/ Goto(t, "return", "idle")
        \/ Goto(t, "shut", "idle") \/ Goto(t, "close", "cancel")
    BY <1>1 DEF OnPlatformClose, Return, ShutSocket
  <2>2. UNCHANGED <<upstream, out, num, msg>>
    BY <1>1 DEF OnPlatformClose, Return, ShutSocket
  <2>3. \A u \in ClientThread : Holds(u)' <=> Holds(u)
    BY <2>1, <2>2 DEF Goto, Holds, TypeOK
  <2> QED
    BY <2>2, <2>3, HoldingKept
<1>2. ASSUME NEW t \in ClientThread,
             \/ CancelTimer(t) \/ DispatchError(t) \/ DispatchOther(t) \/ HandleLoginres(t)
             \/ ArmTimer(t)
      PROVE  Holding' /\ PublishedOnce'
  <2>1. /\ ~Holds(t)
        /\ \E from : \/ Goto(t, from, "idle") \/ Goto(t, from, "callClose")
                     \/ Goto(t, from, "callReturn")
    <3>1. CASE CancelTimer(t) \/ ArmTimer(t)
      BY <3>1 DEF CancelTimer, ArmTimer, Goto, Holds
    <3>2. CASE DispatchError(t)
      BY <3>2 DEF DispatchError, Goto, Holds
    <3>3. CASE DispatchOther(t) \/ HandleLoginres(t)
      BY <3>3 DEF DispatchOther, HandleLoginres, Goto, Holds
    <3> QED
      BY <1>2, <3>1, <3>2, <3>3
  <2>2. UNCHANGED <<upstream, out, num, msg>>
    BY <1>2 DEF CancelTimer, DispatchError, DispatchOther, HandleLoginres, ArmTimer
  <2>3. \A u \in ClientThread : Holds(u)' <=> Holds(u)
    BY <2>1, <2>2 DEF Goto, Holds, TypeOK
  <2> QED
    BY <2>2, <2>3, HoldingKept
<1>3. ASSUME NEW t \in ClientThread, NEW o \in Op, OnError(t, o)
      PROVE  Holding' /\ PublishedOnce'
  <2>1. UNCHANGED <<upstream, out, num, msg>>
    BY <1>3 DEF OnError
  <2>2. pc[t] = "idle" /\ \E to : to # "dispatch" /\ Goto(t, "idle", to)
    BY <1>3 DEF OnError, Goto
  <2>3. \A u \in ClientThread : Holds(u)' <=> Holds(u)
    BY <2>1, <2>2 DEF Goto, Holds, TypeOK
  <2> QED
    BY <2>1, <2>3, HoldingKept
<1>4. ASSUME NEW t \in ClientThread, HandleHeartbeatTimer(t)
      PROVE  Holding' /\ PublishedOnce'
  <2>1. UNCHANGED <<upstream, out, num, msg>> /\ Goto(t, "idle", "arm")
    BY <1>4 DEF HandleHeartbeatTimer
  <2>2. \A u \in ClientThread : Holds(u)' <=> Holds(u)
    BY <2>1 DEF Goto, Holds, TypeOK
  <2> QED
    BY <2>1, <2>2, HoldingKept
<1>5. ASSUME UNCHANGED <<pc, msg, num, upstream, out>>
      PROVE  Holding' /\ PublishedOnce'
  <2>1. \A u \in ClientThread : Holds(u)' <=> Holds(u)
    BY <1>5 DEF Holds
  <2> QED
    BY <1>5, <2>1, HoldingKept
<1>6. ASSUME NEW t \in ClientThread,
             OnResolve(t) \/ OnConnect(t) \/ OnWritten(t) \/ HandleHeader(t)
      PROVE  Holding' /\ PublishedOnce'
  BY <1>5, <1>6 DEF OnResolve, OnConnect, OnWritten, HandleHeader
<1>7. ASSUME (\E o \in Op : Complete(o)) \/ CloseSocket \/ CloseTimer \/ UNCHANGED vars
      PROVE  Holding' /\ PublishedOnce'
  BY <1>5, <1>7 DEF Complete, CloseSocket, CloseTimer, vars
<1> QED
  BY <1>1, <1>2, <1>3, <1>4, <1>6, <1>7, ChatmsgHolding, DataHolding DEF Next, Go, Begin


-----------------------------------------------------------------------------
(* The theorems.                                                           *)

LEMMA InitIInv == Init => IInv
<1> SUFFICES ASSUME Init PROVE IInv
  OBVIOUS
<1> USE DEF Init, OpsInit, Op
<1>1. /\ ops \in OpsFun
      /\ \A o \in Op : ops[o] = [started |-> IF o = "resolve" THEN 1 ELSE 0,
                                 done |-> 0, failed |-> 0]
  BY DEF OpsFun, Counts
<1>2. TypeOK
  <2>1. OpsType
    BY <1>1 DEF OpsType, OpsFun, Counts
  <2>2. /\ pc \in [ClientThread -> {"idle"}]
        /\ msg \in [ClientThread -> Kind \cup {"error"}]
        /\ num \in [ClientThread -> 0..MaxMsg]
    BY MaxMsgAssumption DEF Kind
  <2>3. received \in 0..MaxMsg /\ out \in Seq(1..MaxMsg)
    BY MaxMsgAssumption
  <2> QED
    BY <2>1, <2>2, <2>3 DEF TypeOK
<1>3. OneAtATime /\ Bounded
  BY <1>1 DEF OneAtATime, Bounded, Chain, Total
<1>4. Ending /\ NothingYet /\ HeartbeatGoesOn
  BY DEF Ending, NothingYet, HeartbeatGoesOn
<1>5. Holding /\ PublishedOnce
  BY DEF Holding, Holds, PublishedOnce
<1> QED
  BY <1>2, <1>3, <1>4, <1>5 DEF IInv

LEMMA IInvStep == IInv /\ [Next]_vars => IInv'
<1> SUFFICES ASSUME IInv, [Next]_vars PROVE IInv'
  OBVIOUS
<1>1. TypeOK' /\ OneAtATime' /\ Bounded'
  BY TypeStep, ReadingStep DEF IInv
<1>2. Ending' /\ NothingYet' /\ HeartbeatGoesOn'
  BY EndingStep, NothingYetStep, HeartbeatStep DEF IInv
<1>3. Holding' /\ PublishedOnce'
  BY HoldingStep DEF IInv
<1> QED
  BY <1>1, <1>2, <1>3 DEF IInv

LEMMA Invariant == Spec => []IInv
BY InitIInv, IInvStep, PTL DEF Spec

\* Every variable keeps its type; above all, no more than MaxMsg messages are
\* counted, because handle_header and handle_data (douyu.cpp:71-136) never have
\* more than one read done.
THEOREM TypeCorrect == Spec => []TypeOK
<1>1. IInv => TypeOK
  BY DEF IInv
<1> QED
  BY <1>1, Invariant, PTL

\* douyu.cpp:71-136: at most one read of the socket is outstanding, and exactly
\* one from the connect on until an operation fails.
THEOREM OneReadHolds == Spec => []OneRead
<1>1. IInv => OneRead
  <2> SUFFICES ASSUME IInv PROVE OneRead
    OBVIOUS
  <2>1. \A o \in Op : Total(ops, o) \in Nat /\ Outstanding(o) = Total(ops, o)
    BY OpsOfType, TotalIsNat DEF IInv, Outstanding, Total
  <2>2. {"resolve", "connect", "header", "data"} \subseteq Op
    BY DEF Op
  <2> QED
    BY <2>1, <2>2 DEF IInv, OneAtATime, Chain, OneRead, Reads, Resolving
<1> QED
  BY <1>1, Invariant, PTL

\* douyu.cpp:138-169: a session that is logged in and not ending has a heartbeat
\* to come, although any number of threads set and cancel its only timer.
THEOREM HeartbeatHolds == Spec => []HeartbeatGoesOn
<1>1. IInv => HeartbeatGoesOn
  BY DEF IInv
<1> QED
  BY <1>1, Invariant, PTL

\* douyu.cpp:110-187: every chat message received is published exactly once or
\* still held by a thread, and nothing else is published.
THEOREM PublishedOnceHolds == Spec => []PublishedOnce
<1>1. IInv => PublishedOnce
  BY DEF IInv
<1> QED
  BY <1>1, Invariant, PTL

\* What has been published is in order, and what a thread holds comes after it.
Sorted ==
  /\ InOrder
  /\ \A t \in ClientThread : Holds(t) => \A i \in 1..Len(out) : out[i] < num[t]

\* All that was published has been received.
LEMMA OutIsReceived ==
  ASSUME TypeOK, Holding, PublishedOnce, NEW i \in 1..Len(out)
  PROVE  out[i] \in Nat /\ out[i] <= received
<1>1. out[i] \in 1..MaxMsg
  <2>1. out \in Seq(1..MaxMsg)
    BY DEF TypeOK
  <2> QED
    BY <2>1, ElementOfSeq
<1>2. out[i] \in chats
  BY <1>1 DEF PublishedOnce
<1> QED
  BY <1>1, <1>2, MaxMsgAssumption DEF Holding

LEMMA SortedStep ==
  ASSUME \A t, u \in ClientThread : t = u,
         TypeOK, TypeOK', Holding, PublishedOnce, Sorted, [Next]_vars
  PROVE  Sorted'
<1> USE DEF locals, upstream
<1>1. ASSUME NEW t \in ClientThread, HandleChatmsg(t)
      PROVE  Sorted'
  <2>1. /\ Holds(t) /\ out' = Append(out, num[t])
        /\ pc' = [pc EXCEPT ![t] = "return"]
    BY <1>1 DEF HandleChatmsg, Goto, Holds
  <2>2. \A u \in ClientThread : ~Holds(u)'
    BY <2>1 DEF Holds, TypeOK
  <2>3. out \in Seq(Nat) /\ num[t] \in Nat
    BY MaxMsgAssumption DEF TypeOK
  <2>4. \A i \in 1..Len(out) : out[i] < num[t]
    BY <2>1 DEF Sorted
  <2>5. /\ Len(out') = Len(out) + 1 /\ out'[Len(out) + 1] = num[t]
        /\ \A i \in 1..Len(out) : out'[i] = out[i]
    BY <2>1, <2>3
  <2>6. ASSUME NEW i \in 1..Len(out'), NEW j \in 1..Len(out'), i < j
        PROVE  out'[i] < out'[j]
    <3>1. CASE j = Len(out) + 1
      BY <2>3, <2>4, <2>5, <2>6, <3>1
    <3>2. CASE j # Len(out) + 1
      <4>1. i \in 1..Len(out) /\ j \in 1..Len(out)
        BY <2>3, <2>5, <2>6, <3>2
      <4> QED
        BY <2>5, <2>6, <4>1 DEF Sorted, InOrder
    <3> QED
      BY <3>1, <3>2
  <2> QED
    BY <2>2, <2>6 DEF Sorted, InOrder
<1>2. ASSUME NEW t \in ClientThread, HandleData(t)
      PROVE  Sorted'
  <2>1. /\ out' = out /\ pc' = [pc EXCEPT ![t] = "dispatch"]
        /\ \/ msg'[t] = "error"
           \/ num'[t] = received + 1
    BY <1>2 DEF HandleData, Goto, TypeOK
  <2>2. Holds(t)' => num'[t] = received + 1
    BY <2>1 DEF Holds
  <2>3. received \in Nat
    BY MaxMsgAssumption DEF TypeOK
  <2>4. \A i \in 1..Len(out) : out[i] < received + 1
    BY <2>3, OutIsReceived
  <2>5. \A u \in ClientThread : u = t
    OBVIOUS
  <2> QED
    BY <2>1, <2>2, <2>4, <2>5 DEF Sorted, InOrder
<1>3. ASSUME UNCHANGED <<out, num, msg>>,
             \A t \in ClientThread : pc'[t] = "dispatch" => pc[t] = "dispatch"
      PROVE  Sorted'
  BY <1>3 DEF Sorted, InOrder, Holds
<1>4. ASSUME NEW t \in ClientThread,
             \/ OnPlatformClose(t) \/ Return(t) \/ ShutSocket(t) \/ CancelTimer(t)
             \/ DispatchError(t) \/ DispatchOther(t) \/ HandleLoginres(t) \/ ArmTimer(t)
             \/ \E o \in Op : OnError(t, o)
             \/ HandleHeartbeatTimer(t)
      PROVE  Sorted'
  <2>1. UNCHANGED <<out, num, msg>>
    BY <1>4 DEF OnPlatformClose, Return, ShutSocket, CancelTimer, DispatchError, DispatchOther,
                HandleLoginres, ArmTimer, OnError, HandleHeartbeatTimer, Report
  <2>2. \E to \in {"return", "shut", "close", "idle", "cancel", "arm", "callReturn",
                   "callShut", "callClose"} : pc' = [pc EXCEPT ![t] = to]
    BY <1>4 DEF OnPlatformClose, Return, ShutSocket, CancelTimer, DispatchError, DispatchOther,
                HandleLoginres, ArmTimer, OnError, HandleHeartbeatTimer, Report, Goto
  <2> QED
    BY <1>3, <2>1, <2>2 DEF TypeOK
<1>5. ASSUME \/ \E t \in ClientThread :
                  OnResolve(t) \/ OnConnect(t) \/ OnWritten(t) \/ HandleHeader(t)
             \/ \E o \in Op : Complete(o)
             \/ CloseSocket \/ CloseTimer \/ UNCHANGED vars
      PROVE  Sorted'
  <2>1. UNCHANGED <<pc, out, num, msg>>
    BY <1>5 DEF OnResolve, OnConnect, OnWritten, HandleHeader, Complete, CloseSocket,
                CloseTimer, vars
  <2> QED
    BY <1>3, <2>1
<1> QED
  BY <1>1, <1>2, <1>4, <1>5 DEF Next, Go, Begin

\* douyu.cpp:104-187: with one client thread messages are published in the order
\* of their arrival, although handle_data starts the next read before it
\* publishes and however the failing operations and close() fall in between.
THEOREM OrderHolds ==
  ASSUME \A t, u \in ClientThread : t = u
  PROVE  Spec => []InOrder
<1>1. Init => Sorted
  BY DEF Init, Sorted, InOrder, Holds
<1>2. IInv /\ IInv' /\ Sorted /\ [Next]_vars => Sorted'
  BY SortedStep DEF IInv
<1>3. Sorted => InOrder
  BY DEF Sorted
<1> QED
  BY <1>1, <1>2, <1>3, Invariant, PTL DEF Spec

-----------------------------------------------------------------------------
(* The refinement of TcpSession.                                           *)

\* The socket has been opened once the host is resolved.
Opened == socket = "new" /\ ~final => Resolving

\* What is outstanding, before and after a step.
LEMMA OutstandingIs ==
  ASSUME TypeOK
  PROVE  \A o \in Op : Total(ops, o) \in Nat /\ Outstanding(o) = Total(ops, o)
BY OpsOfType, TotalIsNat DEF Outstanding, Total

LEMMA OutstandingBecomes ==
  ASSUME TypeOK'
  PROVE  \A o \in Op : Total(ops', o) \in Nat /\ Outstanding(o)' = Total(ops', o)
<1>1. ops' \in OpsFun
  BY DEF TypeOK, OpsType, OpsFun, Counts
<1> QED
  BY <1>1, TotalIsNat DEF Outstanding, Total

\* A session that has not reported a failure has an operation outstanding.
LEMMA QuietIsFinal ==
  ASSUME TypeOK, OneAtATime, Quiet
  PROVE  final
<1>1. {"resolve", "connect", "header", "data"} \subseteq Op
  BY DEF Op
<1>2. Chain(ops) = 0
  BY <1>1, OutstandingIs DEF Quiet, Chain
<1> QED
  BY <1>2 DEF OneAtATime

LEMMA QuietBecomesFinal ==
  ASSUME TypeOK', OneAtATime', Quiet'
  PROVE  final'
<1>1. {"resolve", "connect", "header", "data"} \subseteq Op
  BY DEF Op
<1>2. Chain(ops') = 0
  BY <1>1, OutstandingBecomes DEF Quiet, Chain
<1> QED
  BY <1>2 DEF OneAtATime

\* The stage of the session, before and after a step.
LEMMA StageIs ==
  ASSUME TypeOK, OneAtATime
  PROVE  /\ final => Stage = IF Quiet THEN "ended" ELSE "draining"
         /\ ~final => Stage = IF Resolving THEN "resolving"
                              ELSE IF socket = "closed" THEN "aborting" ELSE "socket"
BY QuietIsFinal DEF Stage

LEMMA StageBecomes ==
  ASSUME TypeOK', OneAtATime'
  PROVE  /\ final' => Stage' = IF Quiet' THEN "ended" ELSE "draining"
         /\ ~final' => Stage' = IF Resolving' THEN "resolving"
                                ELSE IF socket' = "closed" THEN "aborting" ELSE "socket"
BY QuietBecomesFinal DEF Stage

\* A step of a handler that is not about a report, and the two of one that is.
LEMMA WaitingKept ==
  ASSUME TypeOK, NEW t \in ClientThread, NEW to, pc' = [pc EXCEPT ![t] = to],
         ~Waiting[t], to \notin CallPc
  PROVE  Waiting' = Waiting
<1>1. \A u \in ClientThread : (pc'[u] \in CallPc) = (pc[u] \in CallPc)
  <2>1. pc[t] \notin CallPc /\ pc'[t] \notin CallPc
    BY DEF TypeOK, Waiting
  <2>2. \A u \in ClientThread : u # t => pc'[u] = pc[u]
    BY DEF TypeOK
  <2> QED
    BY <2>1, <2>2
<1> QED
  BY <1>1, Zenon DEF Waiting

LEMMA WaitingEnds ==
  ASSUME TypeOK, NEW t \in ClientThread, NEW to, pc' = [pc EXCEPT ![t] = to],
         to \notin CallPc
  PROVE  Waiting' = [Waiting EXCEPT ![t] = FALSE]
<1>1. (pc'[t] \in CallPc) = FALSE
  BY DEF TypeOK
<1>2. \A u \in ClientThread : u # t => (pc'[u] \in CallPc) = (pc[u] \in CallPc)
  BY DEF TypeOK
<1> QED
  BY <1>1, <1>2, Zenon DEF Waiting

LEMMA WaitingBegins ==
  ASSUME TypeOK, NEW t \in ClientThread, NEW to \in CallPc, pc' = [pc EXCEPT ![t] = to]
  PROVE  Waiting' = [Waiting EXCEPT ![t] = TRUE]
<1>1. (pc'[t] \in CallPc) = TRUE
  BY DEF TypeOK
<1>2. \A u \in ClientThread : u # t => (pc'[u] \in CallPc) = (pc[u] \in CallPc)
  BY DEF TypeOK
<1> QED
  BY <1>1, <1>2, Zenon DEF Waiting

\* A step that ends the session, or that the registry does not see.
LEMMA Unseen ==
  ASSUME TypeOK, TypeOK', OneAtATime, OneAtATime', Waiting' = Waiting,
         UNCHANGED <<final, said, reported>>, closing' = "no" <=> closing = "no",
         Resolving' <=> Resolving, socket' = socket \/ final, Quiet => Quiet'
  PROVE  Session!End \/ UNCHANGED Session!vars
<1>1. (closing # "no")' = (closing # "no")
  OBVIOUS
<1>2. CASE Stage' = Stage
  BY <1>1, <1>2 DEF Session!vars
<1>3. CASE Stage' # Stage
  <2>1. Stage = "draining" /\ Stage' = "ended" /\ Quiet'
    BY <1>3, StageIs, StageBecomes
  <2>2. \A t \in ClientThread : ~Waiting[t]
    <3>1. \A t \in ClientThread : ~Waiting'[t]
      BY <2>1 DEF Quiet, Busy, Waiting, CallPc
    <3> QED
      BY <3>1
  <2> QED
    BY <1>1, <2>1, <2>2 DEF Session!End
<1> QED
  BY <1>2, <1>3

\* A step that neither starts nor ends a resolve.
LEMMA ResolvingKept ==
  ASSUME TypeOK, TypeOK', Total(ops', "resolve") = Total(ops, "resolve")
  PROVE  Resolving' <=> Resolving
<1>1. "resolve" \in Op
  BY DEF Op
<1> QED
  BY <1>1, OutstandingIs, OutstandingBecomes DEF Resolving

\* A step that neither starts nor ends any operation.
LEMMA TotalsKept ==
  ASSUME TypeOK, TypeOK', \A o \in Op : Total(ops', o) = Total(ops, o)
  PROVE  /\ Resolving' <=> Resolving
         /\ pc' = pc => (Quiet' <=> Quiet)
<1>1. "resolve" \in Op
  BY DEF Op
<1>2. \A o \in Op : Outstanding(o)' = Outstanding(o)
  BY OutstandingIs, OutstandingBecomes
<1> QED
  BY <1>1, <1>2, ResolvingKept DEF Quiet, Busy

\* An operation that is due makes the session busy.
LEMMA DueIsBusy ==
  ASSUME TypeOK, NEW o \in Op, NEW how \in {"done", "failed"}, ops[o][how] > 0
  PROVE  ~Quiet
<1>1. Outstanding(o) > 0
  BY OpsOfType, TotalIsNat, OutstandingIs
<1> QED
  BY <1>1 DEF Quiet

LEMMA TakenKeepsResolve ==
  ASSUME TypeOK, TypeOK', NEW t \in ClientThread,
         \/ OnConnect(t) \/ OnWritten(t) \/ HandleHeader(t) \/ HandleData(t)
         \/ HandleHeartbeatTimer(t)
  PROVE  ~Quiet /\ (Resolving' <=> Resolving)
<1>1. PICK o \in Op \ {"resolve"}, how \in {"done", "failed"} :
        /\ ops[o][how] > 0
        /\ \/ ops' = Consumed(o, how)
           \/ \E p \in {"data", "write", "header"} : ops' = Start(Consumed(o, how), p)
           \/ ops' = Start(Start(Consumed(o, how), "write"), "header")
  <2>1. CASE OnConnect(t)
    BY <2>1 DEF OnConnect, on, Op
  <2>2. CASE OnWritten(t)
    BY <2>2 DEF OnWritten, on, Op
  <2>3. CASE HandleHeader(t)
    BY <2>3 DEF HandleHeader, on, Op
  <2>4. CASE HandleData(t)
    BY <2>4 DEF HandleData, Op
  <2>5. CASE HandleHeartbeatTimer(t)
    BY <2>5 DEF HandleHeartbeatTimer, on, Op
  <2> QED
    BY <2>1, <2>2, <2>3, <2>4, <2>5
<1>2. "resolve" \in Op /\ {"data", "write", "header"} \subseteq Op \ {"resolve"}
  BY DEF Op
<1>3. Consumed(o, how) \in OpsFun /\ Consumed(o, how)["resolve"] = ops["resolve"]
  BY <1>1, <1>2, OpsOfType, ConsumedCounts
<1>4. ASSUME NEW f \in OpsFun, NEW p \in {"data", "write", "header"}
      PROVE  Start(f, p) \in OpsFun /\ Start(f, p)["resolve"] = f["resolve"]
  <2>1. p \in Op /\ "resolve" # p
    BY <1>2
  <2> QED
    BY <1>2, <2>1, StartCounts
<1>5. ops'["resolve"] = ops["resolve"]
  BY <1>1, <1>3, <1>4
<1> QED
  BY <1>1, <1>5, DueIsBusy, ResolvingKept DEF Total

\* The network, the clock and close() neither start an operation nor take its
\* handler.
LEMMA OutsideKeeps ==
  ASSUME TypeOK, (\E o \in Op : Complete(o)) \/ CloseSocket \/ CloseTimer \/ UNCHANGED vars
  PROVE  /\ \A o \in Op : Total(ops', o) = Total(ops, o)
         /\ socket' = "new" => socket = "new"
<1>1. CASE \E o \in Op : Complete(o)
  BY <1>1, OpsOfType, FinishCounts DEF Complete
<1>2. CASE CloseSocket \/ CloseTimer \/ UNCHANGED vars
  <2>1. /\ ops' = Abort(ops, SocketOp) \/ ops' = Abort(ops, {"wait"}) \/ ops' = ops
        /\ socket' = "new" => socket = "new"
    BY <1>2 DEF CloseSocket, Shut, CloseTimer, vars
  <2> QED
    BY <2>1, OpsOfType, AbortCounts DEF SocketOp, Op
<1> QED
  BY <1>1, <1>2

LEMMA OpenedStep ==
  ASSUME TypeOK, TypeOK', Opened, [Next]_vars
  PROVE  Opened'
<1>1. final => final'
  BY FinalStays
<1>2. ASSUME NEW t \in ClientThread, Go(t)
      PROVE  Opened'
  <2>1. Resolving' <=> Resolving
    BY <1>2, GoElsewhere, ResolvingKept DEF Elsewhere, ChainOp
  <2>2. socket' = "new" => socket = "new"
    BY <1>2 DEF Go, OnPlatformClose, Return, ShutSocket, Shut, CancelTimer, DispatchError,
                DispatchOther, HandleChatmsg, HandleLoginres, ArmTimer, Report
  <2> QED
    BY <1>1, <2>1, <2>2 DEF Opened
<1>3. ASSUME NEW t \in ClientThread, Begin(t)
      PROVE  Opened'
  <2>1. CASE \E o \in Op : OnError(t, o)
    BY <2>1 DEF OnError, Report, Opened
  <2>2. CASE OnResolve(t)
    BY <2>2 DEF OnResolve, Opened
  <2>3. CASE \/ OnConnect(t) \/ OnWritten(t) \/ HandleHeader(t) \/ HandleData(t)
             \/ HandleHeartbeatTimer(t)
    <3>1. socket' = socket
      BY <2>3 DEF OnConnect, OnWritten, HandleHeader, HandleData, HandleHeartbeatTimer
    <3> QED
      BY <1>1, <2>3, <3>1, TakenKeepsResolve DEF Opened
  <2> QED
    BY <1>3, <2>1, <2>2, <2>3 DEF Begin
<1>4. ASSUME (\E o \in Op : Complete(o)) \/ CloseSocket \/ CloseTimer \/ UNCHANGED vars
      PROVE  Opened'
  BY <1>1, <1>4, OutsideKeeps, TotalsKept DEF Opened
<1> QED
  BY <1>2, <1>3, <1>4 DEF Next

\* A report: the one that ends the session, one after it, or that of a message
\* without its end.
LEMMA ReportSeen ==
  ASSUME TypeOK, TypeOK', OneAtATime, OneAtATime', ~Quiet, final => final',
         NEW t \in ClientThread, ~Waiting[t],
         NEW to \in CallPc, pc' = [pc EXCEPT ![t] = to],
         said' = ~said, reported' = TRUE, closing' = closing,
         final' \/ (Stage = "socket" /\ Stage' = "socket")
  PROVE  Session!FinalReport(t) \/ Session!ExtraReport(t)
<1>1. Waiting' = [Waiting EXCEPT ![t] = TRUE]
  BY WaitingBegins
<1>2. ~Quiet'
  BY DEF Quiet, Busy, TypeOK, CallPc
<1>3. (closing # "no")' = (closing # "no")
  OBVIOUS
<1>4. CASE final'
  <2>1. Stage' = "draining"
    BY <1>2, <1>4, StageBecomes
  <2>2. Stage \in {"draining", "resolving", "aborting", "socket"}
    BY StageIs
  <2> QED
    BY <1>1, <1>3, <2>1, <2>2 DEF Session!FinalReport, Session!ExtraReport, Session!Report
<1>5. CASE Stage = "socket" /\ Stage' = "socket"
  BY <1>1, <1>3, <1>5 DEF Session!ExtraReport, Session!Report
<1> QED
  BY <1>4, <1>5

LEMMA DispatchErrorSeen ==
  ASSUME TypeOK, TypeOK', OneAtATime, OneAtATime', NothingYet,
         NEW t \in ClientThread, DispatchError(t)
  PROVE  Session!FinalReport(t) \/ Session!ExtraReport(t)
<1> USE DEF Report, Goto, registry
<1>1. /\ pc[t] = "dispatch" /\ UNCHANGED <<ops, socket, closing>>
      /\ said' = ~said /\ reported' = TRUE
  BY DEF DispatchError
<1>2. PICK to \in CallPc : pc' = [pc EXCEPT ![t] = to]
  BY DEF DispatchError, CallPc
<1>3. ~Waiting[t] /\ ~Quiet
  BY <1>1 DEF Waiting, CallPc, Quiet, Busy
<1>4. final => final'
  BY FinalStays DEF Next, Go
<1>5. final' \/ (Stage = "socket" /\ Stage' = "socket")
  <2> SUFFICES ASSUME ~final' PROVE Stage = "socket" /\ Stage' = "socket"
    OBVIOUS
  <2>1. socket # "closed" /\ ~final
    BY DEF DispatchError, TypeOK
  <2>2. "resolve" \in Op
    BY DEF Op
  <2>3. ~Resolving
    BY <1>1, <2>2, OutstandingIs DEF NothingYet, Resolving
  <2>4. ~Resolving'
    BY <1>1, <2>3 DEF Resolving, Outstanding
  <2> QED
    BY <1>1, <2>1, <2>3, <2>4, StageIs, StageBecomes
<1> QED
  BY <1>1, <1>2, <1>3, <1>4, <1>5, ReportSeen

LEMMA GoSeen ==
  ASSUME IInv, IInv', NEW t \in ClientThread, Go(t)
  PROVE  Session!Next \/ UNCHANGED Session!vars
<1> USE DEF IInv, Goto, registry, reports
<1>1. ~Quiet /\ (Resolving' <=> Resolving)
  <2>1. pc[t] # "idle"
    BY DEF Go, OnPlatformClose, Return, ShutSocket, CancelTimer, DispatchError, DispatchOther,
           HandleChatmsg, HandleLoginres, ArmTimer, Report
  <2> QED
    BY <2>1, GoElsewhere, ResolvingKept DEF Elsewhere, ChainOp, Quiet, Busy
<1>2. ASSUME OnPlatformClose(t)
      PROVE  Session!OnPlatformClose(t)
  <2>1. /\ pc[t] \in CallPc /\ Waiting[t]
        /\ UNCHANGED <<ops, socket, closing, said, reported, final>>
    BY <1>2 DEF OnPlatformClose, Waiting, CallPc
  <2>2. PICK to \in {"return", "shut", "close"} : pc' = [pc EXCEPT ![t] = to]
    BY <1>2 DEF OnPlatformClose
  <2>3. Waiting' = [Waiting EXCEPT ![t] = FALSE]
    BY <2>2, WaitingEnds DEF CallPc
  <2>4. ~Quiet'
    BY <2>2 DEF Quiet, Busy, TypeOK
  <2>5. Stage' = Stage
    BY <1>1, <2>1, <2>4, StageIs, StageBecomes
  <2>6. (closing # "no")' = (closing # "no")
    BY <2>1
  <2> QED
    BY <2>1, <2>3, <2>5, <2>6 DEF Session!OnPlatformClose
<1>3. ASSUME \/ Return(t) \/ ShutSocket(t) \/ CancelTimer(t) \/ DispatchOther(t)
             \/ HandleLoginres(t) \/ ArmTimer(t)
      PROVE  Session!End \/ UNCHANGED Session!vars
  <2>1. /\ UNCHANGED <<final, said, reported, closing>>
        /\ socket' = socket \/ ShutSocket(t)
    BY <1>3 DEF Return, ShutSocket, CancelTimer, DispatchOther, HandleLoginres, ArmTimer
  <2>2. ShutSocket(t) => final
    BY DEF ShutSocket, Ending
  <2>3. PICK to \in {"idle", "cancel"} : pc' = [pc EXCEPT ![t] = to]
    BY <1>3 DEF Return, ShutSocket, CancelTimer, DispatchOther, HandleLoginres, ArmTimer
  <2>4. pc[t] \notin CallPc
    BY <1>3 DEF Return, ShutSocket, CancelTimer, DispatchOther, HandleLoginres, ArmTimer,
                CallPc
  <2>5. Waiting' = Waiting
    BY <2>3, <2>4, WaitingKept DEF Waiting, CallPc
  <2> QED
    BY <1>1, <2>1, <2>2, <2>5, Unseen
<1>4. ASSUME HandleChatmsg(t)
      PROVE  Session!Publish
  <2>1. /\ pc[t] = "dispatch" /\ pc' = [pc EXCEPT ![t] = "return"] /\ said' = ~said
        /\ UNCHANGED <<ops, socket, closing, reported, final>>
    BY <1>4 DEF HandleChatmsg
  <2>2. Waiting' = Waiting
    BY <2>1, WaitingKept DEF Waiting, CallPc
  <2>3. ~Quiet'
    BY <2>1 DEF Quiet, Busy, TypeOK
  <2>4. ~Resolving
    <3>1. "resolve" \in Op
      BY DEF Op
    <3> QED
      BY <2>1, <3>1, OutstandingIs DEF NothingYet, Resolving
  <2>5. Stage' = Stage /\ Stage \in {"socket", "aborting", "draining"}
    BY <1>1, <2>1, <2>3, <2>4, StageIs, StageBecomes
  <2>6. (closing # "no")' = (closing # "no")
    BY <2>1
  <2> QED
    BY <2>1, <2>2, <2>5, <2>6 DEF Session!Publish
<1>5. CASE DispatchError(t)
  BY <1>5, DispatchErrorSeen DEF Session!Next
<1> QED
  BY <1>2, <1>3, <1>4, <1>5 DEF Go, Session!Next

LEMMA BeginSeen ==
  ASSUME IInv, IInv', NEW t \in ClientThread, Begin(t)
  PROVE  Session!Next \/ UNCHANGED Session!vars
<1> USE DEF IInv, Goto, registry, reports
<1>1. pc[t] = "idle" /\ ~Waiting[t]
  <2>1. pc[t] = "idle"
    BY DEF Begin, OnError, OnResolve, OnConnect, OnWritten, HandleHeader, HandleData,
           HandleHeartbeatTimer, Report, on
  <2> QED
    BY <2>1 DEF Waiting, CallPc
<1>2. ASSUME NEW o \in Op, OnError(t, o)
      PROVE  Session!FinalReport(t) \/ Session!ExtraReport(t)
  <2>1. /\ ops[o]["failed"] > 0 /\ said' = ~said /\ reported' = TRUE /\ final'
        /\ closing' = closing
    BY <1>2 DEF OnError, Report, TypeOK
  <2>2. PICK to \in CallPc : pc' = [pc EXCEPT ![t] = to]
    BY <1>2 DEF OnError, Report, CallPc
  <2>3. ~Quiet
    BY <2>1, DueIsBusy
  <2> QED
    BY <1>1, <2>1, <2>2, <2>3, ReportSeen
<1>3. ASSUME OnResolve(t)
      PROVE  Session!Progress \/ UNCHANGED Session!vars
  <2>1. /\ ops["resolve"]["done"] > 0 /\ ops' = Start(Consumed("resolve", "done"), "connect")
        /\ socket' = "open" /\ UNCHANGED <<pc, final, said, reported, closing>>
    BY <1>3 DEF OnResolve, on
  <2>2. "resolve" \in Op /\ "connect" \in Op
    BY DEF Op
  <2>3. ~Quiet /\ Resolving
    BY <2>1, <2>2, DueIsBusy, OpsOfType, TotalIsNat, OutstandingIs DEF Resolving
  <2>4. Consumed("resolve", "done") \in OpsFun
    BY <2>1, <2>2, OpsOfType, ConsumedCounts
  <2>5. Total(ops', "connect") >= 1
    BY <2>1, <2>2, <2>4, StartCounts, TotalIsNat
  <2>6. ~Quiet'
    BY <2>2, <2>5, OutstandingBecomes DEF Quiet
  <2>7. ~Resolving'
    <3>1. {"resolve", "connect", "header", "data"} \subseteq Op
      BY DEF Op
    <3> QED
      BY <2>5, <3>1, OutstandingBecomes DEF OneAtATime, Chain, Resolving
  <2>8. Waiting' = Waiting
    BY <2>1 DEF Waiting
  <2>9. (closing # "no")' = (closing # "no")
    BY <2>1
  <2>10. CASE final
    BY <2>1, <2>3, <2>6, <2>8, <2>9, <2>10, StageIs, StageBecomes DEF Session!vars
  <2>11. CASE ~final
    <3>1. Stage = "resolving" /\ Stage' = "socket"
      BY <2>1, <2>3, <2>7, <2>11, StageIs, StageBecomes
    <3> QED
      BY <2>1, <2>8, <2>9, <3>1 DEF Session!Progress
  <2> QED
    BY <2>10, <2>11
<1>4. ASSUME \/ OnConnect(t) \/ OnWritten(t) \/ HandleHeader(t) \/ HandleData(t)
             \/ HandleHeartbeatTimer(t)
      PROVE  Session!End \/ UNCHANGED Session!vars
  <2>1. UNCHANGED <<socket, final, said, reported, closing>>
    BY <1>4 DEF OnConnect, OnWritten, HandleHeader, HandleData, HandleHeartbeatTimer
  <2>2. PICK to \in {"idle", "dispatch", "arm"} : pc' = [pc EXCEPT ![t] = to]
    <3>1. CASE OnConnect(t) \/ OnWritten(t) \/ HandleHeader(t)
      <4>1. pc' = [pc EXCEPT ![t] = "idle"]
        BY <1>1, <3>1 DEF OnConnect, OnWritten, HandleHeader, TypeOK
      <4> QED
        BY <4>1
    <3>2. CASE HandleData(t) \/ HandleHeartbeatTimer(t)
      BY <3>2 DEF HandleData, HandleHeartbeatTimer
    <3> QED
      BY <1>4, <3>1, <3>2
  <2>3. Waiting' = Waiting
    BY <1>1, <2>2, WaitingKept DEF CallPc
  <2> QED
    BY <1>4, <2>1, <2>3, TakenKeepsResolve, Unseen
<1> QED
  BY <1>2, <1>3, <1>4 DEF Begin, Session!Next

LEMMA OutsideSeen ==
  ASSUME IInv, IInv', Opened,
         (\E o \in Op : Complete(o)) \/ CloseSocket \/ CloseTimer \/ UNCHANGED vars
  PROVE  Session!Next \/ UNCHANGED Session!vars
<1> USE DEF IInv, registry, reports
<1>1. /\ UNCHANGED <<pc, final, said, reported>> /\ Waiting' = Waiting
      /\ Resolving' <=> Resolving
      /\ Quiet' <=> Quiet
  <2>1. UNCHANGED <<pc, final, said, reported>>
    BY DEF Complete, CloseSocket, CloseTimer, vars
  <2> QED
    BY <2>1, OutsideKeeps, TotalsKept DEF Waiting
<1>2. ASSUME (\E o \in Op : Complete(o)) \/ CloseTimer \/ UNCHANGED vars
      PROVE  Session!End \/ UNCHANGED Session!vars
  <2>1. socket' = socket /\ (closing' = "no" <=> closing = "no")
    BY <1>2 DEF Complete, CloseTimer, vars
  <2> QED
    BY <1>1, <2>1, Unseen
<1>3. ASSUME CloseSocket
      PROVE  Session!Close
  <2>1. /\ closing = "no" /\ closing' = "socket"
        /\ socket' = IF socket = "new" THEN "new" ELSE "closed"
    BY <1>3 DEF CloseSocket, Shut
  <2>2. (closing # "no")' = TRUE /\ ~(closing # "no")
    BY <2>1
  <2>3. Stage' = IF Stage = "socket" THEN "aborting" ELSE Stage
    BY <1>1, <2>1, StageIs, StageBecomes DEF Opened
  <2> QED
    BY <1>1, <2>2, <2>3 DEF Session!Close
<1> QED
  BY <1>2, <1>3 DEF Session!Next

\* douyu.cpp makes the publishes and reports that the registry relies on, in the
\* stages it relies on, and is over only after a failure has been reported: every
\* step of the session is a step of TcpSession or one the registry does not see.
THEOREM SessionImplemented == Spec => ImplementsSession
<1>1. Init => Session!Init /\ Opened
  <2> SUFFICES ASSUME Init PROVE Session!Init /\ Opened
    OBVIOUS
  <2>1. "resolve" \in Op
    BY DEF Op
  <2>2. Resolving /\ ~Quiet
    BY <2>1 DEF Init, OpsInit, Resolving, Quiet, Outstanding
  <2>3. Stage = "resolving"
    BY <2>2 DEF Init, Stage
  <2>4. ASSUME NEW t \in ClientThread
        PROVE  (pc[t] \in CallPc) = FALSE
    BY DEF Init, CallPc
  <2>5. Waiting = [t \in ClientThread |-> FALSE]
    BY <2>4, Zenon DEF Waiting
  <2>6. (closing # "no") = FALSE
    BY DEF Init
  <2> QED
    BY <2>2, <2>3, <2>5, <2>6 DEF Init, Session!Init, Opened
<1>2. IInv /\ IInv' /\ Opened /\ [Next]_vars => Opened'
  BY OpenedStep DEF IInv
<1>3. IInv /\ IInv' /\ Opened /\ [Next]_vars => [Session!Next]_Session!vars
  BY GoSeen, BeginSeen, OutsideSeen DEF Next
<1> QED
  BY <1>1, <1>2, <1>3, Invariant, PTL DEF Spec, ImplementsSession, Session!Spec
=============================================================================
