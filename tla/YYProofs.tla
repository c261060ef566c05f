------------------------------ MODULE YYProofs -----------------------------
(* Proofs about the YY session, for any client threads and any number of   *)
(* logins.                                                                 *)
EXTENDS YY, FiniteSetTheorems, TLAPS

-----------------------------------------------------------------------------
(* The inductive invariant.                                                *)

\* What a message's handler knows is there as long as it holds the strand, and
\* only a login makes it set the timer after a report.
Strand ==
  /\ \A t \in ClientThread : strand = t => pc[t] # "idle"
  /\ strand = None => resp = "other" /\ ~ec /\ then = "return"
  /\ then = "arm" => resp = "login"

\* The connection is closed when its end is known.  A handler of a message
\* finds it open or closing, although a heartbeat may close it meanwhile.
Ends ==
  /\ conn = "closed" <=> over # "no"
  /\ \A t \in ClientThread : strand = t =>
       \/ over = "told" /\ pc[t] \in {"callReturn", "return"}
       \/ over = "no" /\ conn \in {"open", "closing"} /\ pc[t] # "callReturn"
       \/ over = "closed" /\ fault = "crash" /\ pc[t] = "return"

\* Where a handler has reported, and what the report is about.
Reports ==
  /\ \A t \in ClientThread : pc[t] \in CallPc \cup {"shut", "cancel"} => reported
  /\ \A t \in ClientThread : pc[t] = "cancel" => conn = "closing"
  /\ ec \/ over = "told" => reported
  /\ reported => conn # "connecting"
  /\ reported /\ conn = "open" => \E t \in ClientThread : pc[t] \in {"call", "shut"}

\* There are timers only when m_hb_timer is not null, which takes a login.
Timers ==
  /\ hb # None => conn # "connecting" /\ over # "failed"
  /\ hb = None => /\ Pending = {}
                  /\ \A t \in ClientThread : pc[t] # "beat" /\ (pc[t] = "arm" => strand = t)

\* close() and the callback of a report exclude one another.
Exclusion ==
  /\ closing = "timer" => hb # None /\ ~unmapped
  /\ fault = "deadlock" => closing = "done"
  /\ \A t \in ClientThread : pc[t] = "shut" => unmapped

\* The threads that will set a timer, or may: those of a heartbeat and that of
\* a login, an error of which may lead past a report.
Owes(t) ==
  \/ pc[t] \in {"beat", "arm"}
  \/ strand = t /\ resp = "login" /\ pc[t] \in {"type", "json", "act", "call", "shut"}
Owing == {t \in ClientThread : Owes(t)}

Chains ==
  /\ IsFiniteSet(Owing)
  /\ Cardinality(Pending) + Cardinality(Owing) <= logins
  /\ ~reported /\ closing = "no" => Cardinality(Pending) + Cardinality(Owing) = logins

IInv ==
  TypeOK /\ Strand /\ Ends /\ Reports /\ Timers /\ Exclusion /\ Chains

-----------------------------------------------------------------------------
(* The timers.                                                             *)

\* Every login may have a timer, and so may one more.
LEMMA TimersFinite ==
  /\ IsFiniteSet(Timer) /\ Cardinality(Timer) = MaxLogins + 1
  /\ \A S \in SUBSET Timer : IsFiniteSet(S) /\ Cardinality(S) \in Nat
<1>1. IsFiniteSet(Timer) /\ Cardinality(Timer) = MaxLogins + 1
  BY MaxLoginsAssumption, FS_Interval DEF Timer
<1>2. ASSUME NEW S \in SUBSET Timer
      PROVE  IsFiniteSet(S) /\ Cardinality(S) \in Nat
  BY <1>1, FS_Subset, FS_CardinalityType
<1> QED
  BY <1>1, <1>2

\* A thread that sets a timer finds a free one that m_hb_timer does not point to.
LEMMA TimerFree ==
  ASSUME TypeOK, Chains, NEW t \in ClientThread, pc[t] = "arm",
         NEW i, i = CHOOSE j \in Timer \ (Pending \cup {hb}) : TRUE
  PROVE  i \in Timer /\ i \notin Pending
<1> DEFINE S == Pending \cup {hb}
<1>1. /\ IsFiniteSet(Pending) /\ Cardinality(Pending) \in Nat
      /\ IsFiniteSet(S) /\ Cardinality(S) <= Cardinality(Pending) + 1
      /\ Cardinality(S) \in Nat
  <2>1. IsFiniteSet(Pending)
    BY TimersFinite DEF Pending
  <2>2. Cardinality(Pending) \in Nat
    BY <2>1, FS_CardinalityType
  <2>3. /\ IsFiniteSet(S)
        /\ Cardinality(S) \in {Cardinality(Pending), Cardinality(Pending) + 1}
    BY <2>1, FS_AddElement
  <2> HIDE DEF S
  <2> QED
    BY <2>1, <2>2, <2>3
<1>2. t \in Owing /\ IsFiniteSet(Owing)
  BY DEF Owing, Owes, Chains
<1>3. Cardinality(Owing) \in Nat \ {0}
  BY <1>2, FS_CardinalityType, FS_EmptySet
<1>4. Cardinality(Pending) + Cardinality(Owing) <= MaxLogins
  BY <1>1, <1>3, MaxLoginsAssumption DEF Chains, TypeOK
<1>5. Cardinality(S) < Cardinality(Timer)
  BY <1>1, <1>3, <1>4, TimersFinite, MaxLoginsAssumption
<1>6. ~(Timer \subseteq S)
  BY <1>1, <1>5, FS_Subset, TimersFinite
<1>7. \E j \in Timer \ S : TRUE
  BY <1>6
<1> QED
  BY <1>7

\* Cancelling a timer leaves the others alone and frees none.
LEMMA CancelledTimers ==
  ASSUME TypeOK, NEW i \in Timer, timer' = Cancelled(i)
  PROVE  /\ timer' \in [Timer -> {"free", "armed", "expired", "aborted"}]
         /\ Pending' = Pending
<1>1. \A j \in Timer : timer'[j] = IF j = i /\ timer[j] = "armed" THEN "aborted" ELSE timer[j]
  BY DEF Cancelled, TypeOK
<1>2. timer' \in [Timer -> {"free", "armed", "expired", "aborted"}]
  BY DEF Cancelled, TypeOK
<1> QED
  BY <1>1, <1>2 DEF Pending

-----------------------------------------------------------------------------
(* Type correctness.                                                       *)

\* The variables that are true or false, those of the threads, those of the
\* timers and the others.
Flags ==
  /\ ec \in BOOLEAN /\ handle \in BOOLEAN /\ unmapped \in BOOLEAN
  /\ said \in BOOLEAN /\ reported \in BOOLEAN

Course ==
  /\ conn \in {"connecting", "open", "closing", "closed"}
  /\ over \in {"no", "failed", "closed", "told"}
  /\ closing \in {"no", "timer", "done"}
  /\ fault \in {"none", "deadlock", "crash"}
  /\ logins \in 0..MaxLogins

Threads ==
  /\ strand \in ClientThread \cup {None}
  /\ pc \in [ClientThread -> MessagePc \cup CallPc \cup {"idle", "shut", "beat"}]
  /\ \A t \in ClientThread : pc[t] \in (MessagePc \ {"arm"}) \cup {"callReturn"} => strand = t
  /\ resp \in Resp
  /\ then \in MessagePc

TimerType ==
  /\ timer \in [Timer -> {"free", "armed", "expired", "aborted"}]
  /\ hb \in Timer \cup {None}

LEMMA TypeParts == TypeOK <=> Flags /\ Course /\ Threads /\ TimerType
BY DEF TypeOK, WsType, Flags, Course, Threads, TimerType

LEMMA TypeInit == Init => TypeOK
<1> SUFFICES ASSUME Init PROVE Flags /\ Course /\ Threads /\ TimerType
  BY TypeParts
<1>1. Flags
  BY DEF Init, Flags
<1>2. Course
  BY MaxLoginsAssumption DEF Init, WsInit, Course
<1>3. Threads
  BY DEF Init, WsInit, Threads, MessagePc, CallPc, Resp
<1>4. TimerType
  BY DEF Init, TimerType
<1> QED
  BY <1>1, <1>2, <1>3, <1>4

LEMMA FlagsStep ==
  ASSUME Flags, [Next]_vars
  PROVE  Flags'
<1> USE DEF Flags, message, registry, history
<1>1. ASSUME NEW t \in ClientThread, NEW from, NEW to, Report(t, from, to), ec' \in BOOLEAN
      PROVE  Flags'
  BY <1>1 DEF Report
<1>2. ASSUME ec' \in BOOLEAN, UNCHANGED <<handle, reported>>,
             unmapped' \in {unmapped, TRUE}, said' \in {said, ~said}
      PROVE  Flags'
  BY <1>2
<1>3. ASSUME NEW t \in ClientThread,
             OnPlatformClose(t) \/ Shut(t) \/ Return(t) \/ SetTimer(t) \/ CancelTimer(t)
      PROVE  Flags'
  BY <1>2, <1>3 DEF OnPlatformClose, Shut, Return, SetTimer, CancelTimer
<1>4. ASSUME NEW t \in ClientThread, SendHeartbeat(t)
      PROVE  Flags'
  BY <1>1, <1>2, <1>4 DEF SendHeartbeat
<1>5. ASSUME NEW t \in ClientThread, NEW from, NEW to, MessageError(t, from, to)
      PROVE  Flags'
  BY <1>1, <1>5 DEF MessageError
<1>6. ASSUME NEW t \in ClientThread, NotText(t) \/ ParseJson(t) \/ Answer(t)
      PROVE  Flags'
  BY <1>2, <1>5, <1>6 DEF NotText, ParseJson, Answer
<1>7. ASSUME NEW t \in ClientThread, Chat(t)
      PROVE  Flags'
  <2>1. said' \in {said, ~said}
    BY <1>7 DEF Chat
  <2> QED
    BY <1>2, <1>7, <2>1 DEF Chat
<1>8. ASSUME NEW t \in ClientThread, Begin(t)
      PROVE  Flags'
  <2>1. CASE OnClientFail(t)
    BY <1>1, <2>1 DEF OnClientFail
  <2>2. CASE OnClientClose(t)
    BY <1>1, <1>2, <2>2 DEF OnClientClose
  <2>3. ASSUME NEW i \in Timer, HeartbeatAborted(t, i) \/ HeartbeatExpired(t, i)
        PROVE  Flags'
    BY <1>1, <1>2, <2>3 DEF HeartbeatAborted, HeartbeatExpired
  <2> QED
    BY <1>8, <2>1, <2>2, <2>3 DEF Begin
<1>9. ASSUME NEW t \in ClientThread, OnClientMessage(t)
      PROVE  Flags'
  BY <1>2, <1>9 DEF OnClientMessage
<1>10. ASSUME \/ \E i \in Timer : Expire(i)
              \/ Library \/ CloseTimer \/ UNCHANGED vars
       PROVE  Flags'
  BY <1>2, <1>10 DEF Expire, Library, CloseTimer, vars
<1>11. ASSUME AssignHandle \/ CloseConnection
       PROVE  Flags'
  BY <1>11 DEF AssignHandle, CloseConnection
<1> QED
  BY <1>3, <1>4, <1>6, <1>7, <1>8, <1>9, <1>10, <1>11 DEF Next, Go

LEMMA CourseStep ==
  ASSUME Course, [Next]_vars
  PROVE  Course'
<1> USE DEF Course, connection, message, timers, registry, history
<1>1. ASSUME NEW t \in ClientThread, OnPlatformClose(t) \/ Shut(t) \/ Return(t)
      PROVE  Course'
  BY <1>1 DEF OnPlatformClose, Shut, Return, Closing
<1>2. ASSUME NEW t \in ClientThread, SetTimer(t)
      PROVE  Course'
  BY <1>2 DEF SetTimer
<1>3. ASSUME NEW t \in ClientThread, CancelTimer(t)
      PROVE  Course'
  BY <1>3 DEF CancelTimer
<1>4. ASSUME NEW t \in ClientThread, SendHeartbeat(t)
      PROVE  Course'
  BY <1>4 DEF SendHeartbeat, Report
<1>5. ASSUME NEW t \in ClientThread, NEW from, NEW to, MessageError(t, from, to)
      PROVE  Course'
  BY <1>5 DEF MessageError, Report
<1>6. ASSUME NEW t \in ClientThread, NotText(t) \/ ParseJson(t) \/ Answer(t)
      PROVE  Course'
  BY <1>5, <1>6 DEF NotText, ParseJson, Answer
<1>7. ASSUME NEW t \in ClientThread, Chat(t)
      PROVE  Course'
  BY <1>7 DEF Chat
<1>8. ASSUME NEW t \in ClientThread, OnClientFail(t)
      PROVE  Course'
  BY <1>8 DEF OnClientFail, Report
<1>9. ASSUME NEW t \in ClientThread, OnClientClose(t)
      PROVE  Course'
  <2>1. CASE hb = None
    BY <1>9, <2>1 DEF OnClientClose
  <2>2. CASE hb # None
    BY <1>9, <2>2 DEF OnClientClose, Report
  <2> QED
    BY <2>1, <2>2
<1>10. ASSUME NEW t \in ClientThread, NEW i \in Timer,
              HeartbeatAborted(t, i) \/ HeartbeatExpired(t, i)
       PROVE  Course'
  BY <1>10 DEF HeartbeatAborted, HeartbeatExpired, Report
<1>11. ASSUME NEW t \in ClientThread, OnClientMessage(t)
       PROVE  Course'
  <2>1. logins' = logins \/ (logins < MaxLogins /\ logins' = logins + 1)
    BY <1>11 DEF OnClientMessage
  <2> QED
    BY <1>11, <2>1, MaxLoginsAssumption DEF OnClientMessage
<1>12. ASSUME NEW i \in Timer, Expire(i)
       PROVE  Course'
  BY <1>12 DEF Expire
<1>13. ASSUME Library \/ AssignHandle \/ UNCHANGED vars
       PROVE  Course'
  BY <1>13 DEF Library, Open, ReceiveClose, Terminate, AssignHandle, vars
<1>14. ASSUME CloseTimer
       PROVE  Course'
  BY <1>14 DEF CloseTimer
<1>15. ASSUME CloseConnection
       PROVE  Course'
  BY <1>15 DEF CloseConnection, Closing
<1> QED
  BY <1>1, <1>2, <1>3, <1>4, <1>6, <1>7, <1>8, <1>9, <1>10, <1>11, <1>12, <1>13, <1>14, <1>15
     DEF Next, Go, Begin

LEMMA ThreadsStep ==
  ASSUME Threads, [Next]_vars
  PROVE  Threads'
<1> USE NoneAssumption DEF connection, message, Goto, MessagePc, CallPc, Resp
<1>1. ASSUME NEW t \in ClientThread, NEW from, NEW to, Goto(t, from, to),
             UNCHANGED <<strand, resp>>, then' \in {then, "json", "return", "arm", "cancel"},
             to \in {"idle", "shut", "beat", "call", "arm"} \/ strand = t,
             to \in MessagePc \cup CallPc \cup {"idle", "shut", "beat"}
      PROVE  Threads'
  BY <1>1 DEF Threads
<1>2. ASSUME NEW t \in ClientThread, NEW from, NEW to,
             from \in (MessagePc \ {"arm"}) \cup {"callReturn"}, Goto(t, from, to)
      PROVE  strand = t
  BY <1>2 DEF Threads
<1>3. ASSUME NEW t \in ClientThread, OnPlatformClose(t)
      PROVE  Threads'
  BY <1>3, <1>1, <1>2 DEF OnPlatformClose
<1>4. ASSUME NEW t \in ClientThread, Shut(t)
      PROVE  Threads'
  <2>1. then \in MessagePc
    BY DEF Threads
  <2> QED
    BY <1>4, <1>1, <2>1 DEF Shut
<1>5. ASSUME NEW t \in ClientThread, Return(t)
      PROVE  Threads'
  BY <1>5 DEF Return, Threads
<1>6. ASSUME NEW t \in ClientThread, SetTimer(t)
      PROVE  Threads'
  BY <1>6, <1>1 DEF SetTimer
<1>7. ASSUME NEW t \in ClientThread, CancelTimer(t)
      PROVE  Threads'
  BY <1>7, <1>1, <1>2 DEF CancelTimer
<1>8. ASSUME NEW t \in ClientThread, SendHeartbeat(t)
      PROVE  Threads'
  BY <1>8, <1>1 DEF SendHeartbeat, Report
<1>9. ASSUME NEW t \in ClientThread, NEW from, NEW to \in {"json", "return", "arm", "cancel"},
             MessageError(t, from, to)
      PROVE  Threads'
  BY <1>9, <1>1 DEF MessageError, Report
<1>10. ASSUME NEW t \in ClientThread, NotText(t) \/ ParseJson(t) \/ Answer(t)
       PROVE  Threads'
  BY <1>10, <1>1, <1>2, <1>9 DEF NotText, ParseJson, Answer
<1>11. ASSUME NEW t \in ClientThread, Chat(t)
       PROVE  Threads'
  BY <1>11, <1>1, <1>2 DEF Chat
<1>12. ASSUME NEW t \in ClientThread, NEW to, strand = None, strand' = t, Goto(t, "idle", to),
              to \in {"callReturn", "return", "json", "type"}, resp' \in Resp, then' = then
       PROVE  Threads'
  BY <1>12 DEF Threads
<1>13. ASSUME NEW t \in ClientThread, OnClientFail(t) \/ OnClientClose(t)
       PROVE  Threads'
  <2>1. resp' \in Resp
    BY <1>13 DEF OnClientFail, OnClientClose, Threads
  <2> QED
    BY <1>13, <1>12, <2>1 DEF OnClientFail, OnClientClose, Report
<1>14. ASSUME NEW t \in ClientThread, OnClientMessage(t)
       PROVE  Threads'
  BY <1>14, <1>12 DEF OnClientMessage, Deliverable
<1>15. ASSUME NEW t \in ClientThread, NEW i \in Timer,
              HeartbeatAborted(t, i) \/ HeartbeatExpired(t, i)
       PROVE  Threads'
  BY <1>15, <1>1 DEF HeartbeatAborted, HeartbeatExpired, Report
<1>16. ASSUME UNCHANGED <<strand, pc, message>>
       PROVE  Threads'
  BY <1>16 DEF Threads
<1>17. ASSUME \/ \E i \in Timer : Expire(i)
              \/ Library \/ AssignHandle \/ CloseTimer \/ CloseConnection \/ UNCHANGED vars
       PROVE  UNCHANGED <<strand, pc, message>>
  BY <1>17 DEF Expire, Library, ReceiveClose, Terminate, AssignHandle, CloseTimer,
               CloseConnection, vars
<1> QED
  BY <1>3, <1>4, <1>5, <1>6, <1>7, <1>8, <1>10, <1>11, <1>13, <1>14, <1>15, <1>16, <1>17
     DEF Next, Go, Begin

LEMMA TimerStep ==
  ASSUME TypeOK, Chains, [Next]_vars
  PROVE  TimerType'
<1> USE DEF timers
<1>1. CASE UNCHANGED timers
  BY <1>1 DEF TypeOK, TimerType
<1>2. ASSUME hb \in Timer, timer' = Cancelled(hb), hb' = hb
      PROVE  TimerType'
  BY <1>2, CancelledTimers DEF TimerType
<1>3. ASSUME NEW t \in ClientThread, SetTimer(t)
      PROVE  TimerType'
  <2> DEFINE i == CHOOSE j \in Timer \ (Pending \cup {hb}) : TRUE
  <2>1. pc[t] = "arm" /\ hb' = i /\ timer' = [timer EXCEPT ![i] = "armed"]
    BY <1>3 DEF SetTimer, Goto
  <2> HIDE DEF i
  <2>2. i \in Timer
    BY <2>1, TimerFree DEF i
  <2> QED
    BY <2>1, <2>2 DEF TypeOK, TimerType
<1>4. ASSUME NEW t \in ClientThread, CancelTimer(t) \/ OnClientClose(t)
      PROVE  TimerType'
  <2>1. CASE hb = None
    BY <1>1, <1>4, <2>1 DEF CancelTimer, OnClientClose
  <2>2. CASE hb # None
    BY <1>2, <1>4, <2>2 DEF CancelTimer, OnClientClose, TypeOK
  <2> QED
    BY <2>1, <2>2
<1>5. ASSUME CloseTimer
      PROVE  TimerType'
  <2>1. CASE hb = None
    BY <1>1, <1>5, <2>1 DEF CloseTimer
  <2>2. CASE hb # None
    BY <1>2, <1>5, <2>2 DEF CloseTimer, TypeOK
  <2> QED
    BY <2>1, <2>2
<1>6. ASSUME NEW t \in ClientThread, NEW i \in Timer,
             HeartbeatAborted(t, i) \/ HeartbeatExpired(t, i)
      PROVE  TimerType'
  BY <1>6 DEF HeartbeatAborted, HeartbeatExpired, TypeOK, TimerType
<1>7. ASSUME NEW i \in Timer, Expire(i)
      PROVE  TimerType'
  BY <1>7 DEF Expire, TypeOK, TimerType
<1>8. ASSUME NEW t \in ClientThread,
             \/ OnPlatformClose(t) \/ Shut(t) \/ Return(t) \/ SendHeartbeat(t)
             \/ NotText(t) \/ ParseJson(t) \/ Answer(t) \/ Chat(t)
             \/ OnClientFail(t) \/ OnClientMessage(t)
      PROVE  UNCHANGED timers
  BY <1>8 DEF OnPlatformClose, Shut, Return, SendHeartbeat, NotText, ParseJson, Answer, Chat,
              MessageError, OnClientFail, OnClientMessage
<1>9. ASSUME Library \/ AssignHandle \/ CloseConnection \/ UNCHANGED vars
      PROVE  UNCHANGED timers
  BY <1>9 DEF Library, AssignHandle, CloseConnection, vars
<1> QED
  BY <1>1, <1>3, <1>4, <1>5, <1>6, <1>7, <1>8, <1>9 DEF Next, Go, Begin

\* Every step keeps the types.
LEMMA TypeStep ==
  ASSUME TypeOK, Chains, [Next]_vars
  PROVE  TypeOK'
<1>1. Flags' /\ Course' /\ Threads' /\ TimerType'
  BY TypeParts, FlagsStep, CourseStep, ThreadsStep, TimerStep
<1> QED
  BY <1>1 DEF TypeOK, WsType, Flags, Course, Threads, TimerType

-----------------------------------------------------------------------------
(* The strand, the connection and the reports.                             *)

\* A thread that runs a handler of the connection holds the strand, and a
\* handler that another thread runs is that of a heartbeat.
LEMMA OnStrand ==
  ASSUME TypeOK, NEW t \in ClientThread
  PROVE  /\ pc[t] \in (MessagePc \ {"arm"}) \cup {"callReturn"} => strand = t
         /\ strand = t => strand # None
         /\ strand = None => pc[t] \in {"idle", "call", "shut", "beat", "arm"}
BY NoneAssumption DEF TypeOK, MessagePc, CallPc

LEMMA StrandStep ==
  ASSUME TypeOK, Strand, [Next]_vars
  PROVE  Strand'
<1> USE NoneAssumption DEF connection, message, Goto
<1>1. ASSUME NEW t \in ClientThread, NEW from, NEW to, Goto(t, from, to), to # "idle" \/ strand # t,
             UNCHANGED <<strand, message>>
      PROVE  Strand'
  BY <1>1 DEF Strand, TypeOK
<1>2. ASSUME NEW t \in ClientThread,
             \/ OnPlatformClose(t) \/ SetTimer(t) \/ CancelTimer(t) \/ SendHeartbeat(t) \/ Chat(t)
      PROVE  Strand'
  BY <1>1, <1>2 DEF OnPlatformClose, SetTimer, CancelTimer, SendHeartbeat, Chat, Report
<1>3. ASSUME NEW t \in ClientThread, Shut(t)
      PROVE  Strand'
  <2>1. then # "idle"
    BY DEF TypeOK, MessagePc
  <2> QED
    BY <1>1, <1>3, <2>1 DEF Shut
<1>4. ASSUME NEW t \in ClientThread, Return(t)
      PROVE  Strand'
  BY <1>4 DEF Return, Strand
<1>5. ASSUME NEW t \in ClientThread, NEW from, NEW to, MessageError(t, from, to),
             from \in {"type", "json", "act"}, to = "arm" => resp = "login"
      PROVE  Strand'
  <2>1. /\ pc[t] = from /\ pc' = [pc EXCEPT ![t] = "call"]
        /\ then' = to /\ resp' = resp /\ strand' = strand
    BY <1>5 DEF MessageError, Report
  <2>2. strand # None
    BY <1>5, <2>1, OnStrand DEF MessagePc
  <2> QED
    BY <1>5, <2>1, <2>2 DEF Strand, TypeOK
<1>6. ASSUME NEW t \in ClientThread, NotText(t) \/ ParseJson(t) \/ Answer(t)
      PROVE  Strand'
  BY <1>1, <1>5, <1>6 DEF NotText, ParseJson, Answer
<1>7. ASSUME NEW t \in ClientThread, OnClientFail(t) \/ OnClientClose(t)
      PROVE  Strand'
  <2>1. /\ strand = None /\ strand' = t /\ UNCHANGED message
        /\ \E to \in {"return", "callReturn"} : pc' = [pc EXCEPT ![t] = to]
    BY <1>7 DEF OnClientFail, OnClientClose, Report
  <2> QED
    BY <2>1 DEF Strand, TypeOK
<1>8. ASSUME NEW t \in ClientThread, OnClientMessage(t)
      PROVE  Strand'
  <2>1. /\ strand = None /\ strand' = t /\ UNCHANGED <<ec, then>>
        /\ \E to \in {"json", "type"} : pc' = [pc EXCEPT ![t] = to]
    BY <1>8 DEF OnClientMessage, Deliverable
  <2> QED
    BY <2>1 DEF Strand, TypeOK
<1>9. ASSUME NEW t \in ClientThread, NEW i \in Timer,
             HeartbeatAborted(t, i) \/ HeartbeatExpired(t, i)
      PROVE  Strand'
  BY <1>1, <1>9 DEF HeartbeatAborted, HeartbeatExpired, Report
<1>10. ASSUME \/ \E i \in Timer : Expire(i)
              \/ Library \/ AssignHandle \/ CloseTimer \/ CloseConnection \/ UNCHANGED vars
       PROVE  UNCHANGED <<strand, pc, message>>
  BY <1>10 DEF Expire, Library, ReceiveClose, Terminate, AssignHandle, CloseTimer,
               CloseConnection, vars
<1>11. ASSUME UNCHANGED <<strand, pc, message>>
       PROVE  Strand'
  BY <1>11 DEF Strand
<1> QED
  BY <1>2, <1>3, <1>4, <1>6, <1>7, <1>8, <1>9, <1>10, <1>11 DEF Next, Go, Begin

LEMMA EndsStep ==
  ASSUME TypeOK, Strand, Ends, [Next]_vars
  PROVE  Ends'
<1> USE NoneAssumption DEF connection, message, registry, Goto
<1>1. fault = "crash" => UNCHANGED vars
  BY DEF Next
<1>2. ASSUME NEW t \in ClientThread, NEW from, NEW to, Goto(t, from, to), UNCHANGED connection,
             strand = t => (from \in {"callReturn", "return"} /\ to = "return")
                           \/ (from \notin {"callReturn", "return"} /\ to # "callReturn"),
             fault # "crash"
      PROVE  Ends'
  <2>1. ASSUME NEW u \in ClientThread, strand = u
        PROVE  \/ over = "told" /\ pc'[u] \in {"callReturn", "return"}
               \/ over = "no" /\ conn \in {"open", "closing"} /\ pc'[u] # "callReturn"
    <3>1. CASE u = t
      BY <1>2, <2>1, <3>1 DEF Ends, TypeOK
    <3>2. CASE u # t
      BY <1>2, <2>1, <3>2 DEF Ends, TypeOK
    <3> QED
      BY <3>1, <3>2
  <2> QED
    BY <1>2, <2>1 DEF Ends
<1>3. ASSUME NEW t \in ClientThread,
             \/ OnPlatformClose(t) \/ SetTimer(t) \/ CancelTimer(t) \/ SendHeartbeat(t) \/ Chat(t),
             fault # "crash"
      PROVE  Ends'
  BY <1>2, <1>3 DEF OnPlatformClose, SetTimer, CancelTimer, SendHeartbeat, Chat, Report
<1>4. ASSUME NEW t \in ClientThread, Shut(t), fault # "crash"
      PROVE  Ends'
  <2>1. /\ pc[t] = "shut" /\ pc' = [pc EXCEPT ![t] = IF strand = t THEN then ELSE "idle"]
        /\ over' = over /\ strand' = strand /\ fault' = fault
        /\ conn' = IF conn = "open" THEN "closing" ELSE conn
    BY <1>4 DEF Shut, Closing
  <2>2. then # "callReturn"
    BY DEF TypeOK, MessagePc
  <2>3. ASSUME NEW u \in ClientThread, strand = u
        PROVE  \/ over = "told" /\ pc'[u] \in {"callReturn", "return"}
               \/ over = "no" /\ conn' \in {"open", "closing"} /\ pc'[u] # "callReturn"
    <3>1. CASE u = t
      BY <1>4, <2>1, <2>2, <2>3, <3>1 DEF Ends, TypeOK
    <3>2. CASE u # t
      BY <1>4, <2>1, <2>3, <3>2 DEF Ends, TypeOK
    <3> QED
      BY <3>1, <3>2
  <2> QED
    BY <2>1, <2>3 DEF Ends
<1>5. ASSUME NEW t \in ClientThread, Return(t)
      PROVE  Ends'
  BY <1>5 DEF Return, Ends
<1>6. ASSUME NEW t \in ClientThread, NotText(t) \/ ParseJson(t) \/ Answer(t), fault # "crash"
      PROVE  Ends'
  <2>1. UNCHANGED connection
    BY <1>6 DEF NotText, ParseJson, Answer, MessageError
  <2>2. \E from \in {"type", "json", "act"}, to \in {"call", "act", "arm", "return"} :
          Goto(t, from, to)
    BY <1>6 DEF NotText, ParseJson, Answer, MessageError, Report
  <2> QED
    BY <1>2, <1>6, <2>1, <2>2
<1>7. ASSUME NEW t \in ClientThread, OnClientFail(t)
      PROVE  Ends'
  BY <1>7 DEF OnClientFail, Report, Ends, TypeOK
<1>8. ASSUME NEW t \in ClientThread, OnClientClose(t)
      PROVE  Ends'
  <2>1. CASE hb = None
    BY <1>8, <2>1 DEF OnClientClose, Ends, TypeOK
  <2>2. CASE hb # None
    BY <1>8, <2>2 DEF OnClientClose, Report, Ends, TypeOK
  <2> QED
    BY <2>1, <2>2
<1>9. ASSUME NEW t \in ClientThread, OnClientMessage(t)
      PROVE  Ends'
  <2>1. /\ conn = "open" /\ strand' = t /\ UNCHANGED <<conn, over, fault>>
        /\ \E to \in {"json", "type"} : pc' = [pc EXCEPT ![t] = to]
    BY <1>9 DEF OnClientMessage, Deliverable
  <2> QED
    BY <2>1 DEF Ends, TypeOK
<1>10. ASSUME NEW t \in ClientThread, NEW i \in Timer,
              HeartbeatAborted(t, i) \/ HeartbeatExpired(t, i), fault # "crash"
       PROVE  Ends'
  <2>1. strand # t
    BY <1>10 DEF HeartbeatAborted, HeartbeatExpired, Report, Strand
  <2> QED
    BY <1>2, <1>10, <2>1 DEF HeartbeatAborted, HeartbeatExpired, Report
<1>11. ASSUME Library
       PROVE  Ends'
  BY <1>11 DEF Library, Open, ReceiveClose, Terminate, Ends, TypeOK, WsType
<1>12. ASSUME (\E i \in Timer : Expire(i)) \/ AssignHandle \/ UNCHANGED vars
       PROVE  Ends'
  BY <1>12 DEF Expire, AssignHandle, vars, Ends
<1>13. ASSUME CloseTimer \/ CloseConnection, fault # "crash"
       PROVE  Ends'
  <2>1. /\ UNCHANGED <<over, strand, pc>>
        /\ conn' = conn \/ conn' = IF conn = "open" THEN "closing" ELSE conn
    BY <1>13 DEF CloseTimer, CloseConnection, Closing
  <2> QED
    BY <1>13, <2>1 DEF Ends
<1> QED
  BY <1>1, <1>3, <1>4, <1>5, <1>6, <1>7, <1>8, <1>9, <1>10, <1>11, <1>12, <1>13
     DEF Next, Go, Begin

\* A handler that does not report and does not come from a report.
LEMMA ReportsKept ==
  ASSUME TypeOK, Reports, UNCHANGED <<conn, ec, reported>>, over' = over \/ over' # "told",
         NEW t \in ClientThread, NEW from, NEW to, Goto(t, from, to),
         from \notin {"call", "shut"} \/ to = "shut",
         to \in {"shut"} \cup CallPc => from \in CallPc, to # "cancel"
  PROVE  Reports'
<1>1. \A u \in ClientThread : u # t => pc'[u] = pc[u]
  BY DEF Goto, TypeOK
<1>2. pc[t] = from /\ pc'[t] = to
  BY DEF Goto, TypeOK
<1>3. \A u \in ClientThread : pc'[u] \in CallPc \cup {"shut", "cancel"} => reported
  BY <1>1, <1>2 DEF Reports
<1>4. \A u \in ClientThread : pc'[u] = "cancel" => conn = "closing"
  BY <1>1, <1>2 DEF Reports
<1>5. reported /\ conn = "open" => \E u \in ClientThread : pc'[u] \in {"call", "shut"}
  BY <1>1, <1>2 DEF Reports
<1> QED
  BY <1>3, <1>4, <1>5 DEF Reports

\* A report of a handler that finds the connection no longer connecting.
LEMMA ReportsMade ==
  ASSUME TypeOK, Reports, UNCHANGED conn, conn # "connecting", reported',
         NEW t \in ClientThread, NEW from, NEW to \in CallPc, Goto(t, from, to),
         conn = "open" => to = "call"
  PROVE  Reports'
<1>1. \A u \in ClientThread : u # t => pc'[u] = pc[u]
  BY DEF Goto, TypeOK
<1>2. pc'[t] = to
  BY DEF Goto, TypeOK
<1>3. \A u \in ClientThread : pc'[u] = "cancel" => conn = "closing"
  BY <1>1, <1>2 DEF Reports, CallPc
<1>4. conn = "open" => \E u \in ClientThread : pc'[u] \in {"call", "shut"}
  BY <1>2
<1> QED
  BY <1>3, <1>4 DEF Reports

\* There is a timer, or a heartbeat runs, only after a login.
LEMMA Connected ==
  ASSUME TypeOK, Timers, NEW t \in ClientThread, pc[t] = "beat" \/ Pending # {}
  PROVE  hb # None /\ conn # "connecting" /\ over # "failed"
BY DEF Timers

LEMMA ReportsStep ==
  ASSUME TypeOK, Strand, Ends, Reports, Timers, Exclusion, [Next]_vars
  PROVE  Reports'
<1> USE DEF connection, message, registry, history, timers
<1>1. ASSUME NEW t \in ClientThread, OnPlatformClose(t)
      PROVE  Reports'
  <2>1. UNCHANGED <<conn, ec, reported, over>>
    BY <1>1 DEF OnPlatformClose
  <2>2. Goto(t, "call", "shut") \/ Goto(t, "callReturn", "return")
    BY <1>1 DEF OnPlatformClose
  <2> QED
    BY <2>1, <2>2, ReportsKept DEF CallPc
<1>2. ASSUME NEW t \in ClientThread, Shut(t)
      PROVE  Reports'
  <2>1. /\ pc[t] = "shut" /\ pc' = [pc EXCEPT ![t] = IF strand = t THEN then ELSE "idle"]
        /\ UNCHANGED <<over, ec, reported>>
        /\ conn' = IF conn = "open" THEN "closing" ELSE conn
    BY <1>2 DEF Shut, Goto, Closing
  <2>2. reported /\ conn # "connecting" /\ conn' # "open" /\ conn' # "connecting"
    BY <2>1 DEF Reports
  <2>3. pc'[t] = "cancel" => conn' = "closing"
    <3>1. strand = t => conn \in {"open", "closing"}
      BY <2>1 DEF Ends
    <3> QED
      BY <2>1, <3>1 DEF TypeOK
  <2>4. \A u \in ClientThread : pc'[u] = "cancel" => conn' = "closing"
    <3>1. \A u \in ClientThread : u # t => pc'[u] = pc[u]
      BY <2>1 DEF TypeOK
    <3> QED
      BY <2>1, <2>3, <3>1 DEF Reports
  <2> QED
    BY <2>1, <2>2, <2>4 DEF Reports
<1>3. ASSUME NEW t \in ClientThread, Return(t)
      PROVE  Reports'
  <2>1. /\ pc[t] = "return" /\ pc' = [pc EXCEPT ![t] = "idle"] /\ ~ec'
        /\ UNCHANGED <<conn, over, reported>>
    BY <1>3 DEF Return, Goto
  <2>2. \A u \in ClientThread : pc'[u] = IF u = t THEN "idle" ELSE pc[u]
    BY <2>1 DEF TypeOK
  <2>3. \A u \in ClientThread : pc'[u] \in CallPc \cup {"shut", "cancel"} => reported
    BY <2>2 DEF Reports, CallPc
  <2>4. \A u \in ClientThread : pc'[u] = "cancel" => conn = "closing"
    BY <2>2 DEF Reports
  <2>5. reported /\ conn = "open" => \E u \in ClientThread : pc'[u] \in {"call", "shut"}
    BY <2>1, <2>2 DEF Reports
  <2> QED
    BY <2>1, <2>3, <2>4, <2>5 DEF Reports
<1>4. ASSUME NEW t \in ClientThread, SetTimer(t) \/ CancelTimer(t) \/ Chat(t)
      PROVE  Reports'
  <2>1. UNCHANGED <<conn, ec, reported, over>>
    BY <1>4 DEF SetTimer, CancelTimer, Chat
  <2>2. \E from \in {"arm", "cancel", "act"}, to \in {"return", "idle"} : Goto(t, from, to)
    BY <1>4 DEF SetTimer, CancelTimer, Chat
  <2> QED
    BY <2>1, <2>2, ReportsKept DEF CallPc
<1>5. ASSUME NEW t \in ClientThread, SendHeartbeat(t)
      PROVE  Reports'
  <2>1. UNCHANGED <<conn, ec, over>>
    BY <1>5 DEF SendHeartbeat
  <2>2. CASE reported' = reported /\ Goto(t, "beat", "arm")
    BY <2>1, <2>2, ReportsKept DEF CallPc
  <2>3. CASE reported' /\ Goto(t, "beat", "call")
    BY <2>1, <2>3, Connected, ReportsMade DEF CallPc, Goto
  <2> QED
    BY <1>5, <2>2, <2>3 DEF SendHeartbeat, Report
<1>6. ASSUME NEW t \in ClientThread, NEW from \in {"type", "json", "act"}, NEW to,
             MessageError(t, from, to)
      PROVE  Reports'
  <2>1. Goto(t, from, "call") /\ reported' /\ UNCHANGED conn
    BY <1>6 DEF MessageError, Report
  <2>2. conn # "connecting"
    BY <2>1, OnStrand DEF Ends, Goto, MessagePc
  <2> QED
    BY <2>1, <2>2, ReportsMade DEF CallPc
<1>7. ASSUME NEW t \in ClientThread, NotText(t) \/ ParseJson(t) \/ Answer(t)
      PROVE  Reports'
  <2>1. CASE \E from \in {"type", "json", "act"}, to \in MessagePc : MessageError(t, from, to)
    BY <1>6, <2>1
  <2>2. CASE /\ \E from \in {"json", "act"}, to \in {"act", "arm", "return"} : Goto(t, from, to)
             /\ UNCHANGED <<conn, ec, reported, over>>
    BY <2>2, ReportsKept DEF CallPc
  <2> QED
    BY <1>7, <2>1, <2>2 DEF NotText, ParseJson, Answer, MessagePc
<1>8. ASSUME NEW t \in ClientThread, OnClientFail(t)
      PROVE  Reports'
  <2>1. Goto(t, "idle", "callReturn") /\ reported' /\ UNCHANGED conn /\ over # "no"
    BY <1>8 DEF OnClientFail, Report
  <2> QED
    BY <2>1, ReportsMade DEF CallPc, Ends
<1>9. ASSUME NEW t \in ClientThread, OnClientClose(t)
      PROVE  Reports'
  <2>1. UNCHANGED <<conn, ec>> /\ over = "closed"
    BY <1>9 DEF OnClientClose
  <2>2. CASE hb = None
    <3>1. Goto(t, "idle", "return") /\ UNCHANGED <<over, reported>>
      BY <1>9, <2>2 DEF OnClientClose
    <3> QED
      BY <2>1, <3>1, ReportsKept DEF CallPc
  <2>3. CASE hb # None
    <3>1. Goto(t, "idle", "callReturn") /\ reported'
      BY <1>9, <2>3 DEF OnClientClose, Report
    <3> QED
      BY <2>1, <3>1, ReportsMade DEF CallPc, Ends
  <2> QED
    BY <2>2, <2>3
<1>10. ASSUME NEW t \in ClientThread, OnClientMessage(t)
       PROVE  Reports'
  <2>1. UNCHANGED <<conn, over, ec, reported>>
    BY <1>10 DEF OnClientMessage
  <2>2. \E to \in {"json", "type"} : Goto(t, "idle", to)
    BY <1>10 DEF OnClientMessage
  <2> QED
    BY <2>1, <2>2, ReportsKept DEF CallPc
<1>11. ASSUME NEW t \in ClientThread, NEW i \in Timer, HeartbeatAborted(t, i)
       PROVE  Reports'
  <2>1. /\ Goto(t, "idle", "call") /\ reported' /\ UNCHANGED conn
        /\ timer[i] = "aborted"
    BY <1>11 DEF HeartbeatAborted, Report
  <2>2. conn # "connecting"
    BY <2>1, Connected DEF Pending
  <2> QED
    BY <2>1, <2>2, ReportsMade DEF CallPc
<1>12. ASSUME NEW t \in ClientThread, NEW i \in Timer, HeartbeatExpired(t, i)
       PROVE  Reports'
  <2>1. Goto(t, "idle", "beat") /\ UNCHANGED <<conn, over, ec, reported>>
    BY <1>12 DEF HeartbeatExpired
  <2> QED
    BY <2>1, ReportsKept DEF CallPc
<1>13. ASSUME Library
       PROVE  Reports'
  <2>1. /\ UNCHANGED <<pc, ec, reported>> /\ (over' = "told" => over = "told")
        /\ strand = None
        /\ \/ conn = "connecting" /\ conn' = "open"
           \/ conn = "open" /\ conn' = "closing"
           \/ conn' = "closed"
    BY <1>13 DEF Library, Open, ReceiveClose, Terminate
  <2>2. \A t \in ClientThread : pc[t] # "cancel"
    BY <2>1, OnStrand
  <2> QED
    BY <2>1, <2>2 DEF Reports
<1>14. ASSUME (\E i \in Timer : Expire(i)) \/ AssignHandle \/ CloseTimer \/ UNCHANGED vars
       PROVE  Reports'
  <2>1. UNCHANGED <<pc, conn, over, ec, reported>>
    BY <1>14 DEF Expire, AssignHandle, CloseTimer, vars
  <2> QED
    BY <2>1 DEF Reports
<1>15. ASSUME CloseConnection
       PROVE  Reports'
  <2>1. /\ UNCHANGED <<pc, over, ec>> /\ closing = "timer"
        /\ conn' = IF conn = "open" THEN "closing" ELSE conn
        /\ reported' = reported \/ reported'
    BY <1>15 DEF CloseConnection, Closing
  <2>2. reported => reported'
    BY <1>15 DEF CloseConnection
  <2>3. conn' \notin {"open", "connecting"}
    BY <2>1 DEF Exclusion, Timers
  <2>4. \A t \in ClientThread : pc[t] = "cancel" => conn' = "closing"
    BY <2>1 DEF Reports
  <2> QED
    BY <2>1, <2>2, <2>3, <2>4 DEF Reports
<1> QED
  BY <1>1, <1>2, <1>3, <1>4, <1>5, <1>7, <1>8, <1>9, <1>10, <1>11, <1>12, <1>13, <1>14, <1>15
     DEF Next, Go, Begin

LEMMA TimersStep ==
  ASSUME TypeOK, Strand, Ends, Timers, Chains, [Next]_vars
  PROVE  Timers'
<1> USE NoneAssumption DEF connection, message, registry, history, timers, Goto
<1>1. ASSUME UNCHANGED <<conn, over, hb>> \/ (conn' # "connecting" /\ over' # "failed"),
             hb' = hb, Pending' \subseteq Pending,
             \A t \in ClientThread :
               /\ pc'[t] = "beat" => pc[t] = "beat" \/ Pending # {}
               /\ pc'[t] = "arm" => \/ strand' = t
                                    \/ pc[t] = "beat"
                                    \/ pc[t] = "arm" /\ strand # t
      PROVE  Timers'
  BY <1>1 DEF Timers
<1>2. ASSUME NEW t \in ClientThread, SetTimer(t)
      PROVE  Timers'
  <2> DEFINE i == CHOOSE j \in Timer \ (Pending \cup {hb}) : TRUE
  <2>1. pc[t] = "arm" /\ hb' = i /\ UNCHANGED <<conn, over>>
    BY <1>2 DEF SetTimer
  <2>2. i \in Timer
    BY <2>1, TimerFree
  <2> HIDE DEF i
  <2>3. hb' # None
    BY <2>1, <2>2, MaxLoginsAssumption DEF Timer
  <2>4. conn # "connecting" /\ over # "failed"
    BY <2>1 DEF Ends, Timers
  <2> QED
    BY <2>1, <2>3, <2>4 DEF Timers
<1>3. ASSUME UNCHANGED <<conn, over, hb, pc, strand>>, Pending' \subseteq Pending
      PROVE  Timers'
  BY <1>3 DEF Timers
<1>4. ASSUME NEW t \in ClientThread, OnPlatformClose(t) \/ Chat(t) \/ SendHeartbeat(t)
      PROVE  Timers'
  <2>1. UNCHANGED <<conn, over, hb, strand, timer>>
    BY <1>4 DEF OnPlatformClose, Chat, SendHeartbeat
  <2>2. \E to \in {"shut", "return", "call", "arm"} :
          /\ pc' = [pc EXCEPT ![t] = to]
          /\ to = "arm" => pc[t] = "beat"
    BY <1>4 DEF OnPlatformClose, Chat, SendHeartbeat, Report
  <2> QED
    BY <1>1, <2>1, <2>2 DEF TypeOK, Pending
<1>5. ASSUME NEW t \in ClientThread, Shut(t)
      PROVE  Timers'
  <2>1. /\ UNCHANGED <<over, hb, strand, timer>>
        /\ pc' = [pc EXCEPT ![t] = IF strand = t THEN then ELSE "idle"]
        /\ conn' = conn \/ (conn = "open" /\ conn' = "closing")
    BY <1>5 DEF Shut, Closing
  <2>2. then # "beat"
    BY DEF TypeOK, MessagePc
  <2>3. \A u \in ClientThread :
          /\ pc'[u] = "beat" => pc[u] = "beat"
          /\ pc'[u] = "arm" => strand' = u \/ (pc[u] = "arm" /\ strand # u)
    BY <2>1, <2>2 DEF TypeOK
  <2> QED
    BY <2>1, <2>3 DEF Timers, Pending
<1>6. ASSUME NEW t \in ClientThread, Return(t)
      PROVE  Timers'
  <2>1. /\ UNCHANGED <<conn, over, hb, timer>> /\ strand = t
        /\ pc' = [pc EXCEPT ![t] = "idle"]
    BY <1>6, OnStrand DEF Return, MessagePc
  <2> QED
    BY <1>1, <2>1 DEF TypeOK, Pending
<1>7. ASSUME NEW t \in ClientThread, CancelTimer(t)
      PROVE  Timers'
  <2>1. UNCHANGED <<conn, over, hb, strand>> /\ pc' = [pc EXCEPT ![t] = "return"]
    BY <1>7 DEF CancelTimer
  <2>2. Pending' = Pending
    BY <1>7, CancelledTimers DEF CancelTimer, TypeOK, Pending
  <2> QED
    BY <1>1, <2>1, <2>2 DEF TypeOK
<1>8. ASSUME NEW t \in ClientThread, NotText(t) \/ ParseJson(t) \/ Answer(t)
      PROVE  Timers'
  <2>1. UNCHANGED <<conn, over, hb, strand, timer>> /\ pc[t] \in {"type", "json", "act"}
    BY <1>8 DEF NotText, ParseJson, Answer, MessageError, Report
  <2>2. strand = t
    BY <2>1, OnStrand DEF MessagePc
  <2>3. \E to \in {"call", "act", "arm", "return"} : pc' = [pc EXCEPT ![t] = to]
    BY <1>8 DEF NotText, ParseJson, Answer, MessageError, Report
  <2> QED
    BY <1>1, <2>1, <2>2, <2>3 DEF TypeOK, Pending
<1>9. ASSUME NEW t \in ClientThread, OnClientFail(t) \/ OnClientClose(t)
      PROVE  Timers'
  <2>1. /\ UNCHANGED <<conn, hb>> /\ over # "no" /\ over' \in {"told", over}
        /\ (over' = over => over = "closed")
        /\ strand = None
        /\ \E to \in {"return", "callReturn"} : pc' = [pc EXCEPT ![t] = to]
    BY <1>9 DEF OnClientFail, OnClientClose, Report
  <2>2. Pending' = Pending
    <3>1. timer' = timer \/ (hb # None /\ timer' = Cancelled(hb))
      BY <1>9 DEF OnClientFail, OnClientClose
    <3> QED
      BY <3>1, CancelledTimers DEF TypeOK, Pending
  <2> QED
    BY <1>1, <2>1, <2>2 DEF TypeOK, Ends
<1>10. ASSUME NEW t \in ClientThread, OnClientMessage(t)
       PROVE  Timers'
  <2>1. /\ UNCHANGED <<conn, over, hb, timer>> /\ strand = None
        /\ \E to \in {"json", "type"} : pc' = [pc EXCEPT ![t] = to]
    BY <1>10 DEF OnClientMessage, Deliverable
  <2> QED
    BY <1>1, <2>1 DEF TypeOK, Pending
<1>11. ASSUME NEW t \in ClientThread, NEW i \in Timer,
              HeartbeatAborted(t, i) \/ HeartbeatExpired(t, i)
       PROVE  Timers'
  <2>1. /\ UNCHANGED <<conn, over, hb, strand>> /\ timer[i] # "free"
        /\ timer' = [timer EXCEPT ![i] = "free"]
        /\ \E to \in {"call", "beat"} : pc' = [pc EXCEPT ![t] = to]
    BY <1>11 DEF HeartbeatAborted, HeartbeatExpired, Report
  <2>2. Pending' \subseteq Pending /\ Pending # {}
    BY <2>1 DEF TypeOK, Pending
  <2> QED
    BY <1>1, <2>1, <2>2 DEF TypeOK
<1>12. ASSUME NEW i \in Timer, Expire(i)
       PROVE  Timers'
  <2>1. Pending' \subseteq Pending
    BY <1>12 DEF Expire, TypeOK, Pending
  <2> QED
    BY <1>3, <1>12, <2>1 DEF Expire
<1>13. ASSUME Library
       PROVE  Timers'
  <2>1. /\ UNCHANGED <<pc, hb, timer>> /\ strand' = strand
        /\ \/ conn = "connecting" /\ conn' = "open" /\ over' = over
           \/ conn = "open" /\ conn' = "closing" /\ over' = over
           \/ conn' = "closed" /\ over' = IF conn = "connecting" THEN "failed" ELSE "closed"
    BY <1>13 DEF Library, Open, ReceiveClose, Terminate
  <2> QED
    BY <2>1 DEF Timers, Pending
<1>14. ASSUME AssignHandle \/ UNCHANGED vars
       PROVE  Timers'
  <2>1. UNCHANGED <<conn, over, hb, pc, strand, timer>>
    BY <1>14 DEF AssignHandle, vars
  <2> QED
    BY <1>3, <2>1 DEF Pending
<1>15. ASSUME CloseTimer
       PROVE  Timers'
  <2>1. UNCHANGED <<conn, over, hb, pc, strand>>
    BY <1>15 DEF CloseTimer
  <2>2. Pending' = Pending
    BY <1>15, CancelledTimers DEF CloseTimer, TypeOK, Pending
  <2> QED
    BY <1>3, <2>1, <2>2
<1>16. ASSUME CloseConnection
       PROVE  Timers'
  <2>1. /\ UNCHANGED <<over, hb, pc, strand, timer>>
        /\ conn' = conn \/ (conn = "open" /\ conn' = "closing")
    BY <1>16 DEF CloseConnection, Closing
  <2> QED
    BY <2>1 DEF Timers, Pending
<1> QED
  BY <1>2, <1>4, <1>5, <1>6, <1>7, <1>8, <1>9, <1>10, <1>11, <1>12, <1>13, <1>14, <1>15, <1>16
     DEF Next, Go, Begin

LEMMA ExclusionStep ==
  ASSUME TypeOK, Strand, Timers, Chains, TypeOK', Exclusion, [Next]_vars
  PROVE  Exclusion'
<1> USE DEF connection, message, registry, history, timers, Goto
<1>1. fault = "crash" => UNCHANGED vars
  BY DEF Next
<1>2. ASSUME UNCHANGED <<closing, unmapped>>, hb' = hb \/ hb' # None,
             fault' \in {fault, "crash"},
             \A t \in ClientThread : pc'[t] = "shut" => pc[t] = "shut"
      PROVE  Exclusion'
  BY <1>2 DEF Exclusion
<1>3. ASSUME NEW t \in ClientThread, OnPlatformClose(t)
      PROVE  Exclusion'
  BY <1>3 DEF OnPlatformClose, Exclusion, TypeOK
<1>4. ASSUME NEW t \in ClientThread, SetTimer(t)
      PROVE  Exclusion'
  <2> DEFINE i == CHOOSE j \in Timer \ (Pending \cup {hb}) : TRUE
  <2>1. pc[t] = "arm" /\ hb' = i /\ UNCHANGED <<closing, unmapped, fault>>
        /\ \E to \in {"return", "idle"} : pc' = [pc EXCEPT ![t] = to]
    BY <1>4 DEF SetTimer
  <2>2. i \in Timer
    BY <2>1, TimerFree
  <2> HIDE DEF i
  <2>3. hb' # None
    BY <2>1, <2>2, NoneAssumption, MaxLoginsAssumption DEF Timer
  <2> QED
    BY <1>2, <2>1, <2>3 DEF TypeOK
<1>5. ASSUME NEW t \in ClientThread, NEW from, NEW to, to # "shut", Goto(t, from, to),
             UNCHANGED <<closing, unmapped, hb>>, fault' \in {fault, "crash"}
      PROVE  Exclusion'
  BY <1>2, <1>5 DEF TypeOK
<1>6. ASSUME NEW t \in ClientThread, Shut(t) \/ Return(t) \/ CancelTimer(t) \/ Chat(t)
      PROVE  Exclusion'
  <2>1. UNCHANGED <<closing, unmapped, hb>> /\ fault' \in {fault, "crash"}
    BY <1>6 DEF Shut, Return, CancelTimer, Chat
  <2>2. \E from, to : Goto(t, from, to) /\ to # "shut"
    BY <1>6 DEF Shut, Return, CancelTimer, Chat, TypeOK, MessagePc
  <2> QED
    BY <1>5, <2>1, <2>2
<1>7. ASSUME NEW t \in ClientThread,
             SendHeartbeat(t) \/ NotText(t) \/ ParseJson(t) \/ Answer(t)
      PROVE  Exclusion'
  <2>1. UNCHANGED <<closing, unmapped, hb, fault>>
    BY <1>7 DEF SendHeartbeat, NotText, ParseJson, Answer, MessageError, Report
  <2>2. \E from, to : Goto(t, from, to) /\ to # "shut"
    BY <1>7 DEF SendHeartbeat, NotText, ParseJson, Answer, MessageError, Report
  <2> QED
    BY <1>5, <2>1, <2>2
<1>8. ASSUME NEW t \in ClientThread, Begin(t) \/ OnClientMessage(t)
      PROVE  Exclusion'
  <2>1. UNCHANGED <<closing, unmapped, hb>> /\ fault' \in {fault, "crash"}
    BY <1>8 DEF Begin, OnClientFail, OnClientClose, HeartbeatAborted, HeartbeatExpired,
                OnClientMessage, Report
  <2>2. \E from, to : Goto(t, from, to) /\ to # "shut"
    BY <1>8 DEF Begin, OnClientFail, OnClientClose, HeartbeatAborted, HeartbeatExpired,
                OnClientMessage, Report
  <2> QED
    BY <1>5, <2>1, <2>2
<1>9. ASSUME (\E i \in Timer : Expire(i)) \/ Library \/ AssignHandle \/ UNCHANGED vars
      PROVE  Exclusion'
  <2>1. UNCHANGED <<closing, unmapped, hb, fault, pc>>
    BY <1>9 DEF Expire, Library, AssignHandle, vars
  <2> QED
    BY <1>2, <2>1
<1>10. ASSUME CloseTimer
       PROVE  Exclusion'
  BY <1>10 DEF CloseTimer, Exclusion, TypeOK
<1>11. ASSUME CloseConnection
       PROVE  Exclusion'
  BY <1>11 DEF CloseConnection, Exclusion
<1> QED
  BY <1>3, <1>4, <1>6, <1>7, <1>8, <1>9, <1>10, <1>11 DEF Next, Go

-----------------------------------------------------------------------------
(* The chains of heartbeats.                                               *)

LEMMA ChainsFinite ==
  ASSUME TypeOK, Chains
  PROVE  /\ IsFiniteSet(Pending) /\ Cardinality(Pending) \in Nat
         /\ IsFiniteSet(Owing) /\ Cardinality(Owing) \in Nat
         /\ logins \in Nat
<1>1. IsFiniteSet(Pending) /\ Cardinality(Pending) \in Nat
  BY TimersFinite DEF Pending
<1> QED
  BY <1>1, MaxLoginsAssumption, FS_CardinalityType DEF Chains, TypeOK

\* The same timers are set and the same threads owe one.
LEMMA ChainsKept ==
  ASSUME Chains, Pending' = Pending, Owing' = Owing, logins' = logins,
         reported => reported', closing' = "no" => closing = "no"
  PROVE  Chains'
BY DEF Chains

\* A chain may end, or stop for the time of a report, once there is a report.
LEMMA ChainsFewer ==
  ASSUME TypeOK, Chains, Pending' \subseteq Pending, Owing' \subseteq Owing,
         logins' = logins, reported'
  PROVE  Chains'
<1>1. /\ IsFiniteSet(Pending') /\ Cardinality(Pending') <= Cardinality(Pending)
      /\ Cardinality(Pending') \in Nat
  BY ChainsFinite, FS_Subset, FS_CardinalityType
<1>2. /\ IsFiniteSet(Owing') /\ Cardinality(Owing') <= Cardinality(Owing)
      /\ Cardinality(Owing') \in Nat
  BY ChainsFinite, FS_Subset, FS_CardinalityType
<1>3. Cardinality(Pending)' = Cardinality(Pending') /\ Cardinality(Owing)' = Cardinality(Owing')
  OBVIOUS
<1>4. Cardinality(Pending') + Cardinality(Owing') <= logins
  BY <1>1, <1>2, ChainsFinite DEF Chains
<1> QED
  BY <1>2, <1>4 DEF Chains

\* A login begins a chain.
LEMMA ChainBegins ==
  ASSUME TypeOK, Chains, Pending' = Pending, NEW t \in ClientThread, t \notin Owing,
         Owing' = Owing \cup {t}, logins' = logins + 1,
         reported => reported', closing' = "no" => closing = "no"
  PROVE  Chains'
<1>1. IsFiniteSet(Owing') /\ Cardinality(Owing') = Cardinality(Owing) + 1
  BY ChainsFinite, FS_AddElement
<1>2. Cardinality(Pending') + Cardinality(Owing') =
        Cardinality(Pending) + Cardinality(Owing) + 1
  BY <1>1, ChainsFinite
<1>3. Cardinality(Pending') + Cardinality(Owing') <= logins'
  BY <1>2, ChainsFinite DEF Chains
<1>4. ~reported' /\ closing' = "no" =>
        Cardinality(Pending') + Cardinality(Owing') = logins'
  BY <1>2, ChainsFinite DEF Chains
<1> QED
  BY <1>1, <1>3, <1>4 DEF Chains

\* A thread that owes a timer sets one, or takes the handler of one.
LEMMA ChainGoesOn ==
  ASSUME TypeOK, Chains, logins' = logins,
         reported => reported', closing' = "no" => closing = "no",
         NEW t \in ClientThread, NEW i \in Timer,
         \/ /\ t \in Owing /\ Owing' = Owing \ {t}
            /\ i \notin Pending /\ Pending' = Pending \cup {i}
         \/ /\ t \notin Owing /\ Owing' = Owing \cup {t}
            /\ i \in Pending /\ Pending' = Pending \ {i}
  PROVE  Chains'
<1>1. CASE /\ t \in Owing /\ Owing' = Owing \ {t}
           /\ i \notin Pending /\ Pending' = Pending \cup {i}
  <2>1. IsFiniteSet(Owing') /\ Cardinality(Owing') = Cardinality(Owing) - 1
    BY <1>1, ChainsFinite, FS_RemoveElement
  <2>2. Cardinality(Pending') = Cardinality(Pending) + 1
    BY <1>1, ChainsFinite, FS_AddElement
  <2>3. Cardinality(Pending') + Cardinality(Owing') =
          Cardinality(Pending) + Cardinality(Owing)
    BY <2>1, <2>2, ChainsFinite
  <2> QED
    BY <2>1, <2>3 DEF Chains
<1>2. CASE /\ t \notin Owing /\ Owing' = Owing \cup {t}
           /\ i \in Pending /\ Pending' = Pending \ {i}
  <2>1. IsFiniteSet(Owing') /\ Cardinality(Owing') = Cardinality(Owing) + 1
    BY <1>2, ChainsFinite, FS_AddElement
  <2>2. Cardinality(Pending') = Cardinality(Pending) - 1
    BY <1>2, ChainsFinite, FS_RemoveElement
  <2>3. Cardinality(Pending') + Cardinality(Owing') =
          Cardinality(Pending) + Cardinality(Owing)
    BY <2>1, <2>2, ChainsFinite
  <2> QED
    BY <2>1, <2>3 DEF Chains
<1> QED
  BY <1>1, <1>2

\* Only the thread that takes a step comes to owe a timer, or ceases to.
LEMMA OwingBut ==
  ASSUME TypeOK, NEW t \in ClientThread,
         \A u \in ClientThread : u # t => pc'[u] = pc[u],
         \A u \in ClientThread : u # t => (strand' = u <=> strand = u),
         resp' = resp \/ (strand \in {None, t} /\ strand' \in {None, t})
  PROVE  /\ Owes(t)' <=> Owes(t) => Owing' = Owing
         /\ ~Owes(t)' => Owing' = Owing \ {t}
         /\ Owes(t)' => Owing' = Owing \cup {t}
<1>1. \A u \in ClientThread : u # t => (Owes(u)' <=> Owes(u))
  BY NoneAssumption DEF Owes
<1> QED
  BY <1>1 DEF Owing

LEMMA ChainsStep ==
  ASSUME TypeOK, Strand, Ends, Reports, Timers, Chains, [Next]_vars
  PROVE  Chains'
<1> USE DEF connection, message, registry, history, timers, Goto
<1>0. ASSUME NEW t \in ClientThread, NEW from, NEW to, Goto(t, from, to), resp' = resp,
             strand' = strand
      PROVE  /\ Owes(t)' <=> Owes(t) => Owing' = Owing
             /\ ~Owes(t)' => Owing' = Owing \ {t}
             /\ Owes(t)' => Owing' = Owing \cup {t}
             /\ pc[t] = from /\ pc'[t] = to
  <2>1. \A u \in ClientThread : u # t => pc'[u] = pc[u]
    BY <1>0 DEF TypeOK
  <2>2. pc[t] = from /\ pc'[t] = to
    BY <1>0 DEF TypeOK
  <2> QED
    BY <1>0, <2>1, <2>2, OwingBut
<1>1. ASSUME NEW t \in ClientThread, OnPlatformClose(t)
      PROVE  Chains'
  <2>1. UNCHANGED <<strand, resp, timer, logins, reported, closing>>
    BY <1>1 DEF OnPlatformClose
  <2>2. Goto(t, "call", "shut") \/ Goto(t, "callReturn", "return")
    BY <1>1 DEF OnPlatformClose
  <2>3. Owing' = Owing
    <3>1. CASE Goto(t, "call", "shut")
      <4>1. Owes(t)' <=> Owes(t)
        BY <1>0, <2>1, <3>1 DEF Owes
      <4> QED
        BY <1>0, <2>1, <3>1, <4>1
    <3>2. CASE Goto(t, "callReturn", "return")
      <4>1. Owes(t)' <=> Owes(t)
        BY <1>0, <2>1, <3>2 DEF Owes
      <4> QED
        BY <1>0, <2>1, <3>2, <4>1
    <3> QED
      BY <2>2, <3>1, <3>2
  <2> QED
    BY <2>1, <2>3, ChainsKept DEF Pending
<1>2. ASSUME NEW t \in ClientThread, Shut(t)
      PROVE  Chains'
  <2>1. UNCHANGED <<strand, resp, timer, logins, reported, closing>>
    BY <1>2 DEF Shut
  <2>2. reported
    BY <1>2 DEF Shut, Reports
  <2>3. Owes(t)' => Owes(t)
    <3>1. pc[t] = "shut" /\ pc'[t] = IF strand = t THEN then ELSE "idle"
      BY <1>2 DEF Shut, TypeOK
    <3>2. strand = t /\ then \in {"beat", "arm"} => resp = "login"
      BY DEF Strand, TypeOK, MessagePc
    <3> QED
      BY <2>1, <3>1, <3>2 DEF Owes
  <2>4. Owing' \subseteq Owing
    <3>1. \E to : Goto(t, "shut", to)
      BY <1>2 DEF Shut
    <3>2. t \in Owing <=> Owes(t)
      BY DEF Owing
    <3> QED
      BY <1>0, <2>1, <2>3, <3>1, <3>2
  <2> QED
    BY <2>1, <2>2, <2>4, ChainsFewer DEF Pending
<1>3. ASSUME NEW t \in ClientThread, Return(t)
      PROVE  Chains'
  <2>1. /\ UNCHANGED <<timer, logins, reported, closing>> /\ strand' = None
        /\ pc[t] = "return" /\ strand = t /\ pc' = [pc EXCEPT ![t] = "idle"]
    BY <1>3, OnStrand DEF Return, MessagePc
  <2>2. Owes(t)' <=> Owes(t)
    BY <2>1 DEF Owes, TypeOK
  <2>3. /\ \A u \in ClientThread : u # t => pc'[u] = pc[u]
        /\ \A u \in ClientThread : u # t => (strand' = u <=> strand = u)
    BY <2>1, NoneAssumption DEF TypeOK
  <2>4. Owing' = Owing
    BY <2>1, <2>2, <2>3, OwingBut
  <2> QED
    BY <2>1, <2>4, ChainsKept DEF Pending
<1>4. ASSUME NEW t \in ClientThread, SetTimer(t)
      PROVE  Chains'
  <2> DEFINE i == CHOOSE j \in Timer \ (Pending \cup {hb}) : TRUE
  <2>1. /\ pc[t] = "arm" /\ timer' = [timer EXCEPT ![i] = "armed"]
        /\ UNCHANGED <<strand, resp, logins, reported, closing>>
    BY <1>4 DEF SetTimer
  <2>2. i \in Timer /\ i \notin Pending
    BY <2>1, TimerFree
  <2> HIDE DEF i
  <2>3. Pending' = Pending \cup {i}
    <3>1. \A j \in Timer : timer'[j] = IF j = i THEN "armed" ELSE timer[j]
      BY <2>1 DEF TypeOK
    <3> QED
      BY <2>2, <3>1 DEF Pending
  <2>4. PICK to \in {"return", "idle"} : Goto(t, "arm", to)
    BY <1>4 DEF SetTimer
  <2>5. t \in Owing /\ ~Owes(t)'
    BY <1>0, <2>1, <2>4 DEF Owing, Owes
  <2>6. Owing' = Owing \ {t}
    BY <1>0, <2>1, <2>4, <2>5
  <2> QED
    BY <2>1, <2>2, <2>3, <2>5, <2>6, ChainGoesOn
<1>5. ASSUME NEW t \in ClientThread, CancelTimer(t)
      PROVE  Chains'
  <2>1. /\ UNCHANGED <<strand, resp, logins, reported, closing>>
        /\ Goto(t, "cancel", "return")
    BY <1>5 DEF CancelTimer
  <2>2. Pending' = Pending
    BY <1>5, CancelledTimers DEF CancelTimer, TypeOK, Pending
  <2>3. Owes(t)' <=> Owes(t)
    BY <1>0, <2>1 DEF Owes
  <2> QED
    BY <1>0, <2>1, <2>2, <2>3, ChainsKept
<1>6. ASSUME NEW t \in ClientThread, SendHeartbeat(t)
      PROVE  Chains'
  <2>1. UNCHANGED <<strand, resp, timer, logins, closing>>
    BY <1>6 DEF SendHeartbeat, Report
  <2>2. CASE Goto(t, "beat", "arm") /\ reported' = reported
    <3>1. Owes(t)' <=> Owes(t)
      BY <1>0, <2>1, <2>2 DEF Owes
    <3>2. Owing' = Owing
      BY <1>0, <2>1, <2>2, <3>1
    <3> QED
      BY <2>1, <2>2, <3>2, ChainsKept DEF Pending
  <2>3. CASE Goto(t, "beat", "call") /\ reported'
    <3>1. Owing' \subseteq Owing
      <4>1. pc[t] = "beat"
        BY <2>3
      <4>2. t \in Owing
        BY <4>1 DEF Owing, Owes
      <4> QED
        BY <1>0, <2>1, <2>3, <4>2
    <3> QED
      BY <2>1, <2>3, <3>1, ChainsFewer DEF Pending
  <2> QED
    BY <1>6, <2>2, <2>3 DEF SendHeartbeat, Report
<1>7. ASSUME NEW t \in ClientThread, NEW from \in {"type", "json", "act"}, NEW to,
             MessageError(t, from, to)
      PROVE  Chains'
  <2>1. /\ UNCHANGED <<strand, resp, timer, logins, closing>> /\ reported'
        /\ Goto(t, from, "call")
    BY <1>7 DEF MessageError, Report
  <2>2. Owes(t)' <=> Owes(t)
    BY <1>0, <2>1 DEF Owes
  <2>3. Owing' = Owing
    BY <1>0, <2>1, <2>2
  <2> QED
    BY <2>1, <2>3, ChainsKept DEF Pending
<1>8. ASSUME NEW t \in ClientThread, NotText(t) \/ ParseJson(t) \/ Answer(t)
      PROVE  Chains'
  <2>1. CASE \E from \in {"type", "json", "act"}, to \in MessagePc : MessageError(t, from, to)
    BY <1>7, <2>1
  <2>2. ASSUME UNCHANGED <<strand, resp, timer, logins, reported, closing>>,
               NEW from, NEW to, Goto(t, from, to),
               \/ from = "json" /\ to = "act"
               \/ from = "act" /\ to = "arm" /\ resp = "login"
               \/ from = "act" /\ to = "return" /\ resp = "init"
        PROVE  Chains'
    <3>1. strand = t
      BY <2>2, OnStrand DEF MessagePc
    <3>2. Owes(t)' <=> Owes(t)
      BY <1>0, <2>2, <3>1 DEF Owes
    <3>3. Owing' = Owing
      BY <1>0, <2>2, <3>2
    <3> QED
      BY <2>2, <3>3, ChainsKept DEF Pending
  <2> QED
    BY <1>8, <2>1, <2>2 DEF NotText, ParseJson, Answer, MessagePc
<1>9. ASSUME NEW t \in ClientThread, Chat(t)
      PROVE  Chains'
  <2>1. /\ UNCHANGED <<strand, resp, timer, logins, reported, closing>>
        /\ Goto(t, "act", "return") /\ resp \in {"chat", "other"}
    BY <1>9 DEF Chat
  <2>2. Owes(t)' <=> Owes(t)
    BY <1>0, <2>1 DEF Owes
  <2>3. Owing' = Owing
    BY <1>0, <2>1, <2>2
  <2> QED
    BY <2>1, <2>3, ChainsKept DEF Pending
<1>10. ASSUME NEW t \in ClientThread, OnClientFail(t) \/ OnClientClose(t)
       PROVE  Chains'
  <2>1. /\ UNCHANGED <<resp, logins, closing>> /\ strand = None /\ strand' = t
        /\ reported' = reported \/ reported'
    BY <1>10 DEF OnClientFail, OnClientClose, Report
  <2>2. /\ pc[t] = "idle" /\ pc'[t] \in {"return", "callReturn"}
        /\ \A u \in ClientThread : u # t => pc'[u] = pc[u]
    BY <1>10 DEF OnClientFail, OnClientClose, Report, TypeOK
  <2>3. Owes(t)' <=> Owes(t)
    BY <2>2 DEF Owes
  <2>4. \A u \in ClientThread : u # t => (strand' = u <=> strand = u)
    BY <2>1, NoneAssumption
  <2>5. Owing' = Owing
    BY <2>1, <2>2, <2>3, <2>4, OwingBut
  <2>6. Pending' = Pending
    <3>1. timer' = timer \/ (hb # None /\ timer' = Cancelled(hb))
      BY <1>10 DEF OnClientFail, OnClientClose
    <3> QED
      BY <3>1, CancelledTimers DEF TypeOK, Pending
  <2>7. reported => reported'
    BY <1>10 DEF OnClientFail, OnClientClose, Report
  <2> QED
    BY <2>1, <2>5, <2>6, <2>7, ChainsKept
<1>11. ASSUME NEW t \in ClientThread, OnClientMessage(t)
       PROVE  Chains'
  <2>1. /\ UNCHANGED <<timer, closing, reported>> /\ strand = None /\ strand' = t
    BY <1>11 DEF OnClientMessage, Deliverable
  <2>2. /\ pc[t] = "idle" /\ pc'[t] \in {"json", "type"}
        /\ \A u \in ClientThread : u # t => pc'[u] = pc[u]
    BY <1>11 DEF OnClientMessage, TypeOK
  <2>3. \A u \in ClientThread : u # t => (strand' = u <=> strand = u)
    BY <2>1, NoneAssumption
  <2>4. ~Owes(t) /\ t \notin Owing
    BY <2>2 DEF Owes, Owing
  <2>5. CASE resp' = "login"
    <3>1. logins' = logins + 1
      BY <1>11, <2>5 DEF OnClientMessage
    <3>2. Owes(t)'
      BY <2>1, <2>2, <2>5 DEF Owes
    <3>3. Owing' = Owing \cup {t}
      BY <2>1, <2>2, <2>3, <3>2, OwingBut
    <3> QED
      BY <2>1, <2>4, <3>1, <3>3, ChainBegins DEF Pending
  <2>6. CASE resp' # "login"
    <3>1. logins' = logins
      BY <1>11, <2>6 DEF OnClientMessage
    <3>2. ~Owes(t)'
      BY <2>2, <2>6 DEF Owes
    <3>3. Owing' = Owing
      BY <2>1, <2>2, <2>3, <2>4, <3>2, OwingBut
    <3> QED
      BY <2>1, <3>1, <3>3, ChainsKept DEF Pending
  <2> QED
    BY <2>5, <2>6
<1>12. ASSUME NEW t \in ClientThread, NEW i \in Timer,
              HeartbeatAborted(t, i) \/ HeartbeatExpired(t, i)
       PROVE  Chains'
  <2>1. /\ UNCHANGED <<strand, resp, logins, closing>> /\ timer[i] # "free"
        /\ timer' = [timer EXCEPT ![i] = "free"]
    BY <1>12 DEF HeartbeatAborted, HeartbeatExpired, Report
  <2>2. i \in Pending /\ Pending' = Pending \ {i}
    <3>1. \A j \in Timer : timer'[j] = IF j = i THEN "free" ELSE timer[j]
      BY <2>1 DEF TypeOK
    <3> QED
      BY <2>1, <3>1 DEF Pending
  <2>3. pc[t] = "idle"
    BY <1>12 DEF HeartbeatAborted, HeartbeatExpired, Report
  <2>4. strand # t /\ ~Owes(t) /\ t \notin Owing
    BY <2>3 DEF Strand, Owes, Owing
  <2>5. CASE HeartbeatAborted(t, i)
    <3>1. Goto(t, "idle", "call") /\ reported'
      BY <2>5 DEF HeartbeatAborted, Report
    <3>2. ~Owes(t)'
      BY <1>0, <2>1, <2>4, <3>1 DEF Owes
    <3>3. Owing' \subseteq Owing
      BY <1>0, <2>1, <3>1, <3>2
    <3> QED
      BY <2>1, <2>2, <3>1, <3>3, ChainsFewer
  <2>6. CASE HeartbeatExpired(t, i)
    <3>1. Goto(t, "idle", "beat") /\ reported' = reported
      BY <2>6 DEF HeartbeatExpired
    <3>2. Owes(t)'
      BY <1>0, <2>1, <3>1 DEF Owes
    <3>3. Owing' = Owing \cup {t}
      BY <1>0, <2>1, <3>1, <3>2
    <3> QED
      BY <2>1, <2>2, <2>4, <3>1, <3>3, ChainGoesOn
  <2> QED
    BY <1>12, <2>5, <2>6
<1>13. ASSUME UNCHANGED <<pc, strand, resp, logins>>, Pending' = Pending,
              reported => reported', closing' = "no" => closing = "no"
       PROVE  Chains'
  <2>1. Owing' = Owing
    BY <1>13 DEF Owing, Owes
  <2> QED
    BY <1>13, <2>1, ChainsKept
<1>14. ASSUME NEW i \in Timer, Expire(i)
       PROVE  Chains'
  <2>1. Pending' = Pending
    BY <1>14 DEF Expire, TypeOK, Pending
  <2> QED
    BY <1>13, <1>14, <2>1 DEF Expire
<1>15. ASSUME Library \/ AssignHandle \/ UNCHANGED vars
       PROVE  Chains'
  <2>1. UNCHANGED <<pc, strand, resp, logins, timer, reported, closing>>
    BY <1>15 DEF Library, ReceiveClose, Terminate, AssignHandle, vars
  <2> QED
    BY <1>13, <2>1 DEF Pending
<1>16. ASSUME CloseTimer
       PROVE  Chains'
  <2>1. Pending' = Pending
    BY <1>16, CancelledTimers DEF CloseTimer, TypeOK, Pending
  <2> QED
    BY <1>13, <1>16, <2>1 DEF CloseTimer
<1>17. ASSUME CloseConnection
       PROVE  Chains'
  <2>1. UNCHANGED <<pc, strand, resp, logins, timer>> /\ closing' = "done"
    BY <1>17 DEF CloseConnection
  <2>2. reported => reported'
    BY <1>17 DEF CloseConnection
  <2> QED
    BY <1>13, <2>1, <2>2 DEF Pending
<1> QED
  BY <1>1, <1>2, <1>3, <1>4, <1>5, <1>6, <1>8, <1>9, <1>10, <1>11, <1>12, <1>14, <1>15,
     <1>16, <1>17 DEF Next, Go, Begin

-----------------------------------------------------------------------------
(* The theorems.                                                           *)

LEMMA InitIInv == Init => IInv
<1> SUFFICES ASSUME Init PROVE IInv
  OBVIOUS
<1>1. TypeOK
  BY TypeInit
<1>2. \A t \in ClientThread : pc[t] = "idle" /\ strand # t
  BY NoneAssumption DEF Init, WsInit
<1>3. Strand /\ Ends /\ Exclusion
  BY <1>2 DEF Init, WsInit, Strand, Ends, Exclusion
<1>4. Reports
  BY <1>2 DEF Init, WsInit, Reports, CallPc
<1>5. Pending = {} /\ Owing = {}
  BY <1>2 DEF Init, Pending, Owing, Owes
<1>6. Timers
  BY <1>2, <1>5 DEF Init, Timers
<1>7. Chains
  BY <1>5, FS_EmptySet DEF Init, Chains
<1> QED
  BY <1>1, <1>3, <1>4, <1>6, <1>7 DEF IInv

LEMMA IInvStep == IInv /\ [Next]_vars => IInv'
<1> SUFFICES ASSUME IInv, [Next]_vars PROVE IInv'
  OBVIOUS
<1>1. TypeOK'
  BY TypeStep DEF IInv
<1>2. Strand' /\ Ends' /\ Reports' /\ Timers'
  BY StrandStep, EndsStep, ReportsStep, TimersStep DEF IInv
<1>3. Exclusion' /\ Chains'
  BY <1>1, ExclusionStep, ChainsStep DEF IInv
<1> QED
  BY <1>1, <1>2, <1>3 DEF IInv

LEMMA Invariant == Spec => []IInv
BY InitIInv, IInvStep, PTL DEF Spec

\* The types of a YY session's state; that all handlers but those of heartbeats
\* run on the connection's strand; and that the handler of a login (YY.cpp:119)
\* and a heartbeat (YY.cpp:80) always find a timer for the next one.
THEOREM TypeCorrect == Spec => []TypeOK
<1>1. IInv => TypeOK
  BY DEF IInv
<1> QED
  BY <1>1, Invariant, PTL

\* YY.cpp:80-82, 119-132: each login starts one chain of heartbeats, and until
\* something is reported or closed none of them ends, forks or is forgotten,
\* however many logins there are and however many threads run heartbeats.
THEOREM OneChainPerLoginHolds == Spec => []OneChainPerLogin
<1>1. IInv => OneChainPerLogin
  <2> SUFFICES ASSUME IInv, ~reported, closing = "no"
               PROVE  Cardinality(Pending) + Cardinality(Beating) = logins
    BY DEF OneChainPerLogin
  <2>1. \A t \in ClientThread : pc[t] \notin {"call", "shut"}
    BY DEF IInv, Reports, CallPc
  <2>2. \A t \in ClientThread :
          Owes(t) <=> \/ pc[t] \in {"beat", "arm"}
                      \/ strand = t /\ resp = "login" /\ pc[t] \in {"type", "json", "act"}
    BY <2>1 DEF Owes
  <2>3. Beating = Owing
    BY <2>2 DEF Beating, Owing
  <2> QED
    BY <2>3 DEF IInv, Chains
<1> QED
  BY <1>1, Invariant, PTL

\* dmp_cs.hpp:38-39: when the handlers that reported have returned, the
\* connection is not open, whichever handler reported and whatever other handlers
\* did meanwhile.
THEOREM ReportMeansClosedHolds == Spec => []ReportMeansClosed
<1>1. IInv => ReportMeansClosed
  BY DEF IInv, Reports, ReportMeansClosed, Idle
<1> QED
  BY <1>1, Invariant, PTL

-----------------------------------------------------------------------------
(* The refinement of WsSession.                                            *)

Shutting == \E t \in ClientThread : pc[t] = "shut"

\* The stage of the session, before and after a step.
LEMMA StageIs ==
  ASSUME TypeOK, Ends
  PROVE  /\ conn = "connecting" => Stage = "connecting"
         /\ conn = "open" => Stage = IF Shutting THEN "closing" ELSE "open"
         /\ conn = "closing" => Stage = "closing"
         /\ over = "failed" => Stage = "connecting"
         /\ over = "closed" => Stage = "terminated"
         /\ over = "told" => Stage = IF Quiet THEN "ended" ELSE "draining"
         /\ conn = "closed" => over \in {"failed", "closed", "told"}
BY DEF TypeOK, WsType, Ends, Stage, Shutting

LEMMA StageBecomes ==
  ASSUME TypeOK', Ends'
  PROVE  /\ conn' = "connecting" => Stage' = "connecting"
         /\ conn' = "open" => Stage' = IF Shutting' THEN "closing" ELSE "open"
         /\ conn' = "closing" => Stage' = "closing"
         /\ over' = "failed" => Stage' = "connecting"
         /\ over' = "closed" => Stage' = "terminated"
         /\ over' = "told" => Stage' = IF Quiet' THEN "ended" ELSE "draining"
BY DEF TypeOK, WsType, Ends, Stage, Shutting

\* A step of a handler that is not about a report, and the two of one that is.
LEMMA WaitingKept ==
  ASSUME TypeOK, NEW t \in ClientThread, NEW to, pc' = [pc EXCEPT ![t] = to],
         ~Waiting[t], to \notin CallPc
  PROVE  Waiting' = Waiting
<1>1. \A u \in ClientThread : (pc'[u] \in CallPc) = (pc[u] \in CallPc)
  <2>1. pc[t] \notin CallPc /\ pc'[t] \notin CallPc
    BY DEF TypeOK, Waiting
  <2>2. \A u \in ClientThread : u # t => pc'[u] = pc[u]
    BY DEF TypeOK
  <2> QED
    BY <2>1, <2>2
<1> QED
  BY <1>1, Zenon DEF Waiting

LEMMA WaitingEnds ==
  ASSUME TypeOK, NEW t \in ClientThread, NEW to, pc' = [pc EXCEPT ![t] = to],
         to \notin CallPc
  PROVE  Waiting' = [Waiting EXCEPT ![t] = FALSE]
<1>1. (pc'[t] \in CallPc) = FALSE
  BY DEF TypeOK
<1>2. \A u \in ClientThread : u # t => (pc'[u] \in CallPc) = (pc[u] \in CallPc)
  BY DEF TypeOK
<1> QED
  BY <1>1, <1>2, Zenon DEF Waiting

LEMMA WaitingBegins ==
  ASSUME TypeOK, NEW t \in ClientThread, NEW to \in CallPc, pc' = [pc EXCEPT ![t] = to]
  PROVE  Waiting' = [Waiting EXCEPT ![t] = TRUE]
<1>1. (pc'[t] \in CallPc) = TRUE
  BY DEF TypeOK
<1>2. \A u \in ClientThread : u # t => (pc'[u] \in CallPc) = (pc[u] \in CallPc)
  BY DEF TypeOK
<1> QED
  BY <1>1, <1>2, Zenon DEF Waiting

\* What the registry's model sees of a session beside its stage and its callers.
Rest == <<fault, said, reported, closing, hb>>

LEMMA RestKept ==
  ASSUME UNCHANGED Rest
  PROVE  /\ UNCHANGED <<fault, said, reported>>
         /\ (hb # None)' = (hb # None)
         /\ (closing = "done")' = (closing = "done")
BY DEF Rest

\* A step that ends the session, or that the registry does not see.
LEMMA Unseen ==
  ASSUME TypeOK, TypeOK', Ends, Ends', Waiting' = Waiting, UNCHANGED Rest,
         Stage' = Stage \/ (over = "told" /\ over' = "told" /\ (Quiet => Quiet'))
  PROVE  Session!End \/ UNCHANGED Session!vars
<1>1. CASE Stage' = Stage
  BY <1>1, RestKept DEF Session!vars
<1>2. CASE Stage' # Stage
  <2>1. Stage = "draining" /\ Stage' = "ended" /\ Quiet'
    BY <1>2, StageIs, StageBecomes
  <2>2. \A t \in ClientThread : ~Waiting[t]
    <3>1. \A t \in ClientThread : ~Waiting'[t]
      BY <2>1 DEF Quiet, Idle, Waiting, CallPc
    <3> QED
      BY <3>1
  <2> QED
    BY <2>1, <2>2, RestKept DEF Session!End
<1> QED
  BY <1>1, <1>2

\* A step of a handler that leaves the connection alone and does not come from
\* the callback of a report.
LEMMA HandlerStage ==
  ASSUME TypeOK, TypeOK', Ends, Ends', UNCHANGED <<conn, over>>,
         NEW t \in ClientThread, NEW from, NEW to, Goto(t, from, to),
         from # "shut", to # "shut"
  PROVE  Stage' = Stage \/ (over = "told" /\ over' = "told")
<1>1. Shutting' <=> Shutting
  BY DEF Goto, TypeOK, Shutting
<1> QED
  BY <1>1, StageIs, StageBecomes DEF TypeOK, WsType, Ends

\* A handler that runs, or a timer, makes the session busy.
LEMMA NotQuiet ==
  ASSUME TypeOK, NEW t \in ClientThread, pc[t] # "idle"
  PROVE  ~Quiet
BY DEF Quiet, Idle

LEMMA NotQuietThen ==
  ASSUME TypeOK, NEW t \in ClientThread, NEW to, pc' = [pc EXCEPT ![t] = to], to # "idle"
  PROVE  ~Quiet'
BY DEF TypeOK, Quiet, Idle

\* A report of a message or a heartbeat: it is not the one that ends the session.
LEMMA ReportSeen ==
  ASSUME TypeOK, TypeOK', Ends, Ends', NEW t \in ClientThread,
         NEW from, from \notin CallPc \cup {"shut"}, Report(t, from, "call"),
         UNCHANGED <<conn, over, hb>>,
         ~Quiet, conn \in {"open", "closing"} \/ (hb # None /\ conn = "closed" /\ over # "failed")
  PROVE  Session!ExtraReport(t)
<1>1. /\ pc[t] = from /\ pc' = [pc EXCEPT ![t] = "call"]
      /\ said' = ~said /\ reported' = TRUE /\ UNCHANGED <<fault, closing>>
  BY DEF Report, Goto, registry
<1>2. "call" \in CallPc /\ ~Waiting[t]
  BY <1>1 DEF CallPc, Waiting
<1>3. Waiting' = [Waiting EXCEPT ![t] = TRUE]
  BY <1>1, <1>2, WaitingBegins
<1>4. ~Quiet'
  BY <1>1, NotQuietThen
<1>5. Shutting' <=> Shutting
  BY <1>1 DEF TypeOK, Shutting
<1>6. Stage' = Stage
  BY <1>4, <1>5, StageIs, StageBecomes DEF TypeOK, WsType, Ends
<1>7. \/ Stage \in {"open", "closing"}
      \/ Stage \in {"draining", "terminated"} /\ hb # None
  BY StageIs
<1>8. (hb # None)' = (hb # None) /\ (closing = "done")' = (closing = "done")
  BY <1>1
<1> QED
  BY <1>1, <1>2, <1>3, <1>6, <1>7, <1>8 DEF Session!ExtraReport, Session!Report

LEMMA CallbackSeen ==
  ASSUME IInv, IInv', NEW t \in ClientThread, OnPlatformClose(t)
  PROVE  Session!OnPlatformClose(t)
<1> USE DEF IInv, connection, history, timers, Goto
<1>1. /\ pc[t] \in CallPc /\ Waiting[t] /\ fault = "none"
      /\ UNCHANGED <<conn, over, timer, Rest>>
  BY DEF OnPlatformClose, Waiting, CallPc, Rest
<1>2. PICK to \in {"shut", "return"} :
        pc' = [pc EXCEPT ![t] = to] /\ (pc[t] = "call" => to = "shut")
  BY DEF OnPlatformClose
<1>3. Waiting' = [Waiting EXCEPT ![t] = FALSE]
  BY <1>2, WaitingEnds DEF CallPc
<1>4. ~Quiet /\ ~Quiet'
  BY <1>1, <1>2, NotQuiet, NotQuietThen DEF CallPc
<1>5. conn = "open" => Shutting'
  <2> SUFFICES ASSUME conn = "open" PROVE Shutting'
    OBVIOUS
  <2>1. pc[t] # "callReturn"
    BY OnStrand DEF Ends
  <2>2. pc[t] = "call" /\ to = "shut"
    BY <1>1, <1>2, <2>1 DEF CallPc
  <2> QED
    BY <1>2, <2>2 DEF TypeOK, Shutting
<1>6. Stage' = IF Stage = "open" THEN "closing" ELSE Stage
  BY <1>1, <1>4, <1>5, StageIs, StageBecomes DEF TypeOK, WsType, Ends
<1> QED
  BY <1>1, <1>3, <1>6, RestKept DEF Session!OnPlatformClose

LEMMA GoSeen ==
  ASSUME IInv, IInv', fault # "crash", NEW t \in ClientThread, Go(t)
  PROVE  Session!Next \/ UNCHANGED Session!vars
<1> USE DEF IInv, connection, message, timers, registry, history
<1>1. pc[t] # "idle"
  BY DEF Go, OnPlatformClose, Shut, Return, SetTimer, CancelTimer, SendHeartbeat, NotText,
         ParseJson, Answer, Chat, MessageError, Report, Goto
<1>2. ~Quiet
  BY <1>1, NotQuiet
<1>3. ASSUME NEW from, NEW to, Goto(t, from, to), from \notin CallPc \cup {"shut"},
             to \notin CallPc \cup {"shut"}, UNCHANGED <<conn, over, Rest>>
      PROVE  Session!End \/ UNCHANGED Session!vars
  <2>1. pc' = [pc EXCEPT ![t] = to] /\ ~Waiting[t]
    BY <1>3 DEF Goto, Waiting
  <2>2. Waiting' = Waiting
    BY <1>3, <2>1, WaitingKept
  <2>3. Stage' = Stage \/ (over = "told" /\ over' = "told")
    BY <1>3, HandlerStage
  <2> QED
    BY <1>2, <1>3, <2>2, <2>3, Unseen
<1>4. ASSUME Shut(t)
      PROVE  Session!End \/ UNCHANGED Session!vars
  <2>1. /\ pc[t] = "shut" /\ pc' = [pc EXCEPT ![t] = IF strand = t THEN then ELSE "idle"]
        /\ conn' = (IF conn = "open" THEN "closing" ELSE conn)
        /\ UNCHANGED <<over, Rest>>
    BY <1>4 DEF Shut, Closing, Rest, Goto
  <2>2. ~Waiting[t] /\ then \notin CallPc
    BY <2>1 DEF Waiting, CallPc, TypeOK, MessagePc
  <2>3. Waiting' = Waiting
    <3>1. PICK to \in MessagePc \cup {"idle"} : pc' = [pc EXCEPT ![t] = to]
      BY <2>1 DEF TypeOK
    <3> QED
      BY <2>2, <3>1, WaitingKept DEF CallPc, MessagePc
  <2>4. Shutting
    BY <2>1 DEF Shutting
  <2>5. Stage' = Stage \/ (over = "told" /\ over' = "told")
    BY <2>1, <2>4, StageIs, StageBecomes DEF TypeOK, WsType, Ends
  <2> QED
    BY <1>2, <2>1, <2>3, <2>5, Unseen
<1>5. ASSUME Return(t)
      PROVE  Session!End \/ UNCHANGED Session!vars
  <2>1. Goto(t, "return", "idle") /\ UNCHANGED <<conn, over, Rest>>
    BY <1>5 DEF Return, Rest
  <2> QED
    BY <1>3, <2>1 DEF CallPc
<1>6. ASSUME SetTimer(t)
      PROVE  Session!Login \/ Session!End \/ UNCHANGED Session!vars
  <2> DEFINE i == CHOOSE j \in Timer \ (Pending \cup {hb}) : TRUE
  <2>1. /\ pc[t] = "arm" /\ hb' = i /\ timer' = [timer EXCEPT ![i] = "armed"]
        /\ UNCHANGED <<conn, over, fault, said, reported, closing>>
    BY <1>6 DEF SetTimer, Goto
  <2>2. PICK to \in {"return", "idle"} : Goto(t, "arm", to)
    BY <1>6 DEF SetTimer
  <2>3. i \in Timer
    BY <2>1, TimerFree
  <2> HIDE DEF i
  <2>4. hb' # None
    BY <2>1, <2>3, NoneAssumption, MaxLoginsAssumption DEF Timer
  <2>5. Pending' # {}
    BY <2>1, <2>3 DEF Pending, TypeOK
  <2>6. ~Quiet'
    BY <2>5 DEF Quiet
  <2>7. Stage' = Stage
    <3>1. Stage' = Stage \/ (over = "told" /\ over' = "told")
      BY <2>1, <2>2, HandlerStage
    <3> QED
      BY <1>2, <2>6, <3>1, StageIs, StageBecomes
  <2>8. Waiting' = Waiting
    BY <2>1, <2>2, WaitingKept DEF Waiting, CallPc, Goto
  <2>9. (closing = "done")' = (closing = "done") /\ (hb # None)' = TRUE
    BY <2>1, <2>4
  <2>10. CASE hb = None
    <3>1. strand = t
      BY <2>1, <2>10 DEF Timers
    <3>2. Stage \in {"open", "closing"}
      BY <2>1, <3>1, StageIs DEF Ends
    <3> QED
      BY <2>1, <2>7, <2>8, <2>9, <3>2 DEF Session!Login
  <2>11. CASE hb # None
    <3>1. (hb # None)' = (hb # None)
      BY <2>9, <2>11
    <3> QED
      BY <2>1, <2>7, <2>8, <2>9, <3>1 DEF Session!vars
  <2> QED
    BY <2>10, <2>11
<1>7. ASSUME CancelTimer(t)
      PROVE  Session!NullTimer \/ Session!End \/ UNCHANGED Session!vars
  <2>1. /\ Goto(t, "cancel", "return") /\ UNCHANGED <<conn, over, hb, said, reported, closing>>
    BY <1>7 DEF CancelTimer
  <2>2. CASE hb # None
    <3>1. UNCHANGED Rest
      BY <1>7, <2>1, <2>2 DEF CancelTimer, Rest
    <3> QED
      BY <1>3, <2>1, <3>1 DEF CallPc
  <2>3. CASE hb = None
    <3>1. fault' = "crash"
      BY <1>7, <2>3 DEF CancelTimer
    <3>2. conn = "closing" /\ reported /\ conn' = "closing"
      BY <2>1 DEF Goto, Reports
    <3>3. Stage = "closing" /\ Stage' = "closing"
      BY <3>2, StageIs, StageBecomes
    <3>4. Waiting' = Waiting
      BY <2>1, WaitingKept DEF Waiting, CallPc, Goto
    <3>5. (closing = "done")' = (closing = "done") /\ (hb # None)' = (hb # None)
      BY <2>1
    <3> QED
      BY <2>1, <2>3, <3>1, <3>2, <3>3, <3>4, <3>5 DEF Session!NullTimer
  <2> QED
    BY <2>2, <2>3
<1>8. ASSUME SendHeartbeat(t)
      PROVE  Session!Next \/ UNCHANGED Session!vars
  <2>1. UNCHANGED <<conn, over, hb>>
    BY <1>8 DEF SendHeartbeat
  <2>2. CASE Goto(t, "beat", "arm") /\ UNCHANGED <<registry, history>>
    BY <1>3, <2>1, <2>2 DEF CallPc, Rest, Session!Next
  <2>3. CASE Report(t, "beat", "call")
    <3>1. hb # None /\ conn # "connecting" /\ over # "failed"
      BY <2>3, Connected DEF Report, Goto
    <3> QED
      BY <1>2, <2>1, <2>3, <3>1, ReportSeen DEF CallPc, Session!Next, TypeOK, WsType
  <2> QED
    BY <1>8, <2>2, <2>3 DEF SendHeartbeat
<1>9. ASSUME pc[t] \in {"type", "json", "act"}
      PROVE  conn \in {"open", "closing"}
  BY <1>9, OnStrand DEF MessagePc, Ends
<1>10. ASSUME NEW from \in {"type", "json", "act"}, NEW to, MessageError(t, from, to)
      PROVE  Session!ExtraReport(t)
  <2>1. Report(t, from, "call") /\ UNCHANGED <<conn, over, hb>> /\ pc[t] = from
    BY <1>10 DEF MessageError, Report, Goto
  <2> QED
    BY <1>2, <1>9, <2>1, ReportSeen DEF CallPc
<1>11. ASSUME NotText(t) \/ ParseJson(t) \/ Answer(t)
      PROVE  Session!Next \/ UNCHANGED Session!vars
  <2>1. CASE \E from \in {"type", "json", "act"}, to \in MessagePc : MessageError(t, from, to)
    BY <1>10, <2>1 DEF Session!Next
  <2>2. CASE /\ \E from \in {"json", "act"}, to \in {"act", "arm", "return"} : Goto(t, from, to)
             /\ UNCHANGED <<conn, over, Rest>>
    BY <1>3, <2>2 DEF CallPc, Session!Next
  <2> QED
    BY <1>11, <2>1, <2>2 DEF NotText, ParseJson, Answer, MessagePc, Rest
<1>12. ASSUME Chat(t)
       PROVE  Session!Publish \/ Session!End \/ UNCHANGED Session!vars
  <2>1. /\ Goto(t, "act", "return") /\ said' \in {said, ~said}
        /\ UNCHANGED <<conn, over, hb, fault, reported, closing>>
    BY <1>12 DEF Chat
  <2>2. CASE said' = said
    BY <1>3, <2>1, <2>2 DEF CallPc, Rest
  <2>3. CASE said' = ~said
    <3>1. conn \in {"open", "closing"}
      BY <1>9, <2>1 DEF Goto
    <3>2. over # "told"
      BY <3>1 DEF Ends
    <3>3. Stage \in {"open", "closing"} /\ Stage' = Stage
      BY <2>1, <3>1, <3>2, StageIs, HandlerStage
    <3>4. Waiting' = Waiting
      BY <2>1, WaitingKept DEF Waiting, CallPc, Goto
    <3>5. (closing = "done")' = (closing = "done") /\ (hb # None)' = (hb # None)
      BY <2>1
    <3> QED
      BY <2>1, <2>3, <3>3, <3>4, <3>5 DEF Session!Publish
  <2> QED
    BY <2>1, <2>2, <2>3
<1> QED
  BY <1>4, <1>5, <1>6, <1>7, <1>8, <1>11, <1>12, CallbackSeen DEF Go, Session!Next

LEMMA BeginSeen ==
  ASSUME IInv, IInv', fault # "crash", NEW t \in ClientThread, Begin(t) \/ OnClientMessage(t)
  PROVE  Session!Next \/ UNCHANGED Session!vars
<1> USE DEF IInv, connection, message, registry, history
<1>1. pc[t] = "idle" /\ ~Waiting[t]
  <2>1. pc[t] = "idle"
    BY DEF Begin, OnClientFail, OnClientClose, HeartbeatAborted, HeartbeatExpired,
           OnClientMessage, Report, Goto
  <2> QED
    BY <2>1 DEF Waiting, CallPc
<1>2. ASSUME over \in {"failed", "closed"}, over = "closed" => hb # None, over' = "told",
             Report(t, "idle", "callReturn"), hb' = hb
      PROVE  Session!FinalReport(t)
  <2>1. /\ pc' = [pc EXCEPT ![t] = "callReturn"] /\ said' = ~said /\ reported' = TRUE
        /\ UNCHANGED <<fault, closing>>
    BY <1>2 DEF Report, Goto
  <2>2. Waiting' = [Waiting EXCEPT ![t] = TRUE]
    BY <2>1, WaitingBegins DEF CallPc
  <2>3. ~Quiet'
    BY <2>1, NotQuietThen
  <2>4. Stage' = "draining"
    BY <1>2, <2>3, StageBecomes
  <2>5. Stage = "connecting" \/ (Stage = "terminated" /\ hb # None)
    BY <1>2, StageIs
  <2>6. (hb # None)' = (hb # None) /\ (closing = "done")' = (closing = "done")
    BY <1>2, <2>1
  <2> QED
    BY <1>1, <2>1, <2>2, <2>4, <2>5, <2>6 DEF Session!FinalReport, Session!Report
<1>3. ASSUME OnClientFail(t)
      PROVE  Session!FinalReport(t)
  BY <1>2, <1>3 DEF OnClientFail, timers
<1>4. ASSUME OnClientClose(t), hb = None
      PROVE  Session!NullTimer
  <2>1. /\ over = "closed" /\ over' = over /\ Goto(t, "idle", "return")
        /\ fault' = "crash" /\ said' = ~said
        /\ UNCHANGED <<hb, reported, closing>>
    BY <1>4 DEF OnClientClose
  <2>2. Stage = "terminated" /\ Stage' = "terminated"
    BY <2>1, StageIs, StageBecomes
  <2>3. Waiting' = Waiting
    BY <1>1, <2>1, WaitingKept DEF CallPc, Goto
  <2>4. (closing = "done")' = (closing = "done") /\ (hb # None)' = (hb # None)
    BY <2>1
  <2> QED
    BY <1>4, <2>1, <2>2, <2>3, <2>4 DEF Session!NullTimer
<1>5. ASSUME OnClientClose(t), hb # None
      PROVE  Session!FinalReport(t)
  BY <1>2, <1>5 DEF OnClientClose
<1>6. ASSUME NEW i \in Timer, timer[i] # "free"
      PROVE  ~Quiet /\ hb # None /\ conn # "connecting" /\ over # "failed"
  <2>1. Pending # {}
    BY <1>6 DEF Pending
  <2> QED
    BY <2>1, Connected DEF Quiet
<1>7. ASSUME NEW i \in Timer, HeartbeatAborted(t, i)
      PROVE  Session!ExtraReport(t)
  <2>1. timer[i] # "free" /\ Report(t, "idle", "call") /\ UNCHANGED <<conn, over, hb>>
    BY <1>7 DEF HeartbeatAborted
  <2>2. conn \in {"open", "closing"} \/ (hb # None /\ conn = "closed" /\ over # "failed")
    BY <1>6, <2>1 DEF TypeOK, WsType
  <2> QED
    BY <1>6, <2>1, <2>2, ReportSeen DEF CallPc
<1>8. ASSUME NEW i \in Timer, HeartbeatExpired(t, i)
      PROVE  Session!End \/ UNCHANGED Session!vars
  <2>1. /\ timer[i] # "free" /\ Goto(t, "idle", "beat")
        /\ UNCHANGED <<conn, over, Rest>>
    BY <1>8 DEF HeartbeatExpired, Rest
  <2>2. Waiting' = Waiting
    BY <1>1, <2>1, WaitingKept DEF CallPc, Goto
  <2>3. Stage' = Stage \/ (over = "told" /\ over' = "told")
    BY <2>1, HandlerStage
  <2> QED
    BY <1>6, <2>1, <2>2, <2>3, Unseen
<1>9. ASSUME OnClientMessage(t)
      PROVE  Session!End \/ UNCHANGED Session!vars
  <2>1. PICK to \in {"json", "type"} : Goto(t, "idle", to)
    BY <1>9 DEF OnClientMessage
  <2>2. conn = "open" /\ UNCHANGED <<conn, over, Rest>>
    BY <1>9 DEF OnClientMessage, Deliverable, timers, Rest
  <2>3. Waiting' = Waiting
    BY <1>1, <2>1, WaitingKept DEF CallPc, Goto
  <2>4. Stage' = Stage
    BY <2>1, <2>2, HandlerStage DEF Ends
  <2> QED
    BY <2>2, <2>3, <2>4, Unseen
<1> QED
  BY <1>3, <1>4, <1>5, <1>7, <1>8, <1>9 DEF Begin, Session!Next

LEMMA OutsideSeen ==
  ASSUME IInv, IInv',
         \/ fault # "crash" /\ \/ \E i \in Timer : Expire(i)
                               \/ Library \/ AssignHandle \/ CloseTimer \/ CloseConnection
         \/ UNCHANGED vars
  PROVE  (fault # "crash" /\ Session!Next) \/ UNCHANGED Session!vars
<1> USE DEF IInv, connection, registry, history, timers
<1>1. pc' = pc /\ Waiting' = Waiting /\ (Shutting' <=> Shutting)
  <2>1. pc' = pc
    BY DEF Expire, Library, AssignHandle, CloseTimer, CloseConnection, vars
  <2> QED
    BY <2>1 DEF Waiting, Shutting
<1>2. Pending' = Pending
  <2>1. CASE \E i \in Timer : Expire(i)
    BY <2>1 DEF Expire, TypeOK, Pending
  <2>2. CASE CloseTimer
    <3>1. timer' = timer \/ (hb # None /\ timer' = Cancelled(hb))
      BY <2>2 DEF CloseTimer
    <3> QED
      BY <3>1, CancelledTimers DEF TypeOK, Pending
  <2>3. CASE Library \/ AssignHandle \/ CloseConnection \/ UNCHANGED vars
    BY <2>3 DEF Library, AssignHandle, CloseConnection, vars, Pending
  <2> QED
    BY <2>1, <2>2, <2>3
<1>3. ASSUME UNCHANGED <<conn, over>>
      PROVE  Stage' = Stage
  <2>1. Quiet' <=> Quiet
    BY <1>1, <1>2, <1>3 DEF Quiet, Idle
  <2> QED
    BY <1>1, <1>3, <2>1, StageIs, StageBecomes DEF TypeOK, WsType
<1>4. ASSUME (\E i \in Timer : Expire(i)) \/ AssignHandle \/ UNCHANGED vars
      PROVE  UNCHANGED Session!vars
  <2>1. UNCHANGED <<conn, over, Rest>>
    BY <1>4 DEF Expire, AssignHandle, vars, Rest
  <2> QED
    BY <1>1, <1>3, <2>1, RestKept DEF Session!vars
<1>5. ASSUME Library
      PROVE  Session!Progress \/ UNCHANGED Session!vars
  <2>1. UNCHANGED Rest
    BY <1>5 DEF Library, Rest
  <2>2. \/ conn = "connecting" /\ conn' = "open"
        \/ conn = "open" /\ conn' = "closing"
        \/ conn = "connecting" /\ over' = "failed"
        \/ conn \in {"open", "closing"} /\ over' = "closed"
    BY <1>5 DEF Library, Open, ReceiveClose, Terminate, TypeOK, WsType
  <2>3. conn = "connecting" => ~Shutting
    BY DEF Reports, Shutting
  <2>4. \/ Stage = "connecting" /\ Stage' = "open"
        \/ Stage = "open" /\ Stage' = "closing"
        \/ Stage \in {"open", "closing"} /\ Stage' = "terminated"
        \/ Stage' = Stage
    BY <1>1, <2>2, <2>3, StageIs, StageBecomes
  <2> QED
    BY <1>1, <2>1, <2>4, RestKept DEF Session!Progress, Session!vars
<1>6. ASSUME CloseTimer, fault # "crash"
      PROVE  Session!Close \/ UNCHANGED Session!vars
  <2>1. closing = "no" /\ UNCHANGED <<conn, over, said, reported, hb>>
    BY <1>6 DEF CloseTimer
  <2>2. Stage' = Stage /\ (hb # None)' = (hb # None)
    BY <1>3, <2>1
  <2>3. CASE hb = None
    <3>1. fault = "none" /\ fault' = "crash"
      BY <1>6, <2>1, <2>3 DEF CloseTimer, Exclusion, TypeOK
    <3>2. (closing = "done")' = TRUE /\ ~(closing = "done")
      BY <1>6, <2>1, <2>3 DEF CloseTimer
    <3> QED
      BY <1>1, <2>1, <2>2, <2>3, <3>1, <3>2 DEF Session!Close
  <2>4. CASE hb # None
    <3>1. fault' = fault /\ (closing = "done")' = (closing = "done")
      BY <1>6, <2>1, <2>4 DEF CloseTimer
    <3> QED
      BY <1>1, <2>1, <2>2, <3>1 DEF Session!vars
  <2> QED
    BY <2>3, <2>4
<1>7. ASSUME CloseConnection, fault # "crash"
      PROVE  Session!Close
  <2>1. /\ closing = "timer" /\ conn' = Closing
        /\ UNCHANGED <<over, hb, said>>
    BY <1>7 DEF CloseConnection
  <2>2. fault = "none" /\ hb # None /\ ~Shutting
    BY <1>7, <2>1 DEF Exclusion, TypeOK, Shutting
  <2>3. (closing = "done")' = TRUE /\ ~(closing = "done") /\ (hb # None)' = (hb # None)
    BY <1>7, <2>1 DEF CloseConnection
  <2>4. CASE conn = "open"
    <3>1. UNCHANGED <<fault, reported>> /\ conn' = "closing"
      BY <1>7, <2>1, <2>4 DEF CloseConnection, Closing
    <3>2. Stage = "open" /\ Stage' = "closing"
      BY <2>2, <2>4, <3>1, StageIs, StageBecomes
    <3> QED
      BY <1>1, <2>1, <2>2, <2>3, <3>1, <3>2 DEF Session!Close
  <2>5. CASE conn # "open"
    <3>1. fault' = "deadlock" /\ reported' = TRUE /\ conn' = conn
      BY <1>7, <2>1, <2>5 DEF CloseConnection, Closing
    <3>2. Stage' = Stage
      BY <1>3, <2>1, <3>1
    <3>3. Stage # "open"
      BY <2>5, StageIs DEF TypeOK, WsType
    <3> QED
      BY <1>1, <2>1, <2>2, <2>3, <3>1, <3>2, <3>3 DEF Session!Close
  <2> QED
    BY <2>4, <2>5
<1> QED
  BY <1>4, <1>5, <1>6, <1>7 DEF Session!Next

\* YY.cpp makes the publishes and reports that the registry relies on, in the
\* stages it relies on, and crashes or hangs only where the registry's model
\* says it can (a null timer at YY.cpp:43, 87 and 115, a report at YY.cpp:45
\* under rp_rw_mtx): every step of the session is a step of WsSession or one
\* the registry does not see.
THEOREM SessionImplemented == Spec => ImplementsSession
<1>1. Init => Session!Init
  <2> SUFFICES ASSUME Init PROVE Session!Init
    OBVIOUS
  <2>1. TypeOK /\ Ends
    BY InitIInv DEF IInv
  <2>2. Stage = "connecting"
    BY <2>1, StageIs DEF Init, WsInit
  <2>3. ASSUME NEW t \in ClientThread
        PROVE  (pc[t] \in CallPc) = FALSE
    BY DEF Init, CallPc
  <2>4. Waiting = [t \in ClientThread |-> FALSE]
    BY <2>3, Zenon DEF Waiting
  <2>5. (closing = "done") = FALSE /\ (hb # None) = FALSE
    BY DEF Init
  <2> QED
    BY <2>2, <2>4, <2>5 DEF Init, Session!Init
<1>2. ASSUME IInv, IInv', [Next]_vars
      PROVE  [Session!Next]_Session!vars
  <2>1. ASSUME fault # "crash",
               \E t \in ClientThread : Go(t) \/ Begin(t) \/ OnClientMessage(t)
        PROVE  Session!Next \/ UNCHANGED Session!vars
    BY <1>2, <2>1, GoSeen, BeginSeen
  <2> QED
    BY <1>2, <2>1, OutsideSeen DEF Next
<1> QED
  BY <1>1, <1>2, Invariant, PTL DEF Spec, ImplementsSession, Session!Spec
====
