--------------------------- MODULE HuajiaoProofs ---------------------------
(* Proofs about the huajiao session, for any client threads, batches and   *)
(* numbers of frames.                                                      *)
EXTENDS Huajiao, SequenceTheorems, TLAPS

-----------------------------------------------------------------------------
(* The inductive invariant.                                                *)

\* What a handler has still to publish comes after all that was published, and
\* is there only until the handler has published it.
Queued ==
  \A t \in ClientThread :
    /\ \A i, j \in DOMAIN todo[t] : i < j => todo[t][i] < todo[t][j]
    /\ \A i \in DOMAIN log, j \in DOMAIN todo[t] : log[i] < todo[t][j]
    /\ todo[t] # <<>> => pc[t] \in {"parse", "publish"} /\ bLogin

\* The flags are set one after the other, and decide where a handler can be.
Stages ==
  /\ bJoin => bLogin
  /\ bLogin => handshake
  /\ \A t \in ClientThread :
       /\ pc[t] = "login" => handshake /\ ~bLogin
       /\ pc[t] = "join" => bLogin /\ ~bJoin

\* Nothing happens before the connection is open, and its end comes last.
Begun ==
  /\ conn = "connecting" => strand = None /\ ~handshake /\ sent = <<>>
  /\ over # "no" => conn = "closed"

\* The handshake is sent first, and the first login before the next frame is
\* taken.
Talk ==
  /\ \A i \in DOMAIN sent :
       /\ sent[i] = "handshake" <=> i = 1
       /\ sent[i] = "join" => i = Len(sent) /\ i > 2 /\ bJoin
  /\ \A t \in ClientThread : pc[t] = "greet" => sent = <<>>
  /\ conn = "open" => sent # <<>> \/ \E t \in ClientThread : pc[t] = "greet"
  /\ conn = "open" /\ handshake /\ Len(sent) < 2 =>
       \E t \in ClientThread : pc[t] \in {"answer", "login"} /\ ~bLogin

IInv == TypeOK /\ InOrder /\ Queued /\ Stages /\ Begun /\ Talk

-----------------------------------------------------------------------------
(* Type correctness.                                                       *)

\* A frame's messages are a sequence of numbers up to the last one.
LEMMA Numbered ==
  ASSUME NEW a \in Nat, NEW n \in Nat
  PROVE  /\ [i \in 1..n |-> a + i] \in Seq(1..(a + n))
         /\ DOMAIN [i \in 1..n |-> a + i] = 1..n
         /\ n = 0 => [i \in 1..n |-> a + i] = <<>>
<1> DEFINE s == [i \in 1..n |-> a + i]
<1>1. s \in [1..n -> 1..(a + n)]
  OBVIOUS
<1>2. s \in Seq(1..(a + n))
  BY <1>1, SeqDef
<1>3. n = 0 => s = <<>>
  BY <1>2, EmptySeq, LenProperties
<1> QED
  BY <1>1, <1>2, <1>3

\* The head and the tail of a sequence that is not empty.
LEMMA HeadAndTail ==
  ASSUME NEW S, NEW s \in Seq(S), s # <<>>
  PROVE  /\ Head(s) = s[1] /\ Head(s) \in S
         /\ Len(s) \in Nat \ {0} /\ DOMAIN s = 1..Len(s)
         /\ Tail(s) \in Seq(S) /\ DOMAIN Tail(s) = 1..(Len(s) - 1)
         /\ \A i \in 1..(Len(s) - 1) : Tail(s)[i] = s[i + 1]
         /\ Tail(s) = <<>> <=> Len(s) = 1
<1>1. Len(s) \in Nat \ {0} /\ DOMAIN s = 1..Len(s)
  BY EmptySeq, LenProperties
<1>2. /\ Head(s) \in S /\ Tail(s) \in Seq(S) /\ Len(Tail(s)) = Len(s) - 1
      /\ \A i \in 1..Len(Tail(s)) : Tail(s)[i] = s[i + 1]
  BY HeadTailProperties
<1>3. DOMAIN Tail(s) = 1..Len(Tail(s))
  BY <1>2, LenProperties
<1>4. Head(s) = s[1]
  <2>1. SubSeq(s, 1, Len(s)) = s
    BY SubSeqFull
  <2> QED
    BY <1>1, <2>1, HeadTailOfSubSeq
<1>5. Tail(s) = <<>> => Len(Tail(s)) = 0
  BY EmptySeq
<1>6. Tail(s) # <<>> => Len(Tail(s)) \in Nat \ {0}
  BY <1>2, EmptySeq
<1> QED
  BY <1>1, <1>2, <1>3, <1>4, <1>5, <1>6

\* The variables that are true or false, and the others.
Flags ==
  /\ handshake \in BOOLEAN /\ bLogin \in BOOLEAN /\ bJoin \in BOOLEAN
  /\ handle \in BOOLEAN /\ closed \in BOOLEAN /\ unmapped \in BOOLEAN
  /\ said \in BOOLEAN /\ reported \in BOOLEAN

Shape ==
  /\ WsType
  /\ pc \in [ClientThread -> MessagePc \cup {"idle"}]
  /\ \A t \in ClientThread : pc[t] # "idle" <=> strand = t
  /\ frame \in [ClientThread -> Frame]
  /\ todo \in [ClientThread -> Seq(1..arrived)]
  /\ \A t \in ClientThread : pc[t] = "publish" => todo[t] # <<>>
  /\ fault \in {"none", "deadlock"}
  /\ frames \in 0..MaxFrames
  /\ arrived \in Nat
  /\ log \in Seq(1..arrived)
  /\ sent \in Seq({"handshake", "login", "join"})

LEMMA TypeParts == TypeOK <=> Flags /\ Shape
BY DEF TypeOK, Flags, Shape

LEMMA TypeInit == Init => TypeOK
<1> SUFFICES ASSUME Init PROVE Flags /\ Shape
  BY TypeParts
<1>1. Flags
  BY DEF Init, Flags
<1>2. todo \in [ClientThread -> Seq(1..arrived)] /\ log \in Seq(1..arrived)
      /\ sent \in Seq({"handshake", "login", "join"})
  BY EmptySeq DEF Init
<1>3. Shape
  BY <1>2, NoneAssumption, MaxFramesAssumption
     DEF Init, Shape, WsInit, WsType, MessagePc, Frame
<1> QED
  BY <1>1, <1>3

LEMMA FlagsStep ==
  ASSUME Flags, [Next]_vars
  PROVE  Flags'
<1> USE DEF Flags, connection, message, conn_info, registry, traffic
<1>1. ASSUME NEW t \in ClientThread, Go(t)
      PROVE  Flags'
  <2>1. CASE SendHandshake(t)
    BY <2>1 DEF SendHandshake, Send
  <2>2. CASE HandleBinaryMessage(t)
    BY <2>2 DEF HandleBinaryMessage
  <2>3. CASE ParseJsonMessage(t)
    BY <2>3 DEF ParseJsonMessage
  <2>4. CASE Answer(t)
    BY <2>4 DEF Answer
  <2>5. CASE SendLogin(t)
    BY <2>5 DEF SendLogin, Send
  <2>6. CASE SendJoin(t)
    BY <2>6 DEF SendJoin, Send
  <2>7. CASE OnPlatformClose(t)
    BY <2>7 DEF OnPlatformClose
  <2>8. CASE Shut(t)
    BY <2>8 DEF Shut
  <2>9. CASE Return(t)
    BY <2>9 DEF Return
  <2> QED
    BY <1>1, <2>1, <2>2, <2>3, <2>4, <2>5, <2>6, <2>7, <2>8, <2>9 DEF Go
<1>2. ASSUME NEW t \in ClientThread, Begin(t)
      PROVE  Flags'
  BY <1>2 DEF Begin, OnClientFail, OnClientClose, Report
<1>3. ASSUME NEW t \in ClientThread, OnClientOpen(t)
      PROVE  Flags'
  BY <1>3 DEF OnClientOpen
<1>4. ASSUME NEW t \in ClientThread, OnClientMessage(t)
      PROVE  Flags'
  BY <1>4 DEF OnClientMessage, Receive
<1>5. ASSUME Library \/ AssignHandle \/ Close \/ UNCHANGED vars
      PROVE  Flags'
  BY <1>5 DEF Library, AssignHandle, Close, vars
<1> QED
  BY <1>1, <1>2, <1>3, <1>4, <1>5 DEF Next

\* A packet that is sent, or not.
LEMMA SendShape ==
  ASSUME Shape, NEW t \in ClientThread, NEW packet \in {"handshake", "login", "join"},
         NEW from, from # "idle", Send(t, from, packet), UNCHANGED connection
  PROVE  Shape'
<1> USE DEF WsType, MessagePc, Frame, connection, message, registry, traffic, Goto
<1>1. CASE CanSend /\ sent' = Append(sent, packet)
  <2>1. sent' \in Seq({"handshake", "login", "join"})
    BY <1>1, AppendProperties DEF Shape
  <2>2. /\ Goto(t, from, "return")
        /\ UNCHANGED <<message, registry, frames, arrived, log>>
    BY <1>1 DEF Send
  <2> QED
    BY <2>1, <2>2 DEF Shape
<1>2. CASE ~CanSend
  <2>1. Goto(t, from, "call") /\ UNCHANGED <<message, registry, traffic>>
    BY <1>2 DEF Send
  <2> QED
    BY <2>1 DEF Shape
<1> QED
  BY <1>1, <1>2 DEF Send

LEMMA ShapeStep ==
  ASSUME Shape, [Next]_vars
  PROVE  Shape'
<1> USE NoneAssumption DEF WsType, MessagePc, Frame, connection, message, conn_info,
        registry, traffic, Goto
<1>1. ASSUME NEW t \in ClientThread, SendHandshake(t)
      PROVE  Shape'
  BY <1>1, SendShape DEF SendHandshake
<1>2. ASSUME NEW t \in ClientThread, HandleBinaryMessage(t)
      PROVE  Shape'
  BY <1>2 DEF Shape, HandleBinaryMessage
<1>3. ASSUME NEW t \in ClientThread, ParseJsonMessage(t)
      PROVE  Shape'
  <2>1. todo[t] # <<>> /\ todo[t] \in Seq(1..arrived)
    BY <1>3 DEF Shape, ParseJsonMessage
  <2>2. /\ Tail(todo[t]) \in Seq(1..arrived)
        /\ Head(todo[t]) \in 1..arrived
        /\ Len(todo[t]) # 1 => Tail(todo[t]) # <<>>
    BY <2>1, HeadAndTail
  <2>3. log' \in Seq(1..arrived)
    <3>1. log \in Seq(1..arrived)
      BY DEF Shape
    <3>2. Append(log, Head(todo[t])) \in Seq(1..arrived)
      BY <2>2, <3>1, AppendProperties
    <3> QED
      BY <1>3, <3>1, <3>2 DEF ParseJsonMessage
  <2>4. /\ todo' \in [ClientThread -> Seq(1..arrived)]
        /\ \A u \in ClientThread : pc'[u] = "publish" => todo'[u] # <<>>
    BY <1>3, <2>2 DEF Shape, ParseJsonMessage
  <2> QED
    BY <1>3, <2>3, <2>4 DEF Shape, ParseJsonMessage
<1>4. ASSUME NEW t \in ClientThread, Answer(t)
      PROVE  Shape'
  BY <1>4 DEF Shape, Answer
<1>5. ASSUME NEW t \in ClientThread, SendLogin(t)
      PROVE  Shape'
  BY <1>5, SendShape DEF SendLogin
<1>6. ASSUME NEW t \in ClientThread, SendJoin(t)
      PROVE  Shape'
  BY <1>6, SendShape DEF SendJoin
<1>7. ASSUME NEW t \in ClientThread, OnPlatformClose(t)
      PROVE  Shape'
  BY <1>7 DEF Shape, OnPlatformClose
<1>8. ASSUME NEW t \in ClientThread, Shut(t)
      PROVE  Shape'
  BY <1>8 DEF Shape, Shut, Closing
<1>9. ASSUME NEW t \in ClientThread, Return(t)
      PROVE  Shape'
  BY <1>9 DEF Shape, Return
<1>10. ASSUME NEW t \in ClientThread, Begin(t)
       PROVE  Shape'
  BY <1>10 DEF Shape, Begin, OnClientFail, OnClientClose, Report
<1>11. ASSUME NEW t \in ClientThread, OnClientOpen(t)
       PROVE  Shape'
  BY <1>11 DEF Shape, OnClientOpen, Open
<1>12. ASSUME NEW t \in ClientThread, OnClientMessage(t)
       PROVE  Shape'
  <2>0. PICK kind \in Frame : \E n \in Content(kind) : Receive(t, kind, n)
    BY <1>12 DEF OnClientMessage
  <2>1. PICK n \in Content(kind) : Receive(t, kind, n)
    BY <2>0
  <2>2. n \in Nat
    BY BatchAssumption DEF Content
  <2>3. arrived' = arrived + n /\ todo'[t] \in Seq(1..arrived')
    BY <2>1, <2>2, Numbered DEF Receive, Shape
  <2>4. /\ log' \in Seq(1..arrived')
        /\ \A u \in ClientThread : todo[u] \in Seq(1..arrived')
    <3>1. 1..arrived \subseteq 1..arrived'
      BY <2>2, <2>3 DEF Shape
    <3> QED
      BY <2>1, <3>1, SeqMonotonic DEF Receive, Shape
  <2>5. todo' \in [ClientThread -> Seq(1..arrived')]
    BY <2>1, <2>3, <2>4 DEF Receive, Shape
  <2>6. /\ pc' \in [ClientThread -> MessagePc \cup {"idle"}]
        /\ \A u \in ClientThread : pc'[u] # "idle" <=> strand' = u
        /\ frame' \in [ClientThread -> Frame]
        /\ \A u \in ClientThread : pc'[u] = "publish" => todo'[u] # <<>>
    BY <1>12, <2>1 DEF Shape, Receive, OnClientMessage, Deliverable
  <2>7. frames' \in 0..MaxFrames
    BY <2>1, MaxFramesAssumption DEF Shape, Receive
  <2> QED
    BY <1>12, <2>1, <2>2, <2>4, <2>5, <2>6, <2>7
       DEF Shape, Receive, OnClientMessage, Deliverable
<1>13. ASSUME Library
       PROVE  Shape'
  BY <1>13 DEF Shape, Library, ReceiveClose, Terminate
<1>14. ASSUME AssignHandle
       PROVE  Shape'
  BY <1>14 DEF Shape, AssignHandle
<1>15. ASSUME Close
       PROVE  Shape'
  BY <1>15 DEF Shape, Close, Closing
<1>16. ASSUME UNCHANGED vars
       PROVE  Shape'
  BY <1>16 DEF Shape, vars
<1> QED
  BY <1>1, <1>2, <1>3, <1>4, <1>5, <1>6, <1>7, <1>8, <1>9, <1>10, <1>11, <1>12, <1>13,
     <1>14, <1>15, <1>16 DEF Next, Go

\* Every step keeps the types.
LEMMA TypeStep ==
  ASSUME TypeOK, [Next]_vars
  PROVE  TypeOK'
<1>1. Flags' /\ Shape'
  BY TypeParts, FlagsStep, ShapeStep
<1> QED
  BY <1>1 DEF TypeOK, Flags, Shape

-----------------------------------------------------------------------------
(* The order of publication.                                               *)

\* A session once logged in stays so.
LEMMA StaysLoggedIn ==
  ASSUME [Next]_vars, bLogin
  PROVE  bLogin'
<1> USE DEF conn_info
<1>1. ASSUME NEW t \in ClientThread, Go(t)
      PROVE  bLogin'
  BY <1>1 DEF Go, SendHandshake, HandleBinaryMessage, ParseJsonMessage, Answer, SendLogin,
              SendJoin, OnPlatformClose, Shut, Return
<1>2. ASSUME NEW t \in ClientThread, Begin(t) \/ OnClientOpen(t) \/ OnClientMessage(t)
      PROVE  bLogin'
  BY <1>2 DEF Begin, OnClientFail, OnClientClose, Report, OnClientOpen, OnClientMessage,
              Receive
<1>3. ASSUME Library \/ AssignHandle \/ Close \/ UNCHANGED vars
      PROVE  bLogin'
  BY <1>3 DEF Library, AssignHandle, Close, vars
<1> QED
  BY <1>1, <1>2, <1>3 DEF Next

\* A step that publishes nothing and takes no frame.
LEMMA QueueKept ==
  ASSUME TypeOK, Queued, InOrder, UNCHANGED <<todo, log>>, bLogin => bLogin',
         \A t \in ClientThread : pc[t] \in {"parse", "publish"} =>
           pc'[t] \in {"parse", "publish"} \/ todo[t] = <<>>
  PROVE  InOrder' /\ Queued'
<1>1. InOrder'
  BY DEF InOrder
<1>2. ASSUME NEW t \in ClientThread
      PROVE  todo'[t] # <<>> => pc'[t] \in {"parse", "publish"} /\ bLogin'
  BY DEF Queued
<1>3. Queued'
  BY <1>2 DEF Queued
<1> QED
  BY <1>1, <1>3

\* The first message of the frame at hand is published, or left out.
LEMMA PublishInOrder ==
  ASSUME TypeOK, Queued, InOrder, NEW t \in ClientThread, ParseJsonMessage(t)
  PROVE  InOrder' /\ Queued'
<1> DEFINE q == todo[t]
<1>1. q # <<>> /\ q \in Seq(1..arrived) /\ arrived \in Nat /\ log \in Seq(1..arrived)
  BY DEF TypeOK, ParseJsonMessage, Goto
<1>2. /\ Len(q) \in Nat \ {0} /\ DOMAIN q = 1..Len(q) /\ Head(q) = q[1]
      /\ DOMAIN Tail(q) = 1..(Len(q) - 1)
      /\ \A i \in 1..(Len(q) - 1) : Tail(q)[i] = q[i + 1]
      /\ Tail(q) = <<>> <=> Len(q) = 1
  BY <1>1, HeadAndTail
<1>3. \A i \in DOMAIN q : q[i] \in 1..arrived
  BY <1>1, ElementOfSeq, LenProperties
<1>4. \A i \in DOMAIN log : log[i] \in 1..arrived
  BY <1>1, ElementOfSeq, LenProperties
<1>5. \A u \in ClientThread : todo'[u] = IF u = t THEN Tail(q) ELSE todo[u]
  BY DEF ParseJsonMessage, TypeOK
<1>6. \A u \in ClientThread : u # t => todo[u] = <<>>
  BY DEF ParseJsonMessage, Goto, TypeOK, Queued
<1>7. \A i, j \in DOMAIN Tail(q) : i < j => Tail(q)[i] < Tail(q)[j]
  BY <1>2 DEF Queued
<1>8. \A j \in DOMAIN Tail(q) : q[1] < Tail(q)[j]
  BY <1>2 DEF Queued
<1>9. \A i \in 1..Len(log), j \in 1..Len(q) : log[i] < q[j]
  <2>1. DOMAIN log = 1..Len(log)
    BY <1>1, LenProperties
  <2>2. \A i \in DOMAIN log, j \in DOMAIN q : log[i] < q[j]
    BY DEF Queued
  <2> QED
    BY <1>2, <2>1, <2>2
<1>10. \A i \in DOMAIN log', j \in DOMAIN Tail(q) : log'[i] < Tail(q)[j]
  <2>1. CASE log' = Append(log, q[1])
    <3>1. /\ DOMAIN log = 1..Len(log) /\ Len(log) \in Nat
          /\ DOMAIN log' = 1..(Len(log) + 1)
          /\ \A i \in 1..Len(log) : log'[i] = log[i]
          /\ log'[Len(log) + 1] = q[1]
      BY <1>1, <1>2, <1>3, <2>1, AppendProperties, LenProperties
    <3>2. ASSUME NEW i \in 1..Len(log), NEW j \in 1..(Len(q) - 1)
          PROVE  log[i] < Tail(q)[j]
      <4>1. j + 1 \in 1..Len(q) /\ Tail(q)[j] = q[j + 1]
        BY <1>2
      <4>2. log[i] < q[j + 1]
        BY <1>9, <4>1
      <4> QED
        BY <4>1, <4>2
    <3>3. ASSUME NEW i \in DOMAIN log', NEW j \in DOMAIN Tail(q)
          PROVE  log'[i] < Tail(q)[j]
      <4>1. CASE i \in 1..Len(log)
        BY <1>2, <3>1, <3>2, <4>1
      <4>2. CASE i = Len(log) + 1
        BY <1>8, <3>1, <4>2
      <4> QED
        BY <3>1, <4>1, <4>2
    <3> QED
      BY <3>3
  <2>2. CASE log' = log
    <3>1. ASSUME NEW i \in 1..Len(log), NEW j \in 1..(Len(q) - 1)
          PROVE  log[i] < Tail(q)[j]
      <4>1. j + 1 \in 1..Len(q) /\ Tail(q)[j] = q[j + 1]
        BY <1>2
      <4>2. log[i] < q[j + 1]
        BY <1>9, <4>1
      <4> QED
        BY <4>1, <4>2
    <3>2. DOMAIN log = 1..Len(log) /\ DOMAIN Tail(q) = 1..(Len(q) - 1)
      BY <1>1, <1>2, LenProperties
    <3> QED
      BY <2>2, <3>1, <3>2
  <2> QED
    BY <1>2, <2>1, <2>2 DEF ParseJsonMessage
<1>11. InOrder'
  <2>1. CASE log' = Append(log, q[1])
    <3>1. /\ DOMAIN log = 1..Len(log) /\ Len(log) \in Nat
          /\ DOMAIN log' = 1..(Len(log) + 1)
          /\ \A i \in 1..Len(log) : log'[i] = log[i]
          /\ log'[Len(log) + 1] = q[1]
      BY <1>1, <1>2, <1>3, <2>1, AppendProperties, LenProperties
    <3>2. \A i \in 1..Len(log) : log[i] < q[1]
      BY <1>2, <1>9, <3>1
    <3> QED
      BY <3>1, <3>2 DEF InOrder
  <2>2. CASE log' = log
    BY <2>2 DEF InOrder
  <2> QED
    BY <1>2, <2>1, <2>2 DEF ParseJsonMessage
<1>12. Tail(q) # <<>> => pc'[t] = "publish" /\ bLogin'
  <2>1. bLogin' = bLogin
    BY DEF ParseJsonMessage, conn_info
  <2>2. bLogin
    BY <1>1 DEF Queued
  <2>3. Tail(q) # <<>> => Len(q) # 1
    BY <1>2
  <2>4. Len(q) # 1 => pc'[t] = "publish"
    BY DEF ParseJsonMessage, Goto, TypeOK
  <2> QED
    BY <2>1, <2>2, <2>3, <2>4
<1>13. Queued'
  <2> SUFFICES ASSUME NEW u \in ClientThread
               PROVE  /\ \A i, j \in DOMAIN todo'[u] : i < j => todo'[u][i] < todo'[u][j]
                      /\ \A i \in DOMAIN log', j \in DOMAIN todo'[u] : log'[i] < todo'[u][j]
                      /\ todo'[u] # <<>> => pc'[u] \in {"parse", "publish"} /\ bLogin'
    BY DEF Queued
  <2>1. CASE u = t
    BY <1>5, <1>7, <1>10, <1>12, <2>1
  <2>2. CASE u # t
    <3>1. todo'[u] = <<>> /\ DOMAIN todo'[u] = {}
      BY <1>5, <1>6, <2>2, EmptySeq, LenProperties
    <3> QED
      BY <3>1
  <2> QED
    BY <2>1, <2>2
<1> QED
  BY <1>11, <1>13

\* The messages of a new frame come after all there were.
LEMMA ReceiveInOrder ==
  ASSUME TypeOK, Queued, InOrder, NEW t \in ClientThread, OnClientMessage(t)
  PROVE  InOrder' /\ Queued'
<1>1. PICK kind \in Frame : \E n \in Content(kind) : Receive(t, kind, n)
  BY DEF OnClientMessage
<1>2. PICK n \in Content(kind) : Receive(t, kind, n)
  BY <1>1
<1>3. n \in Nat /\ arrived \in Nat
  BY BatchAssumption DEF Content, TypeOK
<1> DEFINE q == [i \in 1..n |-> arrived + i]
<1>4. \A u \in ClientThread : todo'[u] = IF u = t THEN q ELSE todo[u]
  BY <1>2 DEF Receive, TypeOK
<1>5. \A u \in ClientThread : todo[u] = <<>>
  BY NoneAssumption DEF OnClientMessage, Deliverable, TypeOK, Queued
<1>6. DOMAIN q = 1..n /\ (n = 0 => q = <<>>)
  BY <1>3, Numbered
<1>7. log' = log /\ \A i \in DOMAIN log : log[i] \in 1..arrived
  BY <1>2, ElementOfSeq, LenProperties DEF Receive, TypeOK
<1>8. InOrder'
  BY <1>7 DEF InOrder
<1>9. q # <<>> => pc'[t] = "parse" /\ bLogin'
  <2>1. q # <<>> => kind = "notify" /\ bLogin
    BY <1>6 DEF Content
  <2> QED
    BY <1>2, <2>1 DEF Receive, Goto, TypeOK, conn_info
<1>10. ASSUME NEW u \in ClientThread
       PROVE  /\ \A i, j \in DOMAIN todo'[u] : i < j => todo'[u][i] < todo'[u][j]
              /\ \A i \in DOMAIN log', j \in DOMAIN todo'[u] : log'[i] < todo'[u][j]
              /\ todo'[u] # <<>> => pc'[u] \in {"parse", "publish"} /\ bLogin'
  <2>1. CASE u = t
    <3>1. \A i, j \in DOMAIN q : i < j => q[i] < q[j]
      BY <1>3, <1>6
    <3>2. \A i \in DOMAIN log, j \in DOMAIN q : log[i] < q[j]
      BY <1>3, <1>6, <1>7
    <3> QED
      BY <1>4, <1>7, <1>9, <2>1, <3>1, <3>2
  <2>2. CASE u # t
    <3>1. todo'[u] = <<>>
      BY <1>4, <1>5, <2>2
    <3>2. DOMAIN todo'[u] = {}
      BY <3>1, EmptySeq, LenProperties
    <3> QED
      BY <3>1, <3>2
  <2> QED
    BY <2>1, <2>2
<1> QED
  BY <1>8, <1>10 DEF Queued

\* Every step keeps the order.
LEMMA OrderStep ==
  ASSUME TypeOK, Queued, InOrder, [Next]_vars
  PROVE  InOrder' /\ Queued'
<1> USE DEF message, traffic
<1>1. bLogin => bLogin'
  BY StaysLoggedIn
<1>2. ASSUME NEW t \in ClientThread, HandleBinaryMessage(t)
      PROVE  InOrder' /\ Queued'
  <2>1. \A u \in ClientThread : pc[u] \in {"parse", "publish"} =>
          pc'[u] \in {"parse", "publish"} \/ todo[u] = <<>>
    BY <1>2 DEF HandleBinaryMessage, Goto, TypeOK
  <2>2. UNCHANGED <<todo, log>>
    BY <1>2 DEF HandleBinaryMessage
  <2> QED
    BY <1>1, <2>1, <2>2, QueueKept
<1>3. ASSUME NEW t \in ClientThread,
             \/ SendHandshake(t) \/ Answer(t) \/ SendLogin(t) \/ SendJoin(t)
             \/ OnPlatformClose(t) \/ Shut(t) \/ Return(t) \/ Begin(t) \/ OnClientOpen(t)
      PROVE  InOrder' /\ Queued'
  <2>1. PICK from, to :
          /\ Goto(t, from, to)
          /\ from \in {"greet", "answer", "login", "join", "call", "callReturn", "shut",
                       "return", "idle"}
    BY <1>3 DEF SendHandshake, Answer, SendLogin, SendJoin, Send, OnPlatformClose, Shut,
                Return, Begin, OnClientFail, OnClientClose, Report, OnClientOpen
  <2>2. \A u \in ClientThread : pc[u] \in {"parse", "publish"} => pc'[u] = pc[u]
    BY <2>1 DEF Goto, TypeOK
  <2>3. UNCHANGED <<todo, log>>
    BY <1>3 DEF SendHandshake, Answer, SendLogin, SendJoin, Send, OnPlatformClose, Shut,
                Return, Begin, OnClientFail, OnClientClose, Report, OnClientOpen
  <2> QED
    BY <1>1, <2>2, <2>3, QueueKept
<1>4. ASSUME Library \/ AssignHandle \/ Close \/ UNCHANGED vars
      PROVE  InOrder' /\ Queued'
  <2>1. UNCHANGED <<pc, todo, log>>
    BY <1>4 DEF Library, AssignHandle, Close, vars
  <2> QED
    BY <1>1, <2>1, QueueKept
<1> QED
  BY <1>2, <1>3, <1>4, PublishInOrder, ReceiveInOrder DEF Next, Go

-----------------------------------------------------------------------------
(* The protocol.                                                           *)

\* Every step keeps the stages in order.
LEMMA StagesStep ==
  ASSUME TypeOK, Stages, [Next]_vars
  PROVE  Stages'
<1> USE DEF Stages, Goto, conn_info
<1>1. ASSUME NEW t \in ClientThread, HandleBinaryMessage(t)
      PROVE  Stages'
  <2>1. \A u \in ClientThread : pc'[u] # "login" /\ pc'[u] # "join"
    BY <1>1 DEF HandleBinaryMessage, TypeOK
  <2>2. (bLogin' => handshake') /\ (bJoin' => bLogin')
    BY <1>1 DEF HandleBinaryMessage
  <2> QED
    BY <2>1, <2>2
<1>2. ASSUME NEW t \in ClientThread, SendJoin(t)
      PROVE  Stages'
  <2>1. \A u \in ClientThread : pc'[u] # "login" /\ pc'[u] # "join"
    BY <1>2 DEF SendJoin, Send, TypeOK
  <2>2. bJoin' /\ bLogin' /\ handshake'
    BY <1>2 DEF SendJoin, Send
  <2> QED
    BY <2>1, <2>2
<1>3. ASSUME NEW t \in ClientThread, Answer(t)
      PROVE  Stages'
  BY <1>3 DEF Answer, TypeOK
<1>4. ASSUME NEW t \in ClientThread, NEW from, NEW to, Goto(t, from, to),
             to # "login", to # "join", UNCHANGED conn_info
      PROVE  Stages'
  BY <1>4 DEF TypeOK
<1>5. ASSUME NEW t \in ClientThread,
             \/ SendHandshake(t) \/ SendLogin(t) \/ ParseJsonMessage(t)
             \/ OnPlatformClose(t) \/ Shut(t) \/ Return(t) \/ Begin(t)
             \/ OnClientOpen(t) \/ OnClientMessage(t)
      PROVE  Stages'
  <2>1. \E from, to : Goto(t, from, to) /\ to # "login" /\ to # "join"
    <3>1. CASE SendHandshake(t) \/ SendLogin(t)
      BY <3>1 DEF SendHandshake, SendLogin, Send
    <3>2. CASE ParseJsonMessage(t)
      <4>1. Goto(t, "publish", "answer") \/ Goto(t, "publish", "publish")
        BY <3>2 DEF ParseJsonMessage
      <4> QED
        BY <4>1
    <3>3. CASE OnPlatformClose(t) \/ Shut(t) \/ Return(t)
      BY <3>3 DEF OnPlatformClose, Shut, Return
    <3>4. CASE Begin(t) \/ OnClientOpen(t)
      BY <3>4 DEF Begin, OnClientFail, OnClientClose, Report, OnClientOpen
    <3>5. CASE OnClientMessage(t)
      <4>1. Goto(t, "idle", "return") \/ Goto(t, "idle", "parse")
        BY <3>5 DEF OnClientMessage, Receive
      <4> QED
        BY <4>1
    <3> QED
      BY <1>5, <3>1, <3>2, <3>3, <3>4, <3>5
  <2>2. UNCHANGED conn_info
    BY <1>5 DEF SendHandshake, SendLogin, ParseJsonMessage, Send, OnPlatformClose, Shut,
                Return, Begin, OnClientFail, OnClientClose, Report, OnClientOpen,
                OnClientMessage, Receive
  <2> QED
    BY <1>4, <2>1, <2>2
<1>6. ASSUME Library \/ AssignHandle \/ Close \/ UNCHANGED vars
      PROVE  Stages'
  BY <1>6 DEF Library, AssignHandle, Close, vars
<1> QED
  BY <1>1, <1>2, <1>3, <1>5, <1>6 DEF Next, Go

\* A step that sends nothing and leaves the flags alone.
LEMMA TalkKept ==
  ASSUME Talk, UNCHANGED <<sent, handshake, bLogin, bJoin>>,
         conn' \in {"connecting", "open"} => conn' = conn,
         \A t \in ClientThread : pc'[t] = "greet" => pc[t] = "greet",
         \A t \in ClientThread : pc[t] = "greet" => pc'[t] = "greet" \/ conn' # "open",
         \A t \in ClientThread : pc[t] \in {"answer", "login"} =>
           pc'[t] \in {"answer", "login"} \/ conn' # "open" \/ ~handshake \/ bLogin
  PROVE  Talk'
BY DEF Talk

\* A packet that is sent follows what has been sent.
LEMMA Appended ==
  ASSUME TypeOK, NEW packet \in {"handshake", "login", "join"},
         sent' = Append(sent, packet)
  PROVE  /\ DOMAIN sent = 1..Len(sent) /\ Len(sent) \in Nat
         /\ DOMAIN sent' = 1..(Len(sent) + 1) /\ Len(sent') = Len(sent) + 1
         /\ \A i \in 1..Len(sent) : sent'[i] = sent[i]
         /\ sent'[Len(sent) + 1] = packet
         /\ sent' # <<>>
         /\ sent = <<>> <=> Len(sent) = 0
<1>1. sent \in Seq({"handshake", "login", "join"})
  BY DEF TypeOK
<1>2. /\ sent' \in Seq({"handshake", "login", "join"}) /\ Len(sent') = Len(sent) + 1
      /\ \A i \in 1..Len(sent) : sent'[i] = sent[i]
      /\ sent'[Len(sent) + 1] = packet
  BY <1>1, AppendProperties
<1>3. DOMAIN sent = 1..Len(sent) /\ Len(sent) \in Nat /\ DOMAIN sent' = 1..Len(sent')
  BY <1>1, <1>2, LenProperties
<1>4. sent # <<>> => Len(sent) # 0
  BY <1>1, EmptySeq
<1>5. sent = <<>> => Len(sent) = 0
  BY EmptySeq
<1>6. sent' # <<>>
  <2>1. sent' = <<>> => Len(sent') = 0
    BY EmptySeq
  <2> QED
    BY <1>2, <1>3, <2>1
<1> QED
  BY <1>2, <1>3, <1>4, <1>5, <1>6

\* A packet that cannot be sent changes nothing that was said.
LEMMA NotSent ==
  ASSUME TypeOK, Talk, NEW t \in ClientThread, NEW from, NEW packet,
         Send(t, from, packet), ~CanSend, UNCHANGED <<conn, handshake, bLogin>>,
         bJoin => bJoin'
  PROVE  Talk'
<1>1. sent' = sent /\ conn' # "open"
  BY DEF Send, CanSend, traffic
<1>2. \A u \in ClientThread : pc'[u] = "greet" => pc[u] = "greet"
  BY DEF Send, CanSend, Goto, TypeOK
<1> QED
  BY <1>1, <1>2 DEF Talk

LEMMA GreetTalk ==
  ASSUME TypeOK, Talk, NEW t \in ClientThread, SendHandshake(t)
  PROVE  Talk'
<1> USE DEF SendHandshake, Send, connection, conn_info
<1>1. CASE ~CanSend
  BY <1>1, NotSent
<1>2. CASE CanSend
  <2>1. sent' = Append(sent, "handshake") /\ conn' = conn /\ conn = "open"
        /\ pc[t] = "greet" /\ pc' = [pc EXCEPT ![t] = "return"]
    BY <1>2 DEF Goto, CanSend
  <2>2. sent = <<>>
    BY <2>1 DEF Talk
  <2>3. /\ DOMAIN sent' = 1..1 /\ sent'[1] = "handshake" /\ sent' # <<>>
    BY <2>1, <2>2, Appended
  <2>4. \A u \in ClientThread : pc'[u] # "greet"
    BY <2>1 DEF TypeOK
  <2>5. UNCHANGED <<handshake, bLogin, bJoin>>
    OBVIOUS
  <2>6. ~handshake \/ \E u \in ClientThread : pc'[u] \in {"answer", "login"} /\ ~bLogin
    <3>1. Len(sent) < 2
      BY <2>1, <2>2, Appended
    <3>2. \A u \in ClientThread : pc[u] \notin {"answer", "login"}
      BY <2>1 DEF TypeOK
    <3> QED
      BY <2>1, <3>1, <3>2 DEF Talk
  <2> QED
    BY <2>1, <2>3, <2>4, <2>5, <2>6 DEF Talk
<1> QED
  BY <1>1, <1>2

LEMMA LoginTalk ==
  ASSUME TypeOK, Stages, Talk, NEW t \in ClientThread, SendLogin(t)
  PROVE  Talk'
<1> USE DEF SendLogin, Send, connection, conn_info
<1>1. CASE ~CanSend
  BY <1>1, NotSent
<1>2. CASE CanSend
  <2>1. sent' = Append(sent, "login") /\ conn' = conn /\ conn = "open"
        /\ pc[t] = "login" /\ pc' = [pc EXCEPT ![t] = "return"]
    BY <1>2 DEF Goto, CanSend
  <2>2. UNCHANGED <<handshake, bLogin, bJoin>>
    OBVIOUS
  <2>3. \A u \in ClientThread : pc[u] # "greet" /\ pc'[u] # "greet"
    BY <2>1 DEF TypeOK
  <2>4. sent # <<>>
    BY <2>1, <2>3 DEF Talk
  <2>5. ~bJoin
    BY <2>1 DEF Stages
  <2>6. /\ Len(sent) \in Nat \ {0} /\ DOMAIN sent = 1..Len(sent)
        /\ DOMAIN sent' = 1..(Len(sent) + 1) /\ Len(sent') = Len(sent) + 1
        /\ \A i \in 1..Len(sent) : sent'[i] = sent[i]
        /\ sent'[Len(sent) + 1] = "login" /\ sent' # <<>>
    BY <2>1, <2>4, Appended
  <2>7. \A i \in DOMAIN sent' : /\ sent'[i] = "handshake" <=> i = 1
                                /\ sent'[i] # "join"
    BY <2>5, <2>6 DEF Talk
  <2> QED
    BY <2>1, <2>3, <2>6, <2>7 DEF Talk
<1> QED
  BY <1>1, <1>2

LEMMA JoinTalk ==
  ASSUME TypeOK, Stages, Talk, NEW t \in ClientThread, SendJoin(t)
  PROVE  Talk'
<1> USE DEF SendJoin, Send, connection
<1>1. CASE ~CanSend
  BY <1>1, NotSent
<1>2. CASE CanSend
  <2>1. sent' = Append(sent, "join") /\ conn' = conn /\ conn = "open" /\ bJoin'
        /\ pc[t] = "join" /\ pc' = [pc EXCEPT ![t] = "return"]
    BY <1>2 DEF Goto, CanSend
  <2>2. \A u \in ClientThread : /\ pc[u] \notin {"greet", "answer", "login"}
                                /\ pc'[u] # "greet"
    BY <2>1 DEF TypeOK
  <2>3. handshake /\ bLogin /\ ~bJoin
    BY <2>1 DEF Stages
  <2>4. sent # <<>> /\ ~(Len(sent) < 2)
    BY <2>1, <2>2, <2>3 DEF Talk
  <2>5. /\ Len(sent) \in Nat /\ DOMAIN sent = 1..Len(sent)
        /\ DOMAIN sent' = 1..(Len(sent) + 1) /\ Len(sent') = Len(sent) + 1
        /\ \A i \in 1..Len(sent) : sent'[i] = sent[i]
        /\ sent'[Len(sent) + 1] = "join" /\ sent' # <<>>
    BY <2>1, Appended
  <2>6. \A i \in DOMAIN sent' : /\ sent'[i] = "handshake" <=> i = 1
                                /\ sent'[i] = "join" => i = Len(sent') /\ i > 2
    BY <2>3, <2>4, <2>5 DEF Talk
  <2> QED
    BY <2>1, <2>2, <2>4, <2>5, <2>6 DEF Talk
<1> QED
  BY <1>1, <1>2

\* Every step of a connection leads away from its beginning.
LEMMA BegunStep ==
  ASSUME TypeOK, Begun, [Next]_vars
  PROVE  Begun'
<1> USE NoneAssumption DEF Begun, connection, conn_info, traffic, Goto, TypeOK, WsType
<1>1. ASSUME NEW t \in ClientThread, Go(t)
      PROVE  Begun'
  <2>1. strand = t /\ conn # "connecting"
    BY <1>1 DEF Go, SendHandshake, HandleBinaryMessage, ParseJsonMessage, Answer, SendLogin,
                SendJoin, Send, OnPlatformClose, Shut, Return
  <2>2. over' = over /\ conn' \in {conn, Closing}
    BY <1>1 DEF Go, SendHandshake, HandleBinaryMessage, ParseJsonMessage, Answer, SendLogin,
                SendJoin, Send, OnPlatformClose, Shut, Return
  <2> QED
    BY <2>1, <2>2 DEF Closing
<1>2. ASSUME NEW t \in ClientThread, Begin(t)
      PROVE  Begun'
  BY <1>2 DEF Begin, OnClientFail, OnClientClose, Report
<1>3. ASSUME NEW t \in ClientThread, OnClientOpen(t)
      PROVE  Begun'
  BY <1>3 DEF OnClientOpen, Open
<1>4. ASSUME NEW t \in ClientThread, OnClientMessage(t)
      PROVE  Begun'
  BY <1>4 DEF OnClientMessage, Deliverable, Receive
<1>5. ASSUME Library
      PROVE  Begun'
  BY <1>5 DEF Library, ReceiveClose, Terminate
<1>6. ASSUME AssignHandle \/ Close \/ UNCHANGED vars
      PROVE  Begun'
  BY <1>6 DEF AssignHandle, Close, Closing, vars
<1> QED
  BY <1>1, <1>2, <1>3, <1>4, <1>5, <1>6 DEF Next

\* A frame parsed sets a flag only when the next step can answer it.
LEMMA ParsedTalk ==
  ASSUME TypeOK, Queued, Stages, Talk, NEW t \in ClientThread, HandleBinaryMessage(t)
  PROVE  Talk'
<1> USE DEF HandleBinaryMessage, Goto, connection, traffic
<1>1. UNCHANGED <<conn, sent, bJoin>>
  OBVIOUS
<1>2. \A u \in ClientThread : u # t => pc[u] = "idle" /\ pc'[u] = "idle"
  BY DEF TypeOK
<1>3. pc[t] = "parse" /\ pc'[t] \in {"publish", "answer"}
  BY DEF TypeOK
<1>4. \A u \in ClientThread : pc[u] # "greet" /\ pc'[u] # "greet"
  BY <1>2, <1>3
<1>5. ASSUME conn = "open", handshake', Len(sent) < 2
      PROVE  pc'[t] = "answer" /\ ~bLogin'
  <2>1. ~handshake
    BY <1>2, <1>3, <1>5 DEF Talk
  <2>2. ~bLogin /\ bLogin' = bLogin
    BY <2>1 DEF Stages
  <2>3. todo[t] = <<>>
    BY <2>2 DEF Queued
  <2> QED
    BY <2>2, <2>3 DEF TypeOK
<1>6. conn' = "open" /\ handshake' /\ Len(sent') < 2 =>
        \E u \in ClientThread : pc'[u] \in {"answer", "login"} /\ ~bLogin'
  BY <1>1, <1>5
<1>7. conn' = "open" => sent' # <<>>
  BY <1>1, <1>4 DEF Talk
<1> QED
  BY <1>1, <1>4, <1>6, <1>7 DEF Talk

\* A handler that leaves the stage of the answer has nothing to say, or a login.
LEMMA AnsweredTalk ==
  ASSUME TypeOK, Talk, NEW t \in ClientThread, Answer(t)
  PROVE  Talk'
<1> USE DEF Answer, Goto, connection, traffic, conn_info
<1>1. UNCHANGED <<conn, sent, handshake, bLogin, bJoin>>
  OBVIOUS
<1>2. \A u \in ClientThread : u # t => pc'[u] = pc[u]
  BY DEF TypeOK
<1>3. pc[t] = "answer" /\ pc'[t] # "greet"
      /\ (pc'[t] = "login" \/ ~handshake \/ bLogin)
  BY DEF TypeOK
<1> QED
  BY <1>1, <1>2, <1>3, TalkKept

\* Every step keeps to the protocol.
LEMMA TalkStep ==
  ASSUME TypeOK, Queued, Stages, Begun, Talk, [Next]_vars
  PROVE  Talk'
<1> USE DEF connection, conn_info, traffic, Goto
<1>1. ASSUME NEW t \in ClientThread, ParseJsonMessage(t)
      PROVE  Talk'
  <2>1. /\ UNCHANGED <<conn, sent, handshake, bLogin, bJoin>>
        /\ \A u \in ClientThread : u # t => pc'[u] = pc[u]
        /\ pc[t] = "publish" /\ pc'[t] \in {"answer", "publish"}
    BY <1>1 DEF ParseJsonMessage, TypeOK
  <2> QED
    BY <2>1, TalkKept
<1>2. ASSUME NEW t \in ClientThread, OnPlatformClose(t) \/ Shut(t) \/ Return(t)
      PROVE  Talk'
  <2>1. /\ UNCHANGED <<sent, handshake, bLogin, bJoin>>
        /\ conn' \in {"connecting", "open"} => conn' = conn
        /\ \A u \in ClientThread : u # t => pc'[u] = pc[u]
        /\ pc[t] \in {"call", "callReturn", "shut", "return"}
        /\ pc'[t] \in {"shut", "return", "idle"}
    BY <1>2 DEF OnPlatformClose, Shut, Return, Closing, TypeOK
  <2> QED
    BY <2>1, TalkKept
<1>3. ASSUME NEW t \in ClientThread, Begin(t) \/ OnClientMessage(t)
      PROVE  Talk'
  <2>1. /\ UNCHANGED <<conn, sent, handshake, bLogin, bJoin>>
        /\ \A u \in ClientThread : u # t => pc'[u] = pc[u]
        /\ pc[t] = "idle" /\ pc'[t] # "greet"
    BY <1>3 DEF Begin, OnClientFail, OnClientClose, Report, OnClientMessage, Deliverable,
                Receive, TypeOK
  <2> QED
    BY <2>1, TalkKept
<1>4. ASSUME NEW t \in ClientThread, OnClientOpen(t)
      PROVE  Talk'
  <2>1. sent = <<>> /\ ~handshake
    BY <1>4 DEF OnClientOpen, Open, Begun
  <2>2. UNCHANGED <<sent, handshake, bLogin, bJoin>> /\ pc'[t] = "greet"
    BY <1>4 DEF OnClientOpen, TypeOK
  <2> QED
    BY <2>1, <2>2 DEF Talk
<1>5. ASSUME Library \/ AssignHandle \/ Close \/ UNCHANGED vars
      PROVE  Talk'
  <2>1. /\ UNCHANGED <<pc, sent, handshake, bLogin, bJoin>>
        /\ conn' \in {"connecting", "open"} => conn' = conn
    BY <1>5 DEF Library, ReceiveClose, Terminate, AssignHandle, Close, Closing, vars
  <2> QED
    BY <2>1, TalkKept
<1> QED
  BY <1>1, <1>2, <1>3, <1>4, <1>5, GreetTalk, ParsedTalk, AnsweredTalk, LoginTalk, JoinTalk
     DEF Next, Go

-----------------------------------------------------------------------------
(* The theorems.                                                           *)

LEMMA Invariant == Spec => []IInv
<1>1. Init => IInv
  <2>1. ASSUME Init PROVE InOrder /\ Queued
    BY <2>1, EmptySeq, LenProperties DEF Init, InOrder, Queued
  <2>2. ASSUME Init PROVE Stages /\ Begun /\ Talk
    BY <2>2, EmptySeq, LenProperties DEF Init, WsInit, Stages, Begun, Talk
  <2> QED
    BY <2>1, <2>2, TypeInit DEF IInv
<1>2. IInv /\ [Next]_vars => IInv'
  BY TypeStep, OrderStep, StagesStep, BegunStep, TalkStep DEF IInv
<1> QED
  BY <1>1, <1>2, PTL DEF Spec

\* The types of a huajiao session's state; that each of its handlers runs on the
\* connection's strand, as websocketpp promises of a multithreaded client; and
\* that a handler at ParseJsonMessage has a message to parse.
THEOREM TypeCorrect == Spec => []TypeOK
<1>1. IInv => TypeOK
  BY DEF IInv
<1> QED
  BY <1>1, Invariant, PTL

\* ParseJsonMessage publishes the messages in the order in which they came,
\* however many threads serve the connection and however many messages a frame
\* brings: publishes of different frames never interleave.
THEOREM OrderHolds == Spec => []InOrder
<1>1. IInv => InOrder
  BY DEF IInv
<1> QED
  BY <1>1, Invariant, PTL

\* on_client_open and HandleBinaryMessage say the handshake first, then logins,
\* and the request to join at most once and last, although conn_info's lock is
\* never taken.
THEOREM ProtocolHolds == Spec => []Protocol
<1>1. IInv => Protocol
  BY DEF IInv, Talk, Stages, Protocol
<1> QED
  BY <1>1, Invariant, PTL

-----------------------------------------------------------------------------
(* The refinement of WsSession.                                            *)

\* The connection is closed when its end is known; the handler of its end does
\* nothing but report it, and a handler before that finds the connection open
\* or, if it reports, closing.
Ends ==
  /\ conn = "closed" <=> over # "no"
  /\ \A t \in ClientThread : pc[t] # "idle" =>
       \/ over = "told" /\ pc[t] \in {"callReturn", "return"}
       \/ /\ over = "no" /\ pc[t] # "callReturn"
          /\ IF pc[t] = "call" THEN conn = "closing" ELSE conn \in {"open", "closing"}
  /\ fault = "deadlock" => closed

\* A handler holds the strand, so all others are idle.
LEMMA OneHandler ==
  ASSUME TypeOK
  PROVE  /\ \A t, u \in ClientThread : pc[t] # "idle" /\ pc[u] # "idle" => t = u
         /\ strand = None => Idle
BY NoneAssumption DEF TypeOK, Idle

LEMMA EndsInit == Init => Ends
BY DEF Init, WsInit, Ends

LEMMA EndsStep ==
  ASSUME TypeOK, Ends, [Next]_vars
  PROVE  Ends'
<1> USE DEF Ends, connection, message, conn_info, registry, traffic, Goto
<1>1. ASSUME NEW t \in ClientThread, NEW from, NEW packet, Send(t, from, packet),
             UNCHANGED connection, from \in {"greet", "login", "join"}
      PROVE  Ends'
  <2>1. UNCHANGED <<fault, closed>>
    BY <1>1 DEF Send
  <2>2. conn \in {"open", "closing"} /\ over = "no"
    BY <1>1 DEF Send
  <2>3. \/ pc' = [pc EXCEPT ![t] = "return"]
        \/ conn = "closing" /\ pc' = [pc EXCEPT ![t] = "call"]
    BY <1>1, <2>2 DEF Send, CanSend
  <2> QED
    BY <1>1, <2>1, <2>2, <2>3, Zenon DEF TypeOK
<1>2. ASSUME NEW t \in ClientThread, SendHandshake(t) \/ SendLogin(t) \/ SendJoin(t)
      PROVE  Ends'
  BY <1>1, <1>2 DEF SendHandshake, SendLogin, SendJoin
<1>3. ASSUME NEW t \in ClientThread,
             HandleBinaryMessage(t) \/ ParseJsonMessage(t) \/ Answer(t)
      PROVE  Ends'
  <2>1. PICK to \in {"publish", "answer", "return", "login", "join"} :
          pc' = [pc EXCEPT ![t] = to]
    BY <1>3 DEF HandleBinaryMessage, ParseJsonMessage, Answer
  <2>2. pc[t] \in {"parse", "publish", "answer"} /\ UNCHANGED <<connection, fault, closed>>
    BY <1>3 DEF HandleBinaryMessage, ParseJsonMessage, Answer
  <2> QED
    BY <2>1, <2>2 DEF TypeOK
<1>4. ASSUME NEW t \in ClientThread, OnPlatformClose(t)
      PROVE  Ends'
  BY <1>4 DEF OnPlatformClose, TypeOK
<1>5. ASSUME NEW t \in ClientThread, Shut(t) \/ Return(t)
      PROVE  Ends'
  BY <1>5, OneHandler DEF Shut, Return, Closing, TypeOK
<1>6. ASSUME NEW t \in ClientThread, Begin(t)
      PROVE  Ends'
  BY <1>6, OneHandler DEF Begin, OnClientFail, OnClientClose, Report, Idle, TypeOK
<1>7. ASSUME NEW t \in ClientThread, OnClientOpen(t)
      PROVE  Ends'
  BY <1>7, OneHandler DEF OnClientOpen, Open, Idle, TypeOK
<1>8. ASSUME NEW t \in ClientThread, OnClientMessage(t)
      PROVE  Ends'
  BY <1>8, OneHandler DEF OnClientMessage, Deliverable, Receive, Idle, TypeOK
<1>9. ASSUME Library
      PROVE  Ends'
  BY <1>9, OneHandler DEF Library, ReceiveClose, Terminate, Idle, TypeOK, WsType
<1>10. ASSUME AssignHandle \/ UNCHANGED vars
       PROVE  Ends'
  BY <1>10 DEF AssignHandle, vars
<1>11. ASSUME Close
       PROVE  Ends'
  BY <1>11 DEF Close, Closing
<1> QED
  BY <1>2, <1>3, <1>4, <1>5, <1>6, <1>7, <1>8, <1>9, <1>10, <1>11 DEF Next, Go

\* The stage of the session, before and after a step.
LEMMA StageIs ==
  ASSUME Ends
  PROVE  /\ over = "no" => Stage = conn
         /\ over = "failed" => Stage = "connecting"
         /\ over = "closed" => Stage = "terminated"
         /\ over = "told" => Stage = IF Idle THEN "ended" ELSE "draining"
BY DEF Ends, Stage

LEMMA StageBecomes ==
  ASSUME Ends'
  PROVE  /\ over' = "no" => Stage' = conn'
         /\ over' = "failed" => Stage' = "connecting"
         /\ over' = "closed" => Stage' = "terminated"
         /\ over' = "told" => Stage' = IF Idle' THEN "ended" ELSE "draining"
BY DEF Ends, Stage

\* A step of a handler that is not about a report, and the two of one that is.
LEMMA WaitingKept ==
  ASSUME TypeOK, NEW t \in ClientThread, NEW to, pc' = [pc EXCEPT ![t] = to],
         ~Waiting[t], to \notin {"call", "callReturn"}
  PROVE  Waiting' = Waiting
<1>1. \A u \in ClientThread :
        (pc'[u] \in {"call", "callReturn"}) = (pc[u] \in {"call", "callReturn"})
  <2>1. pc[t] \notin {"call", "callReturn"} /\ pc'[t] \notin {"call", "callReturn"}
    BY DEF TypeOK, Waiting
  <2>2. \A u \in ClientThread : u # t => pc'[u] = pc[u]
    BY DEF TypeOK
  <2> QED
    BY <2>1, <2>2
<1> QED
  BY <1>1, Zenon DEF Waiting

LEMMA WaitingEnds ==
  ASSUME TypeOK, NEW t \in ClientThread, NEW to, pc' = [pc EXCEPT ![t] = to],
         to \notin {"call", "callReturn"}
  PROVE  Waiting' = [Waiting EXCEPT ![t] = FALSE]
<1>1. (pc'[t] \in {"call", "callReturn"}) = FALSE
  BY DEF TypeOK
<1>2. \A u \in ClientThread : u # t =>
        (pc'[u] \in {"call", "callReturn"}) = (pc[u] \in {"call", "callReturn"})
  BY DEF TypeOK
<1> QED
  BY <1>1, <1>2, Zenon DEF Waiting

LEMMA WaitingBegins ==
  ASSUME TypeOK, NEW t \in ClientThread, NEW to \in {"call", "callReturn"},
         pc' = [pc EXCEPT ![t] = to]
  PROVE  Waiting' = [Waiting EXCEPT ![t] = TRUE]
<1>1. (pc'[t] \in {"call", "callReturn"}) = TRUE
  BY DEF TypeOK
<1>2. \A u \in ClientThread : u # t =>
        (pc'[u] \in {"call", "callReturn"}) = (pc[u] \in {"call", "callReturn"})
  BY DEF TypeOK
<1> QED
  BY <1>1, <1>2, Zenon DEF Waiting

\* A step that the registry does not see.
LEMMA Unseen ==
  ASSUME Stage' = Stage, Waiting' = Waiting, UNCHANGED <<fault, said, reported, closed>>
  PROVE  UNCHANGED Session!vars
BY DEF Session!vars

\* A packet is sent unseen, or the connection is closing and that is reported.
LEMMA SendSeen ==
  ASSUME TypeOK, Ends, Ends', NEW t \in ClientThread,
         NEW from \in {"greet", "login", "join"}, NEW packet, Send(t, from, packet),
         UNCHANGED connection
  PROVE  Session!ExtraReport(t) \/ UNCHANGED Session!vars
<1> USE DEF connection, registry, traffic, Goto
<1>1. pc[t] = from /\ ~Waiting[t]
  BY DEF Send, Waiting
<1>2. over = "no" /\ conn \in {"open", "closing"}
  BY <1>1 DEF Ends
<1>3. Stage = conn /\ Stage' = Stage
  BY <1>2, StageIs, StageBecomes
<1>4. CASE CanSend /\ pc' = [pc EXCEPT ![t] = "return"] /\ UNCHANGED <<registry, said, reported>>
  BY <1>1, <1>3, <1>4, WaitingKept, Unseen
<1>5. CASE ~CanSend /\ pc' = [pc EXCEPT ![t] = "call"] /\ said' = ~said /\ reported' = TRUE
           /\ UNCHANGED registry
  <2>1. Waiting' = [Waiting EXCEPT ![t] = TRUE]
    BY <1>5, WaitingBegins
  <2>2. Stage = "closing"
    BY <1>2, <1>3, <1>5 DEF CanSend
  <2> QED
    BY <1>1, <1>3, <1>5, <2>1, <2>2 DEF Session!ExtraReport, Session!Report
<1> QED
  BY <1>4, <1>5 DEF Send

\* The other steps of a handler.
LEMMA HandlerSeen ==
  ASSUME TypeOK, Ends, Ends', NEW t \in ClientThread,
         HandleBinaryMessage(t) \/ ParseJsonMessage(t) \/ Answer(t)
  PROVE  Session!Publish \/ UNCHANGED Session!vars
<1> USE DEF connection, registry, Goto
<1>1. pc[t] \in {"parse", "publish", "answer"} /\ ~Waiting[t]
  BY DEF HandleBinaryMessage, ParseJsonMessage, Answer, Waiting
<1>2. over = "no" /\ conn \in {"open", "closing"}
  BY <1>1 DEF Ends
<1>3. UNCHANGED <<connection, registry, reported>>
  BY DEF HandleBinaryMessage, ParseJsonMessage, Answer
<1>4. Stage = conn /\ Stage' = Stage
  BY <1>2, <1>3, StageIs, StageBecomes
<1>5. PICK to \in {"publish", "answer", "return", "login", "join"} : pc' = [pc EXCEPT ![t] = to]
  BY DEF HandleBinaryMessage, ParseJsonMessage, Answer
<1>6. Waiting' = Waiting
  BY <1>1, <1>5, WaitingKept
<1>7. said' \in {said, ~said}
  BY DEF HandleBinaryMessage, ParseJsonMessage, Answer
<1>8. CASE said' = said
  BY <1>3, <1>4, <1>6, <1>8, Unseen
<1>9. CASE said' = ~said
  BY <1>2, <1>3, <1>4, <1>6, <1>9 DEF Session!Publish
<1> QED
  BY <1>7, <1>8, <1>9

\* A report whose callback returns closes the connection, or has been told.
LEMMA ReportSeen ==
  ASSUME TypeOK, Ends, Ends', NEW t \in ClientThread,
         OnPlatformClose(t) \/ Shut(t) \/ Return(t)
  PROVE  Session!Next \/ UNCHANGED Session!vars
<1> USE DEF connection, registry, Goto
<1>1. ASSUME OnPlatformClose(t)
      PROVE  Session!OnPlatformClose(t)
  <2>1. /\ pc[t] \in {"call", "callReturn"} /\ Waiting[t]
        /\ fault = "none" /\ UNCHANGED <<connection, fault, said, reported, closed>>
    BY <1>1 DEF OnPlatformClose, Waiting
  <2>2. PICK to \in {"shut", "return"} : pc' = [pc EXCEPT ![t] = to]
    BY <1>1 DEF OnPlatformClose
  <2>3. Waiting' = [Waiting EXCEPT ![t] = FALSE]
    BY <2>2, WaitingEnds
  <2>4. ~Idle /\ ~Idle'
    BY <2>1, <2>2 DEF Idle, TypeOK
  <2>5. Stage # "open" /\ Stage' = Stage
    BY <2>1, <2>4, StageIs, StageBecomes DEF Ends
  <2> QED
    BY <2>1, <2>3, <2>5 DEF Session!OnPlatformClose
<1>2. ASSUME Shut(t)
      PROVE  Session!Progress \/ UNCHANGED Session!vars
  <2>1. /\ pc[t] = "shut" /\ ~Waiting[t] /\ pc' = [pc EXCEPT ![t] = "return"]
        /\ over' = over /\ UNCHANGED <<fault, said, reported, closed>>
    BY <1>2 DEF Shut, Waiting
  <2>2. Waiting' = Waiting
    BY <2>1, WaitingKept
  <2>3. over = "no" /\ conn \in {"open", "closing"}
    BY <2>1 DEF Ends
  <2>4. conn' \in {conn, "closing"}
    BY <1>2 DEF Shut, Closing
  <2>5. Stage = conn /\ Stage' = conn'
    BY <2>1, <2>3, StageIs, StageBecomes
  <2>6. CASE conn' = conn
    BY <2>1, <2>2, <2>5, <2>6, Unseen
  <2>7. CASE conn = "open" /\ conn' = "closing"
    BY <2>1, <2>2, <2>5, <2>7 DEF Session!Progress
  <2> QED
    BY <2>3, <2>4, <2>6, <2>7
<1>3. ASSUME Return(t)
      PROVE  Session!End \/ UNCHANGED Session!vars
  <2>1. /\ pc[t] = "return" /\ ~Waiting[t] /\ pc' = [pc EXCEPT ![t] = "idle"]
        /\ UNCHANGED <<conn, over, fault, said, reported, closed>>
    BY <1>3 DEF Return, Waiting
  <2>2. Waiting' = Waiting
    BY <2>1, WaitingKept
  <2>3. CASE over = "no"
    BY <2>1, <2>2, <2>3, StageIs, StageBecomes, Unseen
  <2>4. CASE over = "told"
    <3>1. \A u \in ClientThread : u # t => pc[u] = "idle"
      BY <2>1, OneHandler
    <3>2. ~Idle /\ Idle'
      BY <2>1, <3>1 DEF Idle, TypeOK
    <3>3. \A u \in ClientThread : ~Waiting[u]
      BY <2>1, <3>1 DEF Waiting
    <3> QED
      BY <2>1, <2>2, <2>4, <3>2, <3>3, StageIs, StageBecomes DEF Session!End
  <2> QED
    BY <2>1, <2>3, <2>4 DEF Ends
<1>4. fault # "crash"
  BY DEF TypeOK
<1> QED
  BY <1>1, <1>2, <1>3, <1>4 DEF Session!Next

\* The handlers of the connection's beginning and end, and a frame.
LEMMA BeginSeen ==
  ASSUME TypeOK, Ends, Ends', NEW t \in ClientThread,
         Begin(t) \/ OnClientOpen(t) \/ OnClientMessage(t)
  PROVE  Session!Next \/ UNCHANGED Session!vars
<1> USE DEF connection, registry, Goto
<1>1. pc[t] = "idle" /\ ~Waiting[t] /\ strand = None
  BY DEF Begin, OnClientFail, OnClientClose, Report, OnClientOpen, Open, OnClientMessage,
         Deliverable, Receive, Waiting
<1>2. ASSUME Begin(t)
      PROVE  Session!FinalReport(t)
  <2>1. /\ over \in {"failed", "closed"} /\ over' = "told"
        /\ pc' = [pc EXCEPT ![t] = "callReturn"]
        /\ said' = ~said /\ reported' = TRUE /\ UNCHANGED <<fault, closed>>
    BY <1>2 DEF Begin, OnClientFail, OnClientClose, Report
  <2>2. Waiting' = [Waiting EXCEPT ![t] = TRUE]
    BY <2>1, WaitingBegins
  <2>3. ~Idle'
    BY <2>1 DEF Idle, TypeOK
  <2>4. Stage \in {"connecting", "terminated"} /\ Stage' = "draining"
    BY <2>1, <2>3, StageIs, StageBecomes
  <2> QED
    BY <1>1, <2>1, <2>2, <2>4 DEF Session!FinalReport, Session!Report
<1>3. ASSUME OnClientOpen(t)
      PROVE  Session!Progress
  <2>1. /\ conn = "connecting" /\ conn' = "open" /\ over' = over
        /\ pc' = [pc EXCEPT ![t] = "greet"]
        /\ UNCHANGED <<fault, said, reported, closed>>
    BY <1>3 DEF OnClientOpen, Open
  <2>2. Waiting' = Waiting
    BY <1>1, <2>1, WaitingKept
  <2>3. over = "no"
    BY <2>1 DEF Ends
  <2> QED
    BY <2>1, <2>2, <2>3, StageIs, StageBecomes DEF Session!Progress
<1>4. ASSUME OnClientMessage(t)
      PROVE  UNCHANGED Session!vars
  <2>1. conn = "open" /\ UNCHANGED <<conn, over, fault, said, reported, closed>>
    BY <1>4 DEF OnClientMessage, Deliverable, Receive
  <2>2. PICK to \in {"return", "parse"} : pc' = [pc EXCEPT ![t] = to]
    BY <1>4 DEF OnClientMessage, Receive
  <2>3. Waiting' = Waiting
    BY <1>1, <2>2, WaitingKept
  <2>4. over = "no"
    BY <2>1 DEF Ends
  <2> QED
    BY <2>1, <2>3, <2>4, StageIs, StageBecomes, Unseen
<1>5. fault # "crash"
  BY DEF TypeOK
<1> QED
  BY <1>2, <1>3, <1>4, <1>5 DEF Session!Next

\* The connection's own steps, start() and close().
LEMMA OutsideSeen ==
  ASSUME TypeOK, Ends, Ends', Library \/ AssignHandle \/ Close \/ UNCHANGED vars
  PROVE  Session!Next \/ UNCHANGED Session!vars
<1> USE DEF connection, registry
<1>1. pc' = pc /\ Waiting' = Waiting /\ Idle' = Idle
  BY DEF Library, AssignHandle, Close, vars, Waiting, Idle
<1>2. ASSUME Library
      PROVE  Session!Progress \/ UNCHANGED Session!vars
  <2>1. UNCHANGED <<fault, said, reported, closed>>
    BY <1>2 DEF Library
  <2>2. CASE ReceiveClose
    <3>1. conn = "open" /\ conn' = "closing" /\ over' = over
      BY <2>2 DEF ReceiveClose
    <3>2. over = "no"
      BY <3>1 DEF Ends
    <3> QED
      BY <1>1, <2>1, <3>1, <3>2, StageIs, StageBecomes DEF Session!Progress
  <2>3. CASE Terminate
    <3>1. conn # "closed" /\ over' = IF conn = "connecting" THEN "failed" ELSE "closed"
      BY <2>3 DEF Terminate
    <3>2. over = "no" /\ conn \in {"connecting", "open", "closing"}
      BY <3>1 DEF Ends, TypeOK, WsType
    <3>3. CASE conn = "connecting"
      BY <1>1, <2>1, <3>1, <3>2, <3>3, StageIs, StageBecomes, Unseen
    <3>4. CASE conn \in {"open", "closing"}
      BY <1>1, <2>1, <3>1, <3>2, <3>4, StageIs, StageBecomes DEF Session!Progress
    <3> QED
      BY <3>2, <3>3, <3>4
  <2> QED
    BY <1>2, <2>2, <2>3 DEF Library
<1>3. ASSUME AssignHandle \/ UNCHANGED vars
      PROVE  UNCHANGED Session!vars
  <2>1. UNCHANGED <<conn, over, fault, said, reported, closed>>
    BY <1>3 DEF AssignHandle, vars
  <2>2. Stage' = Stage
    BY <1>1, <2>1 DEF Stage
  <2> QED
    BY <1>1, <2>1, <2>2, Unseen
<1>4. ASSUME Close
      PROVE  Session!Close
  <2>1. ~closed /\ closed' = TRUE /\ fault = "none" /\ UNCHANGED <<over, said>>
    BY <1>4 DEF Close, Ends, TypeOK
  <2>2. CASE conn = "open"
    <3>1. conn' = "closing" /\ UNCHANGED <<fault, reported>>
      BY <1>4, <2>2 DEF Close, Closing
    <3>2. over = "no"
      BY <2>2 DEF Ends
    <3> QED
      BY <1>1, <2>1, <2>2, <3>1, <3>2, StageIs, StageBecomes DEF Session!Close
  <2>3. CASE conn # "open"
    <3>1. conn' = conn /\ fault' = "deadlock" /\ reported' = TRUE
      BY <1>4, <2>3 DEF Close, Closing
    <3>2. Stage' = Stage
      BY <1>1, <2>1, <3>1 DEF Stage
    <3>3. Stage # "open"
      BY <2>3, StageIs DEF TypeOK, WsType
    <3> QED
      BY <1>1, <2>1, <3>1, <3>2, <3>3 DEF Session!Close
  <2> QED
    BY <2>2, <2>3
<1>5. fault # "crash"
  BY DEF TypeOK
<1> QED
  BY <1>2, <1>3, <1>4, <1>5 DEF Session!Next

\* huajiao.cpp makes the publishes and reports that the registry relies on, in
\* the stages it relies on, and hangs only when close() (huajiao.cpp:47-52)
\* reports under rp_rw_mtx: every step of the session is a step of WsSession or
\* one the registry does not see.
THEOREM SessionImplemented == Spec => ImplementsSession
<1>1. Init => Session!Init
  <2> SUFFICES ASSUME Init PROVE Session!Init
    OBVIOUS
  <2>1. Stage = "connecting"
    BY DEF Init, WsInit, Stage
  <2>2. Waiting = [t \in ClientThread |-> FALSE]
    <3>1. ASSUME NEW t \in ClientThread
          PROVE  (pc[t] \in {"call", "callReturn"}) = FALSE
      BY DEF Init
    <3> QED
      BY <3>1, Zenon DEF Waiting
  <2> QED
    BY <2>1, <2>2 DEF Init, Session!Init
<1>2. TypeOK /\ Ends /\ [Next]_vars => Ends'
  BY EndsStep
<1>3. TypeOK /\ Ends /\ Ends' /\ [Next]_vars => [Session!Next]_Session!vars
  <2> SUFFICES ASSUME TypeOK, Ends, Ends', [Next]_vars
               PROVE  Session!Next \/ UNCHANGED Session!vars
    OBVIOUS
  <2>1. fault # "crash"
    BY DEF TypeOK
  <2>2. ASSUME NEW t \in ClientThread, Go(t)
        PROVE  Session!Next \/ UNCHANGED Session!vars
    <3>1. CASE SendHandshake(t) \/ SendLogin(t) \/ SendJoin(t)
      BY <2>1, <3>1, SendSeen DEF SendHandshake, SendLogin, SendJoin, Session!Next
    <3>2. CASE HandleBinaryMessage(t) \/ ParseJsonMessage(t) \/ Answer(t)
      BY <2>1, <3>2, HandlerSeen DEF Session!Next
    <3>3. CASE OnPlatformClose(t) \/ Shut(t) \/ Return(t)
      BY <3>3, ReportSeen
    <3> QED
      BY <2>2, <3>1, <3>2, <3>3 DEF Go
  <2> QED
    BY <2>2, BeginSeen, OutsideSeen DEF Next
<1> QED
  BY <1>1, <1>2, <1>3, EndsInit, TypeCorrect, PTL DEF Spec, ImplementsSession, Session!Spec
=============================================================================
