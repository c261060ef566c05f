---------------------------- MODULE ProxyProofs ----------------------------
(* Proofs about the registry, for any number of viewers, rooms, sessions   *)
(* and client threads.                                                     *)
EXTENDS Proxy, TLAPS

Rooms == Room \cup BadRoom \cup {None}

-----------------------------------------------------------------------------
(* What leaving a room does to each variable (erase_listener, close() and   *)
(* rp_map.erase, main.cpp:42-50 and 81-88).                                *)

\* The operators of a leaving viewer keep the types of what they change.
LEMMA LeftTypes ==
  ASSUME TypeOK, NEW c \in Conn, NEW r \in Rooms
  PROVE  /\ LeftListeners(c, r) \in [Inst -> SUBSET Conn]
         /\ LeftMap(c, r) \in [Room -> Inst \cup {None}]
         /\ LeftUp(c, r) \in [Inst -> UpState]
         /\ LeftClosed(c, r) \in SUBSET Inst
         /\ LeaveFault(c, r) \in {"none", "deadlock", "crash"}
<1>1. LeftListeners(c, r) \in [Inst -> SUBSET Conn]
  BY DEF LeftListeners, Mapped, TypeOK
<1>2. LeftMap(c, r) \in [Room -> Inst \cup {None}]
  BY DEF LeftMap, Empties, Mapped, TypeOK
<1>3. LeftUp(c, r) \in [Inst -> UpState]
  BY DEF LeftUp, Empties, Mapped, TypeOK, UpState
<1>4. LeftClosed(c, r) \in SUBSET Inst
  BY DEF LeftClosed, Empties, Mapped, TypeOK
<1>5. LeaveFault(c, r) \in {"none", "deadlock", "crash"}
  BY DEF LeaveFault, CloseFault
<1> QED
  BY <1>1, <1>2, <1>3, <1>4, <1>5

\* What leaving takes away: the viewer from one session, and that session
\* from the map when it was its last listener.
LEMMA LeftFacts ==
  ASSUME TypeOK, NEW c \in Conn, NEW r \in Rooms
  PROVE  /\ \A i \in Inst : LeftListeners(c, r)[i] \subseteq listeners[i]
         /\ \A i \in Inst : listeners[i] \ {c} \subseteq LeftListeners(c, r)[i]
         /\ \A q \in Room : LeftMap(c, r)[q] \in {rpMap[q], None}
         /\ \A q \in Room : LeftMap(c, r)[q] # rpMap[q] => q = r /\ Empties(c, r)
         /\ Empties(c, r) => /\ r \in Room /\ rpMap[r] \in Inst
                             /\ LeftMap(c, r)[r] = None
                             /\ LeftListeners(c, r)[rpMap[r]] = {}
                             /\ LeftClosed(c, r) = closed \cup {rpMap[r]}
         /\ ~Empties(c, r) => LeftClosed(c, r) = closed
<1>1. /\ \A i \in Inst : LeftListeners(c, r)[i] \subseteq listeners[i]
      /\ \A i \in Inst : listeners[i] \ {c} \subseteq LeftListeners(c, r)[i]
  BY DEF LeftListeners, Mapped, TypeOK
<1>2. /\ \A q \in Room : LeftMap(c, r)[q] \in {rpMap[q], None}
      /\ \A q \in Room : LeftMap(c, r)[q] # rpMap[q] => q = r /\ Empties(c, r)
  BY DEF LeftMap, Empties, Mapped, TypeOK
<1>3. ASSUME Empties(c, r)
      PROVE  /\ r \in Room /\ rpMap[r] \in Inst
             /\ LeftMap(c, r)[r] = None
             /\ LeftListeners(c, r)[rpMap[r]] = {}
             /\ LeftClosed(c, r) = closed \cup {rpMap[r]}
  BY <1>3 DEF Empties, Mapped, LeftMap, LeftListeners, LeftClosed, TypeOK
<1>4. ~Empties(c, r) => LeftClosed(c, r) = closed
  BY DEF LeftClosed
<1> QED
  BY <1>1, <1>2, <1>3, <1>4

\* publish takes listeners of one session away and closes their connections.
LEMMA PublishFacts ==
  ASSUME TypeOK, NEW i \in Inst, NEW valid \in BOOLEAN, PublishTo(i, valid)
  PROVE  /\ listeners' \in [Inst -> SUBSET Conn]
         /\ sess' \in [Conn -> SessState]
         /\ \A j \in Inst : listeners'[j] \subseteq listeners[j]
         /\ \A c \in Conn : sess'[c] = "open" => sess[c] = "open"
         /\ \A j \in Inst : \A c \in listeners[j] :
              sess'[c] = "open" => c \in listeners'[j]
<1>1. Dropped(i, valid) \subseteq listeners[i]
  BY DEF Dropped
<1>2. listeners' \in [Inst -> SUBSET Conn] /\ sess' \in [Conn -> SessState]
  BY <1>1 DEF PublishTo, TypeOK, SessState
<1> QED
  BY <1>1, <1>2 DEF PublishTo, TypeOK

-----------------------------------------------------------------------------
(* Type correctness.                                                       *)

\* No step leaves the types of the variables.
LEMMA TypeStep == TypeOK /\ [Next]_vars => TypeOK'
<1> SUFFICES ASSUME TypeOK, [Next]_vars PROVE TypeOK'
  OBVIOUS
<1>1. ASSUME NEW c \in Conn, NEW r \in Room \cup BadRoom, Receive(c, r)
      PROVE  TypeOK'
  BY <1>1 DEF TypeOK, Receive, instVars
<1>2. ASSUME NEW c \in Conn, StayInRoom(c) PROVE TypeOK'
  BY <1>2 DEF TypeOK, StayInRoom, instVars
<1>3. ASSUME NEW c \in Conn, NEW r \in Rooms, FailLeaving(c, r)
      PROVE  /\ fault' \in {"none", "deadlock", "crash"}
             /\ listeners' \in [Inst -> SUBSET Conn]
             /\ closed' \in SUBSET Inst
             /\ reported' \in SUBSET Inst
  <2>1. LeaveFault(c, r) # "none" => Empties(c, r)
    BY DEF LeaveFault
  <2>2. rpMap[r] \in Inst
    BY <1>3, <2>1, LeftFacts DEF FailLeaving
  <2> QED
    BY <1>3, <2>2, LeftTypes DEF FailLeaving, TypeOK
<1>4. ASSUME NEW c \in Conn, ChangeFails(c) PROVE TypeOK'
  <2>1. msgRoom[c] \in Rooms
    BY DEF TypeOK, Rooms
  <2> QED
    BY <1>3, <1>4, <2>1 DEF TypeOK, ChangeFails, ChangeRoom, FailLeaving
<1>5. ASSUME NEW c \in Conn, CloseFails(c) PROVE TypeOK'
  <2>1. closeRoom[c] \in Rooms
    BY DEF TypeOK, Rooms
  <2> QED
    BY <1>3, <1>5, <2>1 DEF TypeOK, CloseFails, FailLeaving
<1>6. ASSUME NEW c \in Conn, ChangeSucceeds(c)
      PROVE  /\ fault' \in {"none", "deadlock", "crash"}
             /\ sess' \in [Conn -> SessState]
             /\ wants' \in [Conn -> Room \cup BadRoom \cup {None}]
             /\ msgRoom' \in [Conn -> Room \cup BadRoom \cup {None}]
             /\ hbTimer' \in [Inst -> BOOLEAN]
             /\ waiting' \in [ClientThread -> Inst \cup {None}]
             /\ closed' \in SUBSET Inst
             /\ reported' \in SUBSET Inst
             /\ extra' \in [Inst -> 0..MaxExtra]
             /\ LeftListeners(c, msgRoom[c]) \in [Inst -> SUBSET Conn]
             /\ LeftMap(c, msgRoom[c]) \in [Room -> Inst \cup {None}]
             /\ LeftUp(c, msgRoom[c]) \in [Inst -> UpState]
  <2>1. msgRoom[c] \in Rooms
    BY DEF TypeOK, Rooms
  <2> QED
    BY <1>6, <2>1, LeftTypes DEF TypeOK, ChangeSucceeds, ChangeRoom
<1>7. ASSUME NEW c \in Conn, NEW r \in Room, NEW i \in Inst, ChangeSucceeds(c),
             Attach(c, r, i)
      PROVE  /\ closeRoom' \in [Conn -> Room \cup {None}]
             /\ listeners' \in [Inst -> SUBSET Conn]
             /\ rpMap' \in [Room -> Inst \cup {None}]
             /\ up' \in [Inst -> UpState]
             /\ starts' \in [Inst -> Nat]
  <2>1. Started(r) \in UpState
    BY DEF Started, UpState
  <2> QED
    BY <1>6, <1>7, <2>1 DEF Attach, TypeOK
<1>8. ASSUME NEW c \in Conn, JoinRoom(c) PROVE TypeOK'
  <2>1. wants[c] \in Room /\ rpMap[wants[c]] \in Inst /\ room' = room
    BY <1>8 DEF JoinRoom, Mapped, TypeOK
  <2>2. CASE c \in LeftListeners(c, msgRoom[c])[rpMap[wants[c]]]
    BY <1>6, <1>7, <1>8, <2>1, <2>2 DEF JoinRoom, TypeOK
  <2>3. CASE c \notin LeftListeners(c, msgRoom[c])[rpMap[wants[c]]]
    <3>1. /\ rpMap' = LeftMap(c, msgRoom[c]) /\ up' = LeftUp(c, msgRoom[c])
          /\ closeRoom' = closeRoom /\ starts' = starts
          /\ listeners' = [LeftListeners(c, msgRoom[c])
                             EXCEPT ![rpMap[wants[c]]] = @ \cup {c}]
          /\ ChangeSucceeds(c)
      BY <1>8, <2>3 DEF JoinRoom
    <3>2. listeners' \in [Inst -> SUBSET Conn]
      BY <1>6, <2>1, <3>1
    <3> QED
      BY <1>6, <2>1, <3>1, <3>2 DEF TypeOK
  <2> QED
    BY <2>2, <2>3
<1>9. ASSUME NEW c \in Conn, NEW i \in Inst, OpenRoom(c, i) PROVE TypeOK'
  <2>1. room' \in [Inst -> Room \cup {None}]
    BY <1>9 DEF OpenRoom, TypeOK
  <2> QED
    BY <1>6, <1>7, <1>9, <2>1 DEF OpenRoom, TypeOK
<1>10. ASSUME NEW c \in Conn, RefuseRoom(c) PROVE TypeOK'
  BY <1>6, <1>10 DEF RefuseRoom, TypeOK
<1>11. ASSUME NEW c \in Conn, Lose(c) PROVE TypeOK'
  BY <1>11 DEF TypeOK, Lose, instVars, SessState
<1>12. ASSUME NEW c \in Conn, CloseUnhandled(c) PROVE TypeOK'
  BY <1>12 DEF TypeOK, CloseUnhandled, instVars, SessState
<1>13. ASSUME NEW c \in Conn, OnServerClose(c) PROVE TypeOK'
  <2>1. closeRoom[c] \in Rooms
    BY DEF TypeOK, Rooms
  <2> QED
    BY <1>13, <2>1, LeftTypes DEF OnServerClose, TypeOK, SessState
<1>14. ASSUME NEW i \in Inst, UpstreamStep(i) PROVE TypeOK'
  BY <1>14 DEF UpstreamStep, Progress, TypeOK, UpState, connVars
<1>15. ASSUME NEW i \in Inst, Login(i) PROVE TypeOK'
  BY <1>15 DEF Login, TypeOK, connVars
<1>16. ASSUME NEW i \in Inst, NEW valid \in BOOLEAN, Publish(i, valid) PROVE TypeOK'
  BY <1>16, PublishFacts DEF Publish, TypeOK
<1>17. ASSUME NEW i \in Inst, NEW t \in ClientThread, FinalReport(t, i) PROVE TypeOK'
  <2>1. up' \in [Inst -> UpState]
    BY <1>17 DEF FinalReport, TypeOK, UpState
  <2> QED
    BY <1>17, <2>1, PublishFacts DEF FinalReport, Report, TypeOK
<1>18. ASSUME NEW i \in Inst, NEW t \in ClientThread, ExtraReport(t, i) PROVE TypeOK'
  <2>1. extra' \in [Inst -> 0..MaxExtra]
    BY <1>18, BoundAssumption DEF ExtraReport, TypeOK
  <2> QED
    BY <1>18, <2>1, PublishFacts DEF ExtraReport, Report, TypeOK
<1>19. ASSUME NEW i \in Inst, NullTimer(i) PROVE TypeOK'
  BY <1>19, PublishFacts DEF NullTimer, TypeOK
<1>20. ASSUME NEW i \in Inst, End(i) PROVE TypeOK'
  BY <1>20 DEF End, TypeOK, UpState, connVars
<1>21. ASSUME NEW t \in ClientThread, OnPlatformClose(t) PROVE TypeOK'
  BY <1>21 DEF OnPlatformClose, TypeOK, UpState, connVars
<1>22. CASE UNCHANGED vars
  BY <1>22 DEF TypeOK, vars, connVars, instVars
<1> QED
  BY <1>1, <1>2, <1>4, <1>5, <1>8, <1>9, <1>10, <1>11, <1>12, <1>13, <1>14, <1>15,
     <1>16, <1>17, <1>18, <1>19, <1>20, <1>21, <1>22
     DEF Next, ServerStep, ClientStep, OnServerMessage

\* Every variable of the registry keeps its type (main.cpp, platform_base.cpp).
THEOREM TypeCorrect == Spec => []TypeOK
<1>1. Init => TypeOK
  BY BoundAssumption DEF Init, TypeOK, SessState, UpState
<1> QED
  BY <1>1, TypeStep, PTL DEF Spec

-----------------------------------------------------------------------------
(* The inductive invariant.  The properties of Proxy do not support each    *)
(* other by themselves: that the session registered under a room is one of *)
(* that room, that a session not yet created is untouched, that a thread   *)
(* in on_platform_close stands for a session that reported, and that a     *)
(* registered session that is over has such a thread, is needed as well.   *)

Keyed == \A r \in Room : Mapped(r) => room[rpMap[r]] = r

Untouched(i) == /\ listeners[i] = {} /\ starts[i] = 0 /\ up[i] = "unborn"
                /\ i \notin closed /\ i \notin reported
Fresh == \A i \in Inst : room[i] = None => Untouched(i)

WaitsReported == \A t \in ClientThread : waiting[t] # None => waiting[t] \in reported

Waited(i) == \E t \in ClientThread : waiting[t] = i
OverIsWaited ==
  \A r \in Room :
    Mapped(r) =>
      /\ up[rpMap[r]] # "ended"
      /\ up[rpMap[r]] = "draining" => Waited(rpMap[r])
      /\ fault = "none" /\ rpMap[r] \in reported => Waited(rpMap[r])

Parts ==
  /\ Keyed
  /\ Fresh
  /\ WaitsReported
  /\ MappedListenerIsCurrent
  /\ StartedOnce
  /\ ViewerAttached
  /\ ClosedStaysSilent
  /\ OrphanHasReport
  /\ OverIsWaited

IInv == TypeOK /\ Parts

\* Steps that leave the registry, the sessions and the listeners alone, even if
\* the program dies of them.
LEMMA QuietStep ==
  ASSUME IInv,
         UNCHANGED <<rpMap, waiting, msgRoom, room, listeners, up, starts,
                     closed, reported>>,
         fault' = fault \/ fault' # "none",
         \A c \in Conn : sess'[c] = "open" => sess[c] = "open"
  PROVE  Parts'
<1>1. Keyed' /\ Fresh' /\ WaitsReported'
  BY DEF IInv, Parts, Keyed, Fresh, Untouched, WaitsReported, Mapped
<1>2. MappedListenerIsCurrent' /\ StartedOnce'
  BY DEF IInv, Parts, MappedListenerIsCurrent, StartedOnce, Mapped
<1>3. ViewerAttached'
  BY DEF IInv, Parts, ViewerAttached
<1>4. ClosedStaysSilent' /\ OrphanHasReport'
  BY DEF IInv, Parts, ClosedStaysSilent, OrphanHasReport
<1>5. OverIsWaited'
  BY DEF IInv, Parts, OverIsWaited, Waited, Mapped
<1> QED
  BY <1>1, <1>2, <1>3, <1>4, <1>5 DEF Parts

\* Steps of one session's upstream that no viewer and no thread takes part in.
LEMMA UpstreamOnly ==
  ASSUME IInv, NEW i \in Inst, up[i] # "unborn",
         UNCHANGED <<rpMap, fault, waiting, connVars, room, listeners, starts,
                     closed, reported>>,
         \A j \in Inst : j # i => up'[j] = up[j],
         up'[i] \notin {"draining", "ended"} \/ (~Waited(i) /\ up[i] = "draining")
  PROVE  Parts'
<1>1. Keyed' /\ WaitsReported'
  BY DEF IInv, Parts, Keyed, WaitsReported, Mapped
<1>2. Fresh'
  BY DEF IInv, Parts, Fresh, Untouched, TypeOK
<1>3. MappedListenerIsCurrent' /\ StartedOnce' /\ ViewerAttached'
  BY DEF IInv, Parts, MappedListenerIsCurrent, StartedOnce, ViewerAttached, Mapped, connVars
<1>4. ClosedStaysSilent' /\ OrphanHasReport'
  BY DEF IInv, Parts, ClosedStaysSilent, OrphanHasReport
<1>5. OverIsWaited'
  BY DEF IInv, Parts, OverIsWaited, Waited, Mapped, TypeOK
<1> QED
  BY <1>1, <1>2, <1>3, <1>4, <1>5 DEF Parts

\* What a publish by itself does to the listeners breaks no part.
LEMMA PublishParts ==
  ASSUME IInv, NEW i \in Inst, up[i] # "unborn", NEW valid \in BOOLEAN,
         PublishTo(i, valid),
         UNCHANGED <<rpMap, msgRoom, room, starts, closed>>,
         reported' \subseteq reported \cup {i}, reported \subseteq reported',
         fault' = fault \/ fault' # "none",
         \A j \in Inst : j # i => up'[j] = up[j]
  PROVE  /\ Keyed' /\ Fresh' /\ MappedListenerIsCurrent' /\ StartedOnce'
         /\ ViewerAttached' /\ ClosedStaysSilent' /\ OrphanHasReport'
<1> USE DEF IInv, Parts
<1>1. Keyed' /\ StartedOnce'
  BY DEF Keyed, StartedOnce, Mapped
<1>2. Fresh'
  BY PublishFacts DEF Fresh, Untouched, TypeOK
<1>3. MappedListenerIsCurrent'
  BY PublishFacts DEF MappedListenerIsCurrent, Mapped, TypeOK
<1>4. ViewerAttached'
  BY PublishFacts DEF ViewerAttached, TypeOK
<1>5. ClosedStaysSilent'
  BY PublishFacts DEF ClosedStaysSilent, TypeOK
<1>6. OrphanHasReport'
  BY DEF OrphanHasReport
<1> QED
  BY <1>1, <1>2, <1>3, <1>4, <1>5, <1>6

\* A viewer that leaves a room for good, closed or not, leaves the invariant
\* intact as far as it can be said before it arrives anywhere else.
LEMMA LeaveFails ==
  ASSUME IInv, NEW c \in Conn, NEW r \in Rooms, FailLeaving(c, r),
         msgRoom' = msgRoom \/ msgRoom' = [msgRoom EXCEPT ![c] = wants[c]],
         \A q \in Room : Mapped(q) /\ msgRoom' # msgRoom /\ c \in listeners[rpMap[q]]
                           => q = r
  PROVE  Parts'
<1> USE DEF IInv, Parts
<1>1. /\ fault' # "none" /\ rpMap' = rpMap /\ room' = room /\ up' = up
      /\ starts' = starts /\ waiting' = waiting /\ sess' = sess
      /\ listeners' = LeftListeners(c, r) /\ closed' = closed \cup {rpMap[r]}
      /\ Empties(c, r) /\ r \in Room /\ rpMap[r] \in Inst
      /\ reported' \in {reported, reported \cup {rpMap[r]}}
  BY LeftFacts DEF FailLeaving, LeaveFault
<1>2. /\ \A i \in Inst : listeners'[i] \subseteq listeners[i]
      /\ listeners'[rpMap[r]] = {}
  BY <1>1, LeftFacts
<1>3. room[rpMap[r]] = r
  BY <1>1 DEF Keyed, Empties
<1>4. Keyed' /\ StartedOnce' /\ ViewerAttached'
  BY <1>1 DEF Keyed, StartedOnce, ViewerAttached, Mapped
<1>5. Fresh'
  BY <1>1, <1>2, <1>3, NoneAssumption DEF Fresh, Untouched, TypeOK
<1>6. WaitsReported'
  BY <1>1 DEF WaitsReported
<1>7. MappedListenerIsCurrent'
  <2> SUFFICES ASSUME NEW q \in Room, NEW d \in Conn, Mapped(q)',
                      d \in listeners'[rpMap'[q]]
               PROVE  msgRoom'[d] = q
    BY DEF MappedListenerIsCurrent
  <2>1. Mapped(q) /\ d \in listeners[rpMap[q]] /\ rpMap[q] \in Inst
    BY <1>1, <1>2 DEF Mapped, TypeOK
  <2>2. msgRoom[d] = q
    BY <2>1 DEF MappedListenerIsCurrent
  <2>3. CASE d = c /\ msgRoom' # msgRoom
    BY <1>1, <1>2, <2>1, <2>3
  <2>4. CASE ~(d = c /\ msgRoom' # msgRoom)
    BY <2>2, <2>4 DEF TypeOK
  <2> QED
    BY <2>3, <2>4
<1>8. ClosedStaysSilent'
  BY <1>1, <1>2 DEF ClosedStaysSilent, TypeOK
<1>9. OrphanHasReport'
  BY <1>1 DEF OrphanHasReport
<1>10. OverIsWaited'
  BY <1>1 DEF OverIsWaited, Waited, Mapped
<1> QED
  BY <1>4, <1>5, <1>6, <1>7, <1>8, <1>9, <1>10

\* A viewer asks for another room and its handler does not come back.
LEMMA ChangeFailsParts ==
  ASSUME IInv, NEW c \in Conn, ChangeFails(c)
  PROVE  Parts'
<1>1. msgRoom[c] \in Rooms
  BY DEF IInv, TypeOK, Rooms
<1>2. \A q \in Room : Mapped(q) /\ c \in listeners[rpMap[q]] => q = msgRoom[c]
  BY DEF IInv, Parts, MappedListenerIsCurrent
<1> QED
  BY <1>1, <1>2, LeaveFails DEF ChangeFails, ChangeRoom

\* A viewer's connection ends and its close handler does not come back.
LEMMA CloseFailsParts ==
  ASSUME IInv, NEW c \in Conn, CloseFails(c)
  PROVE  Parts'
<1>1. closeRoom[c] \in Rooms
  BY DEF IInv, TypeOK, Rooms
<1> QED
  BY <1>1, LeaveFails DEF CloseFails

\* The parts that leaving a room leaves standing, as a statement about the
\* values that the leaving handler goes on with.
LEMMA LeaveSucceeds ==
  ASSUME IInv, fault = "none", NEW c \in Conn, NEW r \in Rooms
  PROVE  /\ \A q \in Room : LeftMap(c, r)[q] # None =>
              /\ LeftMap(c, r)[q] = rpMap[q] /\ rpMap[q] \in Inst
              /\ room[rpMap[q]] = q
              /\ rpMap[q] \notin LeftClosed(c, r)
         /\ \A i \in LeftClosed(c, r) :
              LeftListeners(c, r)[i] = {} /\ room[i] # None
         /\ \A i \in Inst : room[i] # None /\ i \notin LeftClosed(c, r)
                              /\ LeftMap(c, r)[room[i]] # i
              => \E j \in reported : room[j] = room[i]
<1> USE DEF IInv, Parts
<1>1. ASSUME NEW q \in Room, LeftMap(c, r)[q] # None
      PROVE  /\ LeftMap(c, r)[q] = rpMap[q] /\ rpMap[q] \in Inst
             /\ room[rpMap[q]] = q
             /\ rpMap[q] \notin LeftClosed(c, r)
  <2>1. LeftMap(c, r)[q] = rpMap[q] /\ rpMap[q] \in Inst /\ room[rpMap[q]] = q
    BY <1>1, LeftFacts DEF Keyed, Mapped, TypeOK
  <2>2. rpMap[q] \notin closed
    BY DEF ClosedStaysSilent
  <2>3. Empties(c, r) => q # r
    BY <1>1, LeftFacts
  <2>4. Empties(c, r) => rpMap[q] # rpMap[r]
    BY <2>1, <2>3, LeftFacts DEF Keyed, Empties
  <2> QED
    BY <2>1, <2>2, <2>4, LeftFacts
<1>2. ASSUME NEW i \in LeftClosed(c, r)
      PROVE  LeftListeners(c, r)[i] = {} /\ room[i] # None
  <2>1. CASE i \in closed
    BY <2>1, LeftFacts DEF ClosedStaysSilent, Fresh, Untouched, TypeOK
  <2>2. CASE i \notin closed
    BY <2>2, LeftFacts, NoneAssumption DEF Keyed, Empties
  <2> QED
    BY <2>1, <2>2
<1>3. ASSUME NEW i \in Inst, room[i] # None, i \notin LeftClosed(c, r),
             LeftMap(c, r)[room[i]] # i
      PROVE  \E j \in reported : room[j] = room[i]
  <2>1. i \notin closed /\ room[i] \in Room
    BY <1>3, LeftFacts DEF TypeOK
  <2>2. rpMap[room[i]] # i
    BY <1>3, <2>1, LeftFacts
  <2> QED
    BY <1>3, <2>1, <2>2 DEF OrphanHasReport
<1> QED
  BY <1>1, <1>2, <1>3

\* close() changes the stage of a session only where its socket or websocket
\* is in use.
LEMMA LeftUpFacts ==
  ASSUME TypeOK, NEW c \in Conn, NEW r \in Rooms, NEW i \in Inst
  PROVE  \/ LeftUp(c, r)[i] = up[i]
         \/ up[i] \in {"socket", "open"} /\ LeftUp(c, r)[i] \in {"aborting", "closing"}
BY DEF LeftUp, Empties, Mapped, TypeOK

\* A viewer leaves a room and goes nowhere: its connection has ended and the
\* close handler returns, or its message handler returns after a refusal.
LEMMA LeaveOnly ==
  ASSUME IInv, NEW c \in Conn, NEW r \in Rooms,
         \/ sess' = [sess EXCEPT ![c] = "done"] /\ msgRoom' = msgRoom
         \/ /\ sess' = sess /\ r = msgRoom[c] /\ wants[c] \in BadRoom
            /\ msgRoom' = [msgRoom EXCEPT ![c] = wants[c]],
         fault = "none", UNCHANGED <<fault, room, starts, waiting, reported>>,
         listeners' = LeftListeners(c, r), closed' = LeftClosed(c, r),
         rpMap' = LeftMap(c, r), up' = LeftUp(c, r)
  PROVE  Parts'
<1> USE DEF IInv, Parts
<1>1. r \in Rooms
  OBVIOUS
<1>2. /\ fault = "none" /\ fault' = fault /\ room' = room
      /\ starts' = starts /\ waiting' = waiting /\ reported' = reported
      /\ listeners' = LeftListeners(c, r) /\ closed' = LeftClosed(c, r)
      /\ rpMap' = LeftMap(c, r) /\ up' = LeftUp(c, r)
  OBVIOUS
<1>3. /\ \A i \in Inst : listeners'[i] \subseteq listeners[i]
      /\ \A i \in Inst : listeners[i] \ {c} \subseteq listeners'[i]
  BY <1>1, <1>2, LeftFacts
<1>4. Keyed'
  BY <1>1, <1>2, LeaveSucceeds DEF Keyed, Mapped
<1>5. Fresh'
  <2> SUFFICES ASSUME NEW i \in Inst, room[i] = None PROVE Untouched(i)'
    BY <1>2 DEF Fresh
  <2>1. Untouched(i)
    BY DEF Fresh
  <2>2. up'[i] = "unborn"
    BY <1>1, <1>2, <2>1, LeftUpFacts DEF Untouched
  <2>3. i \notin closed'
    BY <1>1, <1>2, LeaveSucceeds
  <2> QED
    BY <1>2, <1>3, <2>1, <2>2, <2>3 DEF Untouched
<1>6. WaitsReported' /\ StartedOnce'
  BY <1>2 DEF WaitsReported, StartedOnce
<1>7. MappedListenerIsCurrent'
  <2> SUFFICES ASSUME NEW q \in Room, NEW d \in Conn, Mapped(q)',
                      d \in listeners'[rpMap'[q]]
               PROVE  msgRoom'[d] = q
    BY DEF MappedListenerIsCurrent
  <2>1. Mapped(q) /\ rpMap'[q] = rpMap[q] /\ rpMap[q] \in Inst
    BY <1>1, <1>2, LeaveSucceeds DEF Mapped
  <2>2. msgRoom[d] = q
    BY <1>3, <2>1 DEF MappedListenerIsCurrent
  <2>3. d = c /\ q = r => FALSE
    BY <1>2, <2>1 DEF LeftListeners, TypeOK
  <2> QED
    BY <2>2, <2>3 DEF TypeOK
<1>8. ViewerAttached'
  <2> SUFFICES ASSUME NEW d \in Conn, sess'[d] = "open", msgRoom'[d] \in Room
               PROVE  \E j \in Inst : room[j] = msgRoom'[d] /\ d \in listeners'[j]
    BY <1>2 DEF ViewerAttached
  <2>1. d # c /\ sess[d] = "open" /\ msgRoom'[d] = msgRoom[d]
    BY NoneAssumption DEF TypeOK
  <2> QED
    BY <1>2, <1>3, <2>1 DEF ViewerAttached
<1>9. ClosedStaysSilent'
  <2>1. \A i \in closed' : listeners'[i] = {}
    BY <1>1, <1>2, LeaveSucceeds
  <2>2. \A i \in closed', q \in Room : rpMap'[q] # i
    BY <1>1, <1>2, LeaveSucceeds, LeftTypes, NoneAssumption
  <2> QED
    BY <2>1, <2>2 DEF ClosedStaysSilent
<1>10. OrphanHasReport'
  BY <1>1, <1>2, LeaveSucceeds DEF OrphanHasReport
<1>11. OverIsWaited'
  <2> SUFFICES ASSUME NEW q \in Room, Mapped(q)'
               PROVE  /\ up'[rpMap'[q]] # "ended"
                      /\ up'[rpMap'[q]] = "draining" => Waited(rpMap'[q])
                      /\ rpMap'[q] \in reported => Waited(rpMap'[q])
    BY <1>2 DEF OverIsWaited, Waited
  <2>1. Mapped(q) /\ rpMap'[q] = rpMap[q] /\ rpMap[q] \in Inst
    BY <1>1, <1>2, LeaveSucceeds DEF Mapped
  <2> QED
    BY <1>1, <1>2, <2>1, LeftUpFacts DEF OverIsWaited
<1> QED
  BY <1>4, <1>5, <1>6, <1>7, <1>8, <1>9, <1>10, <1>11

\* A viewer that joins a registered room is not among its listeners, so that
\* on_server_message never gets from line 91 of main.cpp to line 109.
LEMMA NeverAgain ==
  ASSUME IInv, NEW c \in Conn, ChangeRoom(c), Mapped(wants[c])
  PROVE  c \notin LeftListeners(c, msgRoom[c])[rpMap[wants[c]]]
<1>1. msgRoom[c] \in Rooms /\ wants[c] \in Room /\ rpMap[wants[c]] \in Inst
  BY DEF IInv, TypeOK, Rooms, Mapped
<1>2. c \in listeners[rpMap[wants[c]]] => msgRoom[c] = wants[c]
  BY <1>1 DEF IInv, Parts, MappedListenerIsCurrent
<1> QED
  BY <1>1, <1>2, LeftFacts DEF ChangeRoom, IInv

\* A viewer's message handler returns: it has joined session i of room r,
\* which was there or is new.
LEMMA ArriveParts ==
  ASSUME IInv, NEW c \in Conn, ChangeSucceeds(c), NEW i \in Inst,
         NEW r \in Room, r = wants[c],
         \/ /\ rpMap[r] = i /\ room' = room /\ starts' = starts
            /\ rpMap' = LeftMap(c, msgRoom[c])
            /\ up' = LeftUp(c, msgRoom[c])
         \/ /\ room[i] = None /\ room' = [room EXCEPT ![i] = r] /\ ~Mapped(r)
            /\ starts' = [starts EXCEPT ![i] = @ + 1]
            /\ rpMap' = [LeftMap(c, msgRoom[c]) EXCEPT ![r] = i]
            /\ up' = [LeftUp(c, msgRoom[c]) EXCEPT ![i] = Started(r)],
         listeners' = [LeftListeners(c, msgRoom[c]) EXCEPT ![i] = @ \cup {c}]
  PROVE  Parts'
<1> USE DEF IInv, Parts
<1> DEFINE old == msgRoom[c]
<1>1. old \in Rooms /\ r # None
  BY NoneAssumption DEF TypeOK, Rooms
<1>2. /\ fault = "none" /\ fault' = fault /\ waiting' = waiting /\ sess' = sess
      /\ reported' = reported /\ closed' = LeftClosed(c, old)
      /\ msgRoom' = [msgRoom EXCEPT ![c] = r] /\ (r = old => ~Mapped(r))
  BY DEF ChangeSucceeds, ChangeRoom
<1>3. \A q \in Room : q # r => rpMap'[q] = LeftMap(c, old)[q]
  BY <1>1, LeftTypes
<1>4. rpMap'[r] = i
  <2>1. CASE rpMap[r] = i /\ rpMap' = LeftMap(c, old)
    BY <1>1, <1>2, <2>1, NoneAssumption, LeftFacts DEF Mapped
  <2>2. CASE rpMap' = [LeftMap(c, old) EXCEPT ![r] = i]
    BY <1>1, <2>2, LeftTypes
  <2> QED
    BY <2>1, <2>2
<1>5. room'[i] = r /\ \A j \in Inst : j # i => room'[j] = room[j]
  BY NoneAssumption DEF Keyed, Mapped, TypeOK
<1>6. /\ listeners'[i] = LeftListeners(c, old)[i] \cup {c}
      /\ \A j \in Inst : j # i => listeners'[j] = LeftListeners(c, old)[j]
  BY <1>1, LeftTypes
<1>7. \A q \in Room : q # r /\ rpMap'[q] # None =>
         /\ rpMap'[q] = rpMap[q] /\ rpMap[q] \in Inst /\ room[rpMap[q]] = q
         /\ rpMap[q] \notin closed' /\ rpMap[q] # i /\ Mapped(q)
  <2>1. room[i] \in {r, None}
    BY NoneAssumption DEF Keyed, Mapped
  <2> QED
    BY <1>1, <1>2, <1>3, <2>1, LeaveSucceeds, NoneAssumption DEF Mapped
<1>8. i \notin closed'
  <2>1. CASE rpMap[r] = i /\ rpMap' = LeftMap(c, old)
    BY <1>1, <1>2, <1>4, <2>1, LeaveSucceeds, NoneAssumption
  <2>2. CASE room[i] = None
    BY <1>1, <1>2, <2>2, LeaveSucceeds
  <2> QED
    BY <2>1, <2>2
<1>9. i \in Inst /\ i # None
  BY NoneAssumption
<1> HIDE DEF old
<1>10. Keyed'
  BY <1>4, <1>5, <1>7, <1>9 DEF Keyed, Mapped
<1>11. Fresh'
  <2> SUFFICES ASSUME NEW j \in Inst, room'[j] = None PROVE Untouched(j)'
    BY DEF Fresh
  <2>1. j # i /\ room[j] = None
    BY <1>1, <1>5
  <2>2. Untouched(j)
    BY <2>1 DEF Fresh
  <2>3. up'[j] = LeftUp(c, old)[j] /\ starts'[j] = starts[j]
    BY <1>1, <2>1, LeftTypes DEF TypeOK, old
  <2>4. up'[j] = "unborn"
    BY <1>1, <2>2, <2>3, LeftUpFacts DEF Untouched
  <2>5. j \notin closed'
    BY <1>1, <1>2, <2>1, LeaveSucceeds
  <2>6. listeners'[j] = {}
    BY <1>1, <1>6, <2>1, <2>2, LeftFacts DEF Untouched
  <2> QED
    BY <1>2, <2>2, <2>3, <2>4, <2>5, <2>6 DEF Untouched
<1>12. WaitsReported'
  BY <1>2 DEF WaitsReported
<1>13. StartedOnce'
  BY DEF StartedOnce, Fresh, Untouched, TypeOK
<1>14. MappedListenerIsCurrent'
  <2> SUFFICES ASSUME NEW q \in Room, NEW d \in Conn, Mapped(q)',
                      d \in listeners'[rpMap'[q]]
               PROVE  msgRoom'[d] = q
    BY DEF MappedListenerIsCurrent
  <2>1. CASE q = r /\ d = c
    BY <1>2, <2>1 DEF TypeOK
  <2>2. CASE q = r /\ d # c
    <3>1. d \in listeners[i]
      BY <1>1, <1>4, <1>6, <2>2, LeftFacts
    <3>2. rpMap[r] = i
      BY <3>1 DEF Fresh, Untouched
    <3> QED
      BY <1>2, <1>9, <2>2, <3>1, <3>2 DEF MappedListenerIsCurrent, Mapped, TypeOK
  <2>3. CASE q # r
    <3>1. /\ rpMap'[q] = rpMap[q] /\ rpMap[q] \in Inst /\ rpMap[q] # i /\ Mapped(q)
      BY <1>7, <2>3 DEF Mapped
    <3>2. d \in listeners[rpMap[q]] /\ d \in LeftListeners(c, old)[rpMap[q]]
      BY <1>1, <1>6, <3>1, LeftFacts
    <3>3. msgRoom[d] = q
      BY <3>1, <3>2 DEF MappedListenerIsCurrent
    <3>4. d # c
      BY <3>1, <3>2, <3>3 DEF LeftListeners, TypeOK, old
    <3> QED
      BY <1>2, <3>3, <3>4 DEF TypeOK
  <2> QED
    BY <2>1, <2>2, <2>3
<1>15. ViewerAttached'
  <2> SUFFICES ASSUME NEW d \in Conn, sess[d] = "open", msgRoom'[d] \in Room
               PROVE  \E j \in Inst : room'[j] = msgRoom'[d] /\ d \in listeners'[j]
    BY <1>2 DEF ViewerAttached
  <2>1. CASE d = c
    BY <1>2, <1>5, <1>6, <2>1 DEF TypeOK
  <2>2. CASE d # c
    <3>1. msgRoom'[d] = msgRoom[d]
      BY <1>2, <2>2 DEF TypeOK
    <3>2. PICK j \in Inst : room[j] = msgRoom[d] /\ d \in listeners[j]
      BY <1>2, <3>1 DEF ViewerAttached
    <3>3. d \in listeners'[j]
      BY <1>1, <1>6, <2>2, <3>2, LeftFacts
    <3>4. room'[j] = room[j]
      BY <1>5, <3>2 DEF Fresh, Untouched
    <3> QED
      BY <3>1, <3>2, <3>3, <3>4
  <2> QED
    BY <2>1, <2>2
<1>16. ClosedStaysSilent'
  <2>1. \A j \in closed' : j \in Inst /\ j # i
    BY <1>1, <1>2, <1>8, LeftTypes
  <2>2. \A j \in closed' : listeners'[j] = {}
    BY <1>1, <1>2, <1>6, <2>1, LeaveSucceeds
  <2>3. \A j \in closed', q \in Room : rpMap'[q] # j
    BY <1>4, <1>7, <2>1, NoneAssumption
  <2> QED
    BY <2>2, <2>3 DEF ClosedStaysSilent
<1>17. OrphanHasReport'
  <2> SUFFICES ASSUME NEW j \in Inst, room'[j] # None, j \notin closed',
                      rpMap'[room'[j]] # j
               PROVE  \E k \in reported : room'[k] = room'[j]
    BY <1>2 DEF OrphanHasReport
  <2>1. j # i /\ room'[j] = room[j] /\ room[j] \in Room
    BY <1>4, <1>5 DEF TypeOK
  <2>2. LeftMap(c, old)[room[j]] # j
    <3>1. CASE room[j] = r
      <4>1. CASE rpMap[r] = i /\ rpMap' = LeftMap(c, old)
        BY <2>1, <3>1, <4>1, <1>4
      <4>2. CASE ~Mapped(r)
        BY <1>1, <2>1, <3>1, <4>2, LeftFacts, NoneAssumption DEF Mapped
      <4> QED
        BY <4>1, <4>2 DEF old
    <3>2. CASE room[j] # r
      BY <1>3, <2>1, <3>2 DEF old
    <3> QED
      BY <3>1, <3>2
  <2>3. PICK k \in reported : room[k] = room[j]
    BY <1>1, <1>2, <2>1, <2>2, LeaveSucceeds
  <2>4. room'[k] = room[k]
    BY <1>5, <2>3 DEF Fresh, Untouched, TypeOK
  <2> QED
    BY <2>1, <2>3, <2>4
<1>18. OverIsWaited'
  <2> SUFFICES ASSUME NEW q \in Room, Mapped(q)'
               PROVE  /\ up'[rpMap'[q]] # "ended"
                      /\ up'[rpMap'[q]] = "draining" => Waited(rpMap'[q])
                      /\ rpMap'[q] \in reported => Waited(rpMap'[q])
    BY <1>2 DEF OverIsWaited, Waited
  <2>1. CASE q = r /\ room[i] = None
    <3>1. up'[i] \in {"resolving", "connecting"}
      BY <1>1, <2>1, LeftTypes, NoneAssumption DEF Started, Keyed, Mapped, old
    <3> QED
      BY <1>4, <2>1, <3>1 DEF Fresh, Untouched
  <2>2. CASE room[i] # None \/ q # r
    <3>1. Mapped(q) /\ rpMap'[q] = rpMap[q] /\ rpMap[q] \in Inst
      BY <1>4, <1>7, <1>9, <2>2 DEF Mapped
    <3>2. up'[rpMap[q]] = LeftUp(c, old)[rpMap[q]]
      BY <1>1, <1>4, <1>7, <2>2, <3>1, LeftTypes DEF Mapped, old
    <3> QED
      BY <1>1, <1>2, <3>1, <3>2, LeftUpFacts DEF OverIsWaited
  <2> QED
    BY <2>1, <2>2
<1> QED
  BY <1>10, <1>11, <1>12, <1>13, <1>14, <1>15, <1>16, <1>17, <1>18

\* Steps that report: a publish, and a thread on its way to rp_rw_mtx.
LEMMA ReportParts ==
  ASSUME IInv, NEW i \in Inst, NEW t \in ClientThread, Report(t, i),
         up[i] \notin {"unborn", "ended"},
         up' = up \/ up' = [up EXCEPT ![i] = "draining"]
  PROVE  Parts'
<1>1. PublishTo(i, TRUE)
  BY DEF Report
<1>2. /\ Keyed' /\ Fresh' /\ MappedListenerIsCurrent' /\ StartedOnce'
      /\ ViewerAttached' /\ ClosedStaysSilent' /\ OrphanHasReport'
  <2>1. \A j \in Inst : j # i => up'[j] = up[j]
    BY DEF IInv, TypeOK
  <2> QED
    BY <1>1, <2>1, PublishParts DEF Report
<1>3. waiting[t] = None /\ waiting' = [waiting EXCEPT ![t] = i]
  BY DEF Report
<1>4. WaitsReported'
  BY <1>3 DEF Report, IInv, Parts, WaitsReported, TypeOK
<1>5. \A j \in Inst : (Waited(j) \/ j = i) => Waited(j)'
  BY <1>3, NoneAssumption DEF Waited, IInv, TypeOK
<1>6. OverIsWaited'
  <2> SUFFICES ASSUME NEW q \in Room, Mapped(q)'
               PROVE  /\ up'[rpMap'[q]] # "ended"
                      /\ up'[rpMap'[q]] = "draining" => Waited(rpMap[q])'
                      /\ fault' = "none" /\ rpMap'[q] \in reported' => Waited(rpMap[q])'
    BY DEF OverIsWaited, Waited
  <2>1. /\ Mapped(q) /\ rpMap'[q] = rpMap[q] /\ rpMap[q] \in Inst /\ fault' = fault
        /\ reported' = reported \cup {i}
    BY DEF Report, Mapped, IInv, TypeOK
  <2>2. CASE rpMap[q] = i
    BY <1>5, <2>1, <2>2 DEF IInv, TypeOK
  <2>3. CASE rpMap[q] # i
    BY <1>5, <2>1, <2>3 DEF IInv, Parts, OverIsWaited, TypeOK
  <2> QED
    BY <2>2, <2>3
<1> QED
  BY <1>2, <1>4, <1>6 DEF Parts

\* The callback erases by name: it takes away whatever is registered for the
\* room of a session that reported.
LEMMA OnPlatformCloseParts ==
  ASSUME IInv, NEW t \in ClientThread, OnPlatformClose(t)
  PROVE  Parts'
<1> USE DEF IInv, Parts
<1> DEFINE i == waiting[t]
<1>1. i \in Inst /\ i \in reported
  BY DEF OnPlatformClose, WaitsReported, TypeOK
<1>2. room[i] \in Room
  BY <1>1, NoneAssumption DEF Fresh, Untouched, TypeOK
<1>3. /\ fault = "none" /\ fault' = fault /\ sess' = sess /\ msgRoom' = msgRoom
      /\ room' = room /\ listeners' = listeners /\ starts' = starts
      /\ closed' = closed /\ reported' = reported
      /\ waiting' = [waiting EXCEPT ![t] = None]
      /\ rpMap' = [rpMap EXCEPT ![room[i]] = None]
      /\ up' = [up EXCEPT ![i] = IF @ = "open" THEN "closing" ELSE @]
  BY DEF OnPlatformClose, connVars
<1>4. \A q \in Room : Mapped(q)' => /\ Mapped(q) /\ rpMap'[q] = rpMap[q]
                                    /\ q # room[i] /\ rpMap[q] # i /\ rpMap[q] \in Inst
  BY <1>1, <1>2, <1>3 DEF Mapped, Keyed, TypeOK
<1> HIDE DEF i
<1>5. Keyed' /\ WaitsReported' /\ StartedOnce' /\ ViewerAttached'
  BY <1>3, <1>4 DEF Keyed, WaitsReported, StartedOnce, ViewerAttached, TypeOK
<1>6. Fresh'
  BY <1>1, <1>3 DEF Fresh, Untouched, TypeOK
<1>7. MappedListenerIsCurrent'
  BY <1>3, <1>4 DEF MappedListenerIsCurrent
<1>8. ClosedStaysSilent'
  BY <1>1, <1>3, <1>4, NoneAssumption DEF ClosedStaysSilent, Mapped, TypeOK
<1>9. OrphanHasReport'
  BY <1>1, <1>2, <1>3 DEF OrphanHasReport, TypeOK
<1>10. OverIsWaited'
  <2> SUFFICES ASSUME NEW q \in Room, Mapped(q)'
               PROVE  /\ up'[rpMap'[q]] # "ended"
                      /\ up'[rpMap'[q]] = "draining" => Waited(rpMap[q])'
                      /\ rpMap'[q] \in reported' => Waited(rpMap[q])'
    BY DEF OverIsWaited, Waited
  <2>1. \A j \in Inst : j # i /\ Waited(j) => Waited(j)'
    BY <1>3 DEF Waited, TypeOK, i
  <2>2. up'[rpMap[q]] = up[rpMap[q]]
    BY <1>3, <1>4 DEF TypeOK
  <2> QED
    BY <1>3, <1>4, <2>1, <2>2 DEF OverIsWaited
<1> QED
  BY <1>5, <1>6, <1>7, <1>8, <1>9, <1>10

\* A publish that is not part of a report.
LEMMA PublishOnlyParts ==
  ASSUME IInv, NEW i \in Inst, NEW valid \in BOOLEAN, PublishTo(i, valid),
         up[i] # "unborn",
         UNCHANGED <<rpMap, msgRoom, room, starts, closed, reported, up, waiting>>,
         fault' = fault \/ fault' # "none"
  PROVE  Parts'
<1>1. /\ Keyed' /\ Fresh' /\ MappedListenerIsCurrent' /\ StartedOnce'
      /\ ViewerAttached' /\ ClosedStaysSilent' /\ OrphanHasReport'
  BY PublishParts
<1>2. WaitsReported'
  BY DEF IInv, Parts, WaitsReported
<1>3. OverIsWaited'
  BY DEF IInv, Parts, OverIsWaited, Mapped, Waited
<1> QED
  BY <1>1, <1>2, <1>3 DEF Parts

-----------------------------------------------------------------------------
(* The invariant holds at first and is kept by every step.                  *)

\* At the start nothing is registered.
LEMMA IInvInit == Init => IInv
<1> SUFFICES ASSUME Init PROVE IInv
  OBVIOUS
<1>1. TypeOK
  BY BoundAssumption DEF Init, TypeOK, SessState, UpState
<1>2. \A r \in Room : ~Mapped(r)
  BY DEF Init, Mapped
<1>3. Keyed /\ MappedListenerIsCurrent /\ OverIsWaited
  BY <1>2 DEF Keyed, MappedListenerIsCurrent, OverIsWaited
<1>4. Fresh /\ WaitsReported /\ StartedOnce
  BY DEF Init, Fresh, Untouched, WaitsReported, StartedOnce
<1>5. ViewerAttached
  BY NoneAssumption DEF Init, ViewerAttached
<1>6. ClosedStaysSilent /\ OrphanHasReport
  BY DEF Init, ClosedStaysSilent, OrphanHasReport
<1> QED
  BY <1>1, <1>3, <1>4, <1>5, <1>6 DEF IInv, Parts

\* Every step of a server thread keeps the invariant.
LEMMA ServerParts ==
  ASSUME IInv, NEW c \in Conn, ServerStep(c)
  PROVE  Parts'
<1>1. ASSUME NEW r \in Room \cup BadRoom, Receive(c, r) PROVE Parts'
  BY <1>1, QuietStep DEF Receive, instVars
<1>2. CASE StayInRoom(c)
  BY <1>2, QuietStep DEF StayInRoom, instVars
<1>3. CASE ChangeFails(c)
  BY <1>3, ChangeFailsParts
<1>4. CASE JoinRoom(c)
  <2>1. wants[c] \in Room /\ rpMap[wants[c]] \in Inst /\ Mapped(wants[c])
        /\ ChangeRoom(c) /\ ChangeSucceeds(c) /\ room' = room
    BY <1>4 DEF JoinRoom, Mapped, IInv, TypeOK, ChangeSucceeds
  <2>2. c \notin LeftListeners(c, msgRoom[c])[rpMap[wants[c]]]
    BY <2>1, NeverAgain
  <2>3. /\ listeners' = [LeftListeners(c, msgRoom[c])
                           EXCEPT ![rpMap[wants[c]]] = @ \cup {c}]
        /\ rpMap' = LeftMap(c, msgRoom[c]) /\ up' = LeftUp(c, msgRoom[c])
        /\ starts' = starts
    BY <1>4, <2>2 DEF JoinRoom
  <2> QED
    BY <2>1, <2>3, ArriveParts
<1>5. ASSUME NEW i \in Inst, OpenRoom(c, i) PROVE Parts'
  BY <1>5, ArriveParts DEF OpenRoom, Attach
<1>6. CASE RefuseRoom(c)
  <2>1. msgRoom[c] \in Rooms
    BY DEF IInv, TypeOK, Rooms
  <2> QED
    BY <1>6, <2>1, LeaveOnly DEF RefuseRoom, ChangeSucceeds, ChangeRoom
<1>7. CASE Lose(c)
  BY <1>7, QuietStep DEF Lose, instVars, IInv, TypeOK
<1>8. CASE CloseUnhandled(c)
  BY <1>8, QuietStep DEF CloseUnhandled, instVars, IInv, TypeOK
<1>9. CASE CloseFails(c)
  BY <1>9, CloseFailsParts
<1>10. CASE OnServerClose(c)
  <2>1. closeRoom[c] \in Rooms
    BY DEF IInv, TypeOK, Rooms
  <2> QED
    BY <1>10, <2>1, LeaveOnly DEF OnServerClose
<1> QED
  BY <1>1, <1>2, <1>3, <1>4, <1>5, <1>6, <1>7, <1>8, <1>9, <1>10
     DEF ServerStep, OnServerMessage

\* Every step of a client thread keeps the invariant.
LEMMA ClientParts ==
  ASSUME IInv, NEW i \in Inst, ClientStep(i)
  PROVE  Parts'
<1>1. CASE UpstreamStep(i)
  BY <1>1, UpstreamOnly DEF UpstreamStep, Progress, IInv, TypeOK
<1>2. CASE Login(i)
  BY <1>2, QuietStep DEF Login, connVars
<1>3. ASSUME NEW valid \in BOOLEAN, Publish(i, valid) PROVE Parts'
  BY <1>3, PublishOnlyParts DEF Publish
<1>4. ASSUME NEW t \in ClientThread, FinalReport(t, i) PROVE Parts'
  BY <1>4, ReportParts DEF FinalReport
<1>5. ASSUME NEW t \in ClientThread, ExtraReport(t, i) PROVE Parts'
  BY <1>5, ReportParts DEF ExtraReport
<1>6. CASE NullTimer(i)
  <2>1. CASE up[i] = "terminated"
    BY <1>6, <2>1, PublishOnlyParts DEF NullTimer
  <2>2. CASE up[i] # "terminated"
    BY <1>6, <2>2, QuietStep DEF NullTimer
  <2> QED
    BY <2>1, <2>2
<1>7. CASE End(i)
  BY <1>7, UpstreamOnly DEF End, Waited, IInv, TypeOK
<1> QED
  BY <1>1, <1>2, <1>3, <1>4, <1>5, <1>6, <1>7 DEF ClientStep

\* The whole invariant is kept.
LEMMA IInvStep == IInv /\ [Next]_vars => IInv'
<1> SUFFICES ASSUME IInv, [Next]_vars PROVE IInv'
  OBVIOUS
<1>1. TypeOK'
  BY TypeStep DEF IInv
<1>2. CASE UNCHANGED vars
  <2>1. /\ UNCHANGED <<rpMap, fault, waiting, msgRoom, room, listeners, up, starts,
                       closed, reported>>
        /\ sess' = sess
    BY <1>2 DEF vars, connVars, instVars
  <2>2. Parts'
    BY <2>1, QuietStep
  <2> QED
    BY <1>1, <2>2 DEF IInv
<1>3. ASSUME NEW c \in Conn, ServerStep(c) PROVE Parts'
  BY <1>3, ServerParts
<1>4. ASSUME NEW i \in Inst, ClientStep(i) PROVE Parts'
  BY <1>4, ClientParts
<1>5. ASSUME NEW t \in ClientThread, OnPlatformClose(t) PROVE Parts'
  BY <1>5, OnPlatformCloseParts
<1> QED
  BY <1>1, <1>2, <1>3, <1>4, <1>5 DEF Next, IInv

\* The invariant holds in every state of the registry.
THEOREM Inductive == Spec => []IInv
BY IInvInit, IInvStep, PTL DEF Spec

\* A listener of a registered session has that session's room bound into its
\* message handler (main.cpp:76-94).
THEOREM ListenersAreCurrent == Spec => []MappedListenerIsCurrent
<1>1. IInv => MappedListenerIsCurrent
  BY DEF IInv, Parts
<1> QED
  BY <1>1, Inductive, PTL

\* start() runs at most once on a session (main.cpp:109-114).
THEOREM NoSecondStart == Spec => []StartedOnce
<1>1. IInv => StartedOnce
  BY DEF IInv, Parts
<1> QED
  BY <1>1, Inductive, PTL

\* An open viewer whose room was accepted is a listener of a session of that
\* room (main.cpp:89-114).
THEOREM ViewersAreAttached == Spec => []ViewerAttached
<1>1. IInv => ViewerAttached
  BY DEF IInv, Parts
<1> QED
  BY <1>1, Inductive, PTL

\* A session that close() was called on gets no listener any more
\* (main.cpp:47-49, 84-87).
THEOREM ClosedIsFinal == Spec => []ClosedStaysSilent
<1>1. IInv => ClosedStaysSilent
  BY DEF IInv, Parts
<1> QED
  BY <1>1, Inductive, PTL

\* A session lost to the registry without close() was erased by name, for a
\* report of a session of its room (main.cpp:33-37).
THEOREM OrphansAreReported == Spec => []OrphanHasReport
<1>1. IInv => OrphanHasReport
  BY DEF IInv, Parts
<1> QED
  BY <1>1, Inductive, PTL

\* rp_map keeps no session that is over (dmp_cs.hpp:34-43, main.cpp:33-37).
THEOREM NoDeadSession == Spec => []DeadIsUnmapped
<1>1. IInv => DeadIsUnmapped
  BY DEF IInv, Parts, OverIsWaited, DeadIsUnmapped, Waited
<1> QED
  BY <1>1, Inductive, PTL
=============================================================================
