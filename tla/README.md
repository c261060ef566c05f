# DMProxy in TLA+

DMProxy takes live-chat ("danmu") streams of four platforms and passes them on
to viewers.  A viewer opens a websocket to the proxy and sends a room string,
`platform_roomid`; the proxy keeps one *session* per room, an object that holds
the upstream connection and the set of viewers who listen, and publishes every
chat message to them.  These modules describe the program's own code, about
2,500 lines in `src/main.cpp`, `src/platforms`, `src/network` and `src/utils`.

## 1. Inventory

### Threads and locks

Server threads run `server_io_service`: the websocket handlers of the viewers,
one handler of a connection at a time (websocketpp puts them on a strand).
Client threads (3 by default) run `platform_io_service`: the resolver, socket,
timer and websocket handlers of all sessions; the tcp sessions have no strand,
so two handlers of one session may overlap.  `rp_rw_mtx` guards the registry and
`m_lmtx` of each session guards its listeners; both are non-recursive
`boost::shared_mutex`.  Server threads take `rp_rw_mtx` first and `m_lmtx`
inside it; a report takes and releases `m_lmtx` and then takes `rp_rw_mtx`.

### Components

| component | state | operations | correct means |
|---|---|---|---|
| registry (`main.cpp`) | `rp_map`; the room string bound into each viewer's message handler and close handler | `on_server_message`, `on_server_close`, `on_platform_close` | a viewer is a listener of the room it asked for; a session is started once, closed only when empty, not kept when dead |
| listeners (`platform_base.cpp`) | `m_listeners`, `m_close_callback` | add, erase, have, count, publish | operations look atomic; only viewers that cannot be sent to are dropped; no deadlock but that of `close()` |
| reports (`dmp_cs.hpp`) | none | the macros that publish a reason and call the close callback | a report ends a session, and ends it once |
| douyu (`douyu.cpp`) | socket, heartbeat timer, outstanding operations | resolve, connect, read header, read data, write, heartbeat, close | one read at a time; heartbeats go on; each message is published once; close ends it |
| bilibili (`bilibili.cpp`) | the same, and the HTTP request before it | HTTP exchange, second resolve, then as douyu | the same |
| huajiao (`huajiao.cpp`) | websocket handle, `conn_info` flags | open, fail, message, close | handshake, login and join each once and in order |
| YY (`YY.cpp`) | websocket handle, `m_hb_timer` | open, fail, message, close, heartbeat | login, init, join; one timer |
| room strings, stt, base64, gzip, md5, rc4 | none | pure functions | parsing undoes formatting |
| generated protobuf, json11, websocketpp | vendored | | not the subject; modelled from how they are used |

### How they interact

- A viewer's message leaves the old room (erase the listener; when none is left
  `close()` the session and erase it from the map) and joins the new one (add a
  listener to the session of the map, or create, register and start one).
- A session that fails *reports*: it publishes the reason to its listeners and
  calls `on_platform_close(room)`, which erases whatever session is under that
  name.  Every operation that fails reports, so a dying session reports several
  times.
- `publish` sends to each listener; on an error it closes that connection and
  drops the listener.  A viewer's connection that goes down calls
  `on_server_close` with the room of the session that the viewer *created*; a
  viewer that only ever joined rooms that existed has no close handler.

### What is hard here

Reports arrive late and name a room, not a session.  Handlers keep room names
from earlier messages.  Publishing, reporting and closing overlap on different
threads.  `close()` takes effect at different stages of a connection, and in the
websocket sessions it can report while `rp_rw_mtx` is held.  The full list, with
lines, is under `hazards` in `PROJECT.json`.

## 2. Modules

| module | models | kind |
|---|---|---|
| `Proxy` | registry, listeners as atomic operations, and the stages of every session | the core |
| `ProxyProofs` | theorems about `Proxy` | proofs |
| `ListenerSet` | the listeners of one session with atomic operations | abstract specification |
| `Listeners` | the same under the two mutexes, access by access | implements `ListenerSet` |
| `ListenersProofs` | theorems about `Listeners`, among them that it implements `ListenerSet` | proofs |
| `TcpSession` | the stages of a douyu or bilibili session, as `Proxy` uses them | abstract specification |
| `AsyncOps` | the operations of Boost.Asio a tcp session starts, and its socket | instantiated by `Douyu`, `Bilibili` |
| `Douyu` | the handlers of a douyu session | implements `TcpSession` |
| `DouyuProofs` | theorems about `Douyu`, among them that it implements `TcpSession` | proofs |
| `Bilibili` | the handlers of a bilibili session | implements `TcpSession` |
| `BilibiliProofs` | theorems about `Bilibili`, among them that it implements `TcpSession` | proofs |
| `WsSession` | the stages of a huajiao or YY session, as `Proxy` uses them | abstract specification |
| `WsClient` | one client connection of websocketpp | instantiated by `Huajiao`, `YY` |
| `Huajiao` | the handlers of a huajiao session | implements `WsSession` |
| `HuajiaoProofs` | theorems about `Huajiao`, among them that it implements `WsSession` | proofs |
| `YY` | the handlers and timers of a YY session | implements `WsSession` |
| `YYProofs` | theorems about `YY`, among them that it implements `WsSession` | proofs |
| `MCProxy`, `MCListeners`, `MCDouyu`, `MCBilibili`, `MCHuajiao`, `MCYY` | instances for TLC | |

A definition named `X_Word`, with the comment "Faulty variant", is a plausible
mistake in `X`.  It is not part of the specification: it is what a property is
tested against.

### Proxy

`rpMap`, `msgRoom`, `closeRoom`, `listeners` are the variables of the code.
`room` is what a session would pass to its close callback.  `up` is the stage of
a session: `resolving`, `socket` (an open tcp socket), `aborting` (its socket was
closed by `close()`), `connecting`, `open`, `closing`, `terminated` (the
websocket stages), `draining` (its end has been reported, handlers remain),
`ended`.  `waiting[t]` is the session for which client thread `t` is inside
`on_platform_close`, waiting for the mutex.

- A handler of `main.cpp` holds `rp_rw_mtx` from its first look at the map to its
  end, so it is one action (`StayInRoom`, `JoinRoom`, `OpenRoom`, `RefuseRoom`,
  `OnServerClose`).  The time before it gets the mutex is between `Receive` and
  that action.
- A report is two actions, `FinalReport` or `ExtraReport` and `OnPlatformClose`.
- `publish` is one action.  A connection that goes down between two of its sends
  commutes with the sends before it, and `Listeners` takes the loop apart.
- `fault` records that a handler never came back: `deadlock` when `close()` of a
  websocket session reports under `rp_rw_mtx`, after which no handler of the
  registry runs, and `crash` when YY's null timer is used.
- `wants` ranges over well-formed room strings.  A malformed one is answered and
  changes nothing.
- `client.get_connection` never fails for the fixed upstream addresses, so the
  report at the start of a websocket session is left out.

### Listeners and ListenerSet

Each handler is a thread that steps through taking `rp_rw_mtx`, finding the
session, taking and releasing `m_lmtx` for each operation, and returning.  A
client thread steps through `publish`, one send and one erase at a time, and
may go on to `on_platform_close`.  Who holds a mutex follows from where the
threads are.  `Platform` says whose `close()` it is: that of huajiao and YY may find
the connection not open and report the error, which publishes and then waits for
`rp_rw_mtx` that its own caller holds (`CloseReports`, `ClosePublished`, and no step
after that), and that of YY may use a null timer (`CloseCrashes`).  A waiting writer keeps new readers out, as in
`boost::shared_mutex`; without that, two publishers could starve a writer.
The refinement mapping: a leaving viewer counts as a listener until its handler
has counted, and the session is closed and unmapped from the moment the count
was zero, also when `close()` then hangs or crashes: nobody looks at `rp_map` after
that.

### AsyncOps, Douyu and TcpSession

`ops` (`AsyncOps`) counts the asynchronous operations of each kind that are
started, done and failed; a free thread takes any done or failed one and runs its handler.
Closing the socket fails what is started on it and what is started later.
Handlers are split where another thread can come in between with an effect:
after the next read has been started, after publishing a report, before and
after closing the socket and cancelling the timer, and between the heartbeat's
write and the setting of the timer.  Setting it is one step (`Arm`), although
`expires_from_now` and `async_wait` are two calls, which two threads may interleave:
that leaves two waits pending instead of one and one cancelled, and no property
tells these apart.  `close()` is two steps of a server thread,
under `rp_rw_mtx`, and is called only while the session is registered.  Chat
messages are numbers; a frame has at least one byte of data.
The refinement mapping `Stage` computes the stage of the session from its
operations, its socket and whether a failure has been reported.

### Bilibili

The same operations, more of them: the HTTP exchange is a chain of six
(`resolve` to `content`), after which the socket is closed, a second host is
resolved and the socket opened again; what was read for the request is
forgotten then, as nothing reads it any more.  The body of the response is a
number of chunks (`Body`), of which some may be read together with the header and
are thrown away (`lost`); the rest stays in the buffer, which is appended to
`m_live_msg` (`live`) as a whole whenever a chunk arrives.  `ParsedBody` says
what saves this: what is parsed ends with the complete buffer.  That the parser
takes several copies of a document, or a truncated one, for an error is part of
the choice in `HandleEof`, which may report for any content.
A handler of a read reports before it closes the socket and, unlike douyu's,
starts the next read first, so a failing one leaves another behind it.

### WsClient and WsSession

`conn` is `m_state` of the connection and `over` the way it ended; `strand` is
the thread that runs one of the connection's handlers.  Sends and closes succeed
while `conn` is `open` and only then.  `over` becomes `told` when the fail or
close handler has been called.  `WsSession` is what `Proxy` takes a websocket
session to be: `Progress`, `Login`, `Publish`, `FinalReport`, `ExtraReport`,
`NullTimer`, `OnPlatformClose` and what `close()` does are the actions of `Proxy`
restricted to one session.  Writing it showed two behaviours that `Proxy` did
not have and now has: a connection closes on the upstream's close frame, and YY
uses its null timer also when an answer to `init` fails.

### Huajiao

The flags of `conn_info` are variables of their own.  Each frame goes through the parser
that the flags select (`HandleBinaryMessage`), then its messages are published
one by one (`ParseJsonMessage`) and then `Answer` reads the flags again and
chooses what to send.  These are separate steps, so that only the strand keeps
two frames apart; `todo` and `frame` are kept for each thread for the same
reason.  `handle` says whether `start()` has returned and assigned `chdl`.

### YY

Every `set_timer` makes a timer of its own; `hb` is the one that `m_hb_timer`
points to.  Timers are not on the strand, so heartbeats overlap messages, the
close handler and each other.  A timer that has expired when it is cancelled
calls its handler without an error.  A message's error does not end its handler:
`ec` remembers it, `then` says where the handler goes on.  `close()` is two
steps under `rp_rw_mtx`.  The read of the pointer `m_hb_timer` by `close()`,
which races with its assignment, sees the old or the new one.

## 3. Runs

| run | instance | shows |
|---|---|---|
| `proxy_rooms` | 2 viewers, a douyu room, a bilibili room, a refused one, 2 sessions, 1 client thread | type and six safety invariants of the registry |
| `proxy_ws` | 2 viewers, 2 sessions, a huajiao and a YY room, one extra report per session | attachment, silence of closed sessions and no dead sessions, with the faults |
| `proxy_live` | 3 viewers, a douyu and a huajiao room, 1 session, one extra report | a dead listener is dropped while its session speaks; `close()` of a connected session ends it |
| `proxy_kick` (violation) | 2 viewers, a YY room | `publish` closes healthy viewers after one failed send |
| `listeners` | a YY session, 2 handlers, 1 publisher, 2 viewers | atomicity, close only when empty; everybody finishes, but for those who wait for `rp_rw_mtx` when `close()` hangs on it |
| `listeners_race` (violation) | 1 handler, 1 publisher | `publish` writes under the shared lock |
| `douyu` | 2 client threads, 2 messages | one read, heartbeats, exactly-once publication, `TcpSession` |
| `douyu_single` | 1 client thread, 3 messages | order of publication; `close()` ends the session |
| `douyu_report` (violation) | 1 client thread, 1 message | a reported end that is not one |
| `bilibili` | 2 client threads, a body of 2 chunks, 2 messages | one step at a time, heartbeats, exactly-once publication, the body, `TcpSession`, `close()` during the request |
| `yy` | 2 client threads, 2 requests to log in | chains of heartbeats, reports, `WsSession`, `close()` |
| `huajiao` | 2 client threads, 6 frames of up to 2 messages | what is sent and when, order of publication, `WsSession`, `close()` |

### Bounds

- Two viewers are enough for a session to be shared, for one to leave while the
  other stays and for a failed send to precede a healthy one.  In `proxy_live`
  there are three, so that a session can keep a healthy listener besides two
  that change.
- Two sessions are enough for one to replace another in a room while the first
  still has a report to make.  Sessions are not reused: when all of `Inst` have
  been created no room is opened any more.  The theorems hold for any number.
- `MaxExtra` bounds the reports of a session besides its final one.  It is 0 in
  `proxy_rooms` (1 makes the run six times as large), so that TLC sees several
  reports of one tcp session only in `proxy_live`, where there is no successor
  for them to erase; the theorems hold for any number.
- `MaxMsg` bounds the messages of the upstream.  Two can be handled at once by
  two threads; three show an order.
- `MaxWrites` bounds the outstanding writes with which the timer still expires:
  two overlapping writes are in.
- `Body` = 2 chunks: one can be lost with the header and one kept, or both kept
  and the first appended twice.
- `MaxLogins` = 2 gives two chains of heartbeats, of which `m_hb_timer` forgets
  one.
- `MaxFrames` = 6: a handshake, a stray frame, a login response, a frame that
  makes the session join, and two with messages.
- Symmetry is used in the safety runs only, for sessions and client threads.
  Viewers are never symmetric: their order is that of the set of listeners.
- No run checks for deadlock.  In `Proxy` and the sessions nothing need happen when
  all viewers have left and all sessions have ended, or after a fault.  In
  `Listeners` the program may have crashed, or every thread may wait for
  `rp_rw_mtx` that a hanging `close()` keeps; that nothing else stops a thread is
  what `ThreadsFinish` says.

### Fairness

- `Proxy`: a waiting report gets the mutex, an aborted operation calls its
  handler, a closing websocket goes down (the library's closing handshake has a
  timeout), handlers return, a running upstream sends chat now and then.
  Nothing is assumed of viewers, of resolves, or of an upstream nobody closed.
- `Listeners`: until a crash every thread goes on, and a mutex that becomes free again and
  again is granted to each thread that waits (strong fairness, which
  `boost::shared_mutex` gives).  No handler need ever start.
- `Douyu`, `Bilibili`: a free thread takes a handler that is due, a handler goes on, `close()`
  is finished, the timer expires.  The network need not complete anything.
  `Punctual` says that 45 seconds are enough to run the handlers that are due;
  the liveness run assumes it, the safety run does not.
- `Huajiao`, `YY`: a handler goes on and returns, the handlers of the
  connection's end and of timers are called, `start()` returns, timers expire, a
  closing connection goes down.  No frame need ever come, no connection open.

## 4. Findings

1. `publish` keeps the error code of one send for the next
   (`platform_base.cpp:39-44`): after one dead listener, every later one is closed
   and dropped.
2. `publish` erases from the set of listeners under the shared lock
   (`platform_base.cpp:40`, `49-51`).
3. A douyu message without its final `'\0'` is reported as a closed connection,
   and the session, off the registry, reads on (`douyu.cpp:120-125`).

Other behaviour the models show, which no document of the program contradicts:

- `on_platform_close` erases by name, so the late reports of a session that was
  closed unregister its successor.  `OrphanHasReport` says that this is the only
  way a running session is lost.
- `close()` of a websocket session that is not open stops the registry for ever,
  and of a YY session that has not logged in crashes (`fault`).  Threads that do not
  need `rp_rw_mtx`, such as publishes of other sessions, go on (`ThreadsFinish`).
- A `close()` of a bilibili session may close the socket during the second resolve
  and come to the timer only when the socket has been opened again and the timer
  set.  The handler of the cancelled wait then reports and closes the socket, so
  that this ends the session after all; `HeartbeatGoesOn` has it as its exception.
- `close()` while a host is being resolved has no effect.
- With two client threads douyu's chat can be published out of order, and a
  heartbeat's handler can set the timer after it was cancelled, so that a closed
  session lives on for another 45 seconds.  `InOrder` and `CloseEnds` hold with
  one thread only, and so does the assumption of `proxy_live` that a session
  which drains will end.
- A second request of YY's upstream to log in starts a chain of heartbeats that
  `close()` cannot cancel; it ends at its next heartbeat, when the send fails
  (`CloseEnds` of `YY`).
- After an error YY's handler of a message goes on with the message and may
  report again; an answer to `init` that fails before any login crashes.
- A huajiao session logs in again for each frame that is not yet the login
  response.
- `chdl` (`huajiao.cpp:44`) is assigned late but never needed early: it is read
  only after a report, and the report waits until `start()` has returned.
- What bilibili reads of the body together with the header is lost, and the
  rest is appended more than once when it comes in more than one piece.
- `close()` of a bilibili session after the body has been read is forgotten: the
  socket is opened again (`bilibili.cpp:265`).

## 5. Proofs

`ProxyProofs` proves, for any sets of viewers, rooms, sessions and client threads
and any `MaxExtra`, that every safety invariant of `proxy_rooms` holds of `Spec`:
`TypeOK`, `MappedListenerIsCurrent`, `StartedOnce`, `ViewerAttached`,
`ClosedStaysSilent`, `OrphanHasReport`, `DeadIsUnmapped`.  The assumptions are those
of `Proxy`: viewers are numbered (the order of the set of listeners), every room
has a platform, `None` is nothing else, refused rooms are not rooms.

The properties do not support each other as they stand.  The inductive invariant
`IInv` is `TypeOK` and `Parts`, and `Parts` adds:

- `Keyed`: the session under a room string is a session of that room.  Without
  it `on_platform_close` could erase the entry of another room.
- `Fresh`: a session that has not been created is untouched, so that `OpenRoom`
  starts it for the first time and a closed session is never reopened.
- `WaitsReported`: a thread in `on_platform_close` stands for a session that has
  reported, which is what `OrphanHasReport` needs when the entry goes.
- `OverIsWaited`: a registered session that drains, or has reported, has a
  thread on its way to erase it; the strengthening of `DeadIsUnmapped`.

The argument: first type correctness, with one lemma for what leaving a room
does (`Left...`) and one for what publishing does.  Then one lemma for each
group of actions shows that it preserves `Parts`: steps that leave registry and
sessions alone, a room left and another joined, opened or refused, a close
handler, a publish, a report and the callback.  `StartedOnce` rests on
`MappedListenerIsCurrent`: the branch of `main.cpp:91-94` that would start a
session again is only reached by a listener of the new room, and such a viewer
has the room in its message handler and returned at line 75 already, or has just
been erased.

`HuajiaoProofs` proves for any client threads, batches and number of frames that
`TypeOK`, `Protocol` and `InOrder` hold of `Huajiao`'s `Spec`.  The assumptions are
those of `Huajiao`: batches and `MaxFrames` are numbers and `None` is no thread.
`TypeOK` says that a handler which is not idle runs on the strand, so the other
threads are idle; everything else rests on that.  `IInv` adds:

- `Queued`: what a handler has still to publish is in order, comes after all that
  was published, and is there only between parsing and the last publish.  This is
  what makes `InOrder` inductive: a new frame is numbered after all messages, and
  none is left over when it comes.
- `Stages`: the flags are set in the order handshake, login, join, and a handler
  about to log in or to join still finds the flags as it read them.
- `Begun`: while the connection is being opened no handler runs, nothing was sent
  and no flag is set; it ends before its end is reported.
- `Talk`: what `Protocol` says of `sent`, and that an open connection has sent
  the handshake, or is about to, and after the handshake's response has logged
  in, or is about to.  Without the last a request to join might come second.

One lemma for each part shows that every step preserves it; a packet that is sent
has a lemma for each of the three kinds.

That `Huajiao` implements `WsSession` needs one more invariant, `Ends`: the
connection is closed exactly when its end is known, only the handler of that end
runs after it, and a handler that reports before it has found the connection
closing.  So every report is of a kind and in a stage that `WsSession` has: a
`FinalReport` of the end, an `ExtraReport` of a failed send while `closing`.

`ListenersProofs` proves for any viewers and threads that `TypeOK`, `ClosedIsEmpty`
and `Locks` (what the two mutexes are for) hold of `Listeners`' `Spec`, and that
`Spec` implements `ListenerSet`.  The assumptions are those of `Listeners`: viewers
are numbered, the two kinds of threads are different, `None` is nothing else.
`IInv` is `TypeOK`, `ClosedIsEmpty`, `Locks` and

- `Roles`: server threads run handlers, each for a viewer, client threads publish.
- `Found`: a handler that has found the session holds `rp_rw_mtx`, so the session
  is still in `rp_map`, and a session in it is closed only while the thread that
  called `close()` has not come back from it.
- `Counted`: nobody joins between a handler's erase and its count, so the count
  that leads to `close()` is not out of date when `close()` is called.
- `Failing`: the listeners that a publish has found failing are not open, those it
  has yet to send to are listeners or not open, and its error code is set by one
  of a smaller number.

The refinement: `AddListener` and `EraseListener` map to `Join` (the viewer is, or
is again, a listener until its handler has counted), `ListenersCount` to `Leave`,
`Send` to `Kick` or a stutter, `EraseFailed` to `Drop` or a stutter and
`OnPlatformClose` to `Unmap`; all other steps stutter.  `Failing` is what makes
the guards of `Kick` and `Drop` hold: a healthy viewer is closed only after a
listener that had failed.  That one exists is an argument about the least element
of a set of numbers, from the library's theorem on well-founded sets.

`DouyuProofs` proves for any client threads and bounds that `TypeOK`, `OneRead`,
`HeartbeatGoesOn` and `PublishedOnce` hold of `Douyu`'s `Spec`; the assumptions are
that the two bounds are numbers and `Punctual` a Boolean.  `IInv` adds:

- `OneAtATime`: resolve, connect and the two reads are together one operation, or
  none after a failure has been reported.  `OneRead` follows from it, and so does
  `Bounded`: no message beyond `MaxMsg` is ever counted.
- `Ending`: a handler that goes on to close the socket or cancel the timer has
  reported, so that `CancelTimer` cannot take the heartbeat of a running session.
- `NothingYet`: before the resolve is done there is no login; the resolve's
  handler opens the socket, which `HeartbeatGoesOn` speaks of.
- `Holding`: two threads never hold the same message, and one that is held has
  been received; otherwise a message could be published by both.

That `Douyu` implements `TcpSession` needs `Opened`, too: a socket that was never
opened is one whose host is still being resolved, or the session has reported;
otherwise `close()` would leave a connected session in its stage.  By `OneAtATime`
a session without operations and handlers has reported, so `Stage` goes to
`ended` only from `draining`; by `NothingYet` nothing is published or found
without its end while the host is being resolved.

The operations are counted, so lemmas about `Start`, `Abort`, `Consumed` and
`Finish` say first how each changes the counts.

`InOrder` holds of one client thread only, and `OrderHolds` has that as its
hypothesis: there are no two different threads.  Its invariant `Sorted` adds that
the message a thread holds is newer than all that were published.  With more
threads `InOrder` is false, as section 4 says.

`BilibiliProofs` proves for any client threads, body and bounds that `TypeOK`,
`OneStep`, `HeartbeatGoesOn`, `PublishedOnce` and `ParsedBody` hold of `Bilibili`'s
`Spec`; the assumptions are that the bounds and the number of chunks are numbers.  `Ending` and `Holding` are those of `Douyu`, and `IInv`
adds:

- `OneAtATime`: of the operations that move the session on (two resolves, two
  connects, the request, all reads) one is outstanding, or none after a report.
  `OneStep` follows; so does `Bounded`.
- `Beating`: while frames are read and nothing has been reported, a wait is
  started or done or a thread is about to start one; or `close()` has cancelled it
  and the handler that will report that is due.  `Ending` keeps a handler that
  cancels the timer away from a session that has reported nothing, so that only
  `close()` can bring about the exception.
- `EofLate` and `Appended`, for `ParsedBody`: the response can only have ended in
  a read that is done, and outside such a read the buffer is the end of `live`.
  Every append restores that, because the whole buffer is appended.
- `NothingYet` and `Opened`, for the refinement: no message is at hand before the
  first frame is waited for, and the socket is new only while the first host is
  being resolved.

That `Bilibili` implements `TcpSession` is shown as for `Douyu`.  The second
resolve maps to `Progress` back to `resolving`, when it has not been overtaken by a
report.

`YYProofs` proves for any client threads and number of logins that `TypeOK`,
`OneChainPerLogin` and `ReportMeansClosed` hold of `YY`'s `Spec`; the assumptions
are that `MaxLogins` is a number and `None` is neither a thread nor a number.  `IInv`
adds:

- `Strand`: a thread that holds the strand runs a handler, what the handler knows
  of its message is gone when it returns, and only a login leads past a report to
  `set_timer`.
- `Ends`: the connection is closed exactly when its end is known, and the handler
  of a message finds it open or closing.
- `Reports`: a thread in a callback, or past it, has reported, and while a
  connection is open after a report some thread is on its way to close it; the
  strengthening of `ReportMeansClosed`.
- `Timers`: while `m_hb_timer` is null there are no timers, and only the handler
  of a first login is about to set one.
- `Exclusion`: `close()`, which holds `rp_rw_mtx`, and the callback of a report
  exclude one another.
- `Chains`: pending timers and the threads that owe one are together at most as
  many as there were logins, and exactly as many until something is reported or
  closed.  `OneChainPerLogin` needs the first part as well: it is what gives
  `set_timer` a timer (`TimerFree`), in states after a report too.

Its refinement of `WsSession` maps a first `SetTimer` to `Login`, the null timers to
`NullTimer` or the crash of `Close`, the reports of heartbeats and messages to
`ExtraReport` and those of the connection's end to `FinalReport`.  That a report of a
heartbeat can not come before the connection was open follows from `Timers`; that
one that finds the connection down is not the last from the timer or the handler
that is there (`Quiet` is false).

Only model-checked: the liveness properties (`CloseEnds` of `Douyu`, `Huajiao` and
`YY`, `CloseEndsRequest` of `Bilibili`, `ThreadsFinish` of `Listeners`,
`LostListenerDropped` and `CloseTakesEffect` of `Proxy`), since fairness and ENABLED
are beyond the prover.  Every invariant and every refinement that a passing run
checks has a theorem.

## 6. Not modelled

`PROJECT.json` lists every part with its status.  Not modelled:

- The pure functions: room strings (`main.cpp:61-70`, `is_room_valid`), stt,
  base64, gzip, md5, rc4.  They keep no state and run inside one step of a
  handler; tests reach them as well as a model would.
- The bytes of frames: lengths as 32-bit numbers (`douyu.cpp:106`,
  `bilibili.cpp:336`, `huajiao.cpp:507`), encryption, JSON.  A frame is one of the
  kinds its handler tells apart.
- The interleaving of the bytes of overlapping writes (`douyu.cpp:164`).
- Logging, random identifiers, command-line options.
- Generated and vendored code: protobuf's generated classes and headers,
  websocketpp and json11 are all but about 2,500 of the repository's 145,000
  lines.  Of websocketpp the models have what the program relies on; of the
  rest there is nothing to say about this program, so most lines of the
  repository are covered by no definition.

## 7. Plan

1. That the steps of one session in `Proxy` are steps of `TcpSession` or
   `WsSession`, as a refinement of `Proxy` for each session.
2. Pure modules: framing of douyu and bilibili over 2^32, room strings, stt.
