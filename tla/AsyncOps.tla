----------------------------- MODULE AsyncOps ------------------------------
(***************************************************************************)
(* The asynchronous operations of Boost.Asio that a session on a tcp       *)
(* socket uses.  An operation is started, then done or failed, and then    *)
(* its handler is run by some thread.  Closing the socket fails every      *)
(* operation started on it, but not those that are done and whose handler  *)
(* has not run yet; the timer is cancelled in the same way.  No strand     *)
(* orders the handlers.                                                    *)
(***************************************************************************)
EXTENDS Naturals

CONSTANTS
  Op,      \* kinds of operations
  SocketOp \* those that closing the socket aborts

VARIABLES
  ops,   \* how many operations of each kind are started, done and failed
  socket \* m_socket: "new", "open" or "closed"

OpsType == /\ ops \in [Op -> [started : Nat, done : Nat, failed : Nat]]
           /\ socket \in {"new", "open", "closed"}

\* start() has begun to resolve the host.
OpsInit ==
  /\ ops = [o \in Op |-> [started |-> IF o = "resolve" THEN 1 ELSE 0,
                          done |-> 0, failed |-> 0]]
  /\ socket = "new"

\* An operation on a socket that is closed fails.
Start(f, o) ==
  IF o \in SocketOp /\ socket = "closed"
  THEN [f EXCEPT ![o].failed = @ + 1]
  ELSE [f EXCEPT ![o].started = @ + 1]

Abort(f, S) ==
  [o \in Op |-> IF o \in S
                THEN [started |-> 0, done |-> f[o].done,
                      failed |-> f[o].failed + f[o].started]
                ELSE f[o]]

\* expires_from_now cancels the waits there are, async_wait starts one.
Arm(f) == Start(Abort(f, {"wait"}), "wait")

\* The handler of a completed operation is taken.
Consumed(o, how) == [ops EXCEPT ![o][how] = @ - 1]

\* The network or the clock completes an operation.
Finish(o, how) ==
  /\ ops[o].started > 0
  /\ ops' = [ops EXCEPT ![o].started = @ - 1, ![o][how] = @ + 1]

\* Closing a socket that was never opened does nothing.
Shut ==
  /\ socket' = IF socket = "new" THEN "new" ELSE "closed"
  /\ ops' = Abort(ops, SocketOp)

Outstanding(o) == ops[o].started + ops[o].done + ops[o].failed
Due(o)         == ops[o].done + ops[o].failed
=============================================================================
