--------------------------- MODULE BackendConnPool ---------------------------
(***************************************************************************)
(* What others see of a connection of BackendConn.  The pool: module       *)
(* ActivePool with this one connection, which Writer stands for.  The      *)
(* sessions: module Calls.                                                 *)
(***************************************************************************)
EXTENDS BackendConn

PoolLife ==
    CASE wpc \in {"after", "drain", "run"} -> "run"
      [] wpc \in {"connect", "activate"} -> "connect"
      [] wpc \in {"start", "select", "write", "register", "stop", "mark"} -> "up"
      [] wpc = "done" -> "end"

Pool == INSTANCE ActivePool WITH
    ConnId <- {Writer},
    ConnCaller <- {Writer} \cup Conn,
    None <- Nil,
    activeConns <- IF listed THEN <<Writer>> ELSE <<>>,
    currentConnIndex <- 0,
    served <- {},
    Index <- [c \in {Writer} |-> IF listed THEN 0 ELSE -1],
    life <- [c \in {Writer} |-> PoolLife],
    IsConnActive <- [c \in {Writer} |-> IsConnActive],
    IsMarkOffline <- [c \in {Writer} |-> IsMarkOffline],
    inputClosed <- [c \in {Writer} |-> inputClosed],
    marking <- [c \in {Writer} |-> marking],
    target <- [o \in Offliner |->
                  IF opc[o] \in {"set", "mark", "close"} THEN Writer ELSE Nil],
    opc <- [o \in Offliner |-> IF opc[o] = "done" THEN "idle" ELSE opc[o]],
    panic <- IF panic = "close" THEN "close" ELSE "no"

\* The connection makes the calls that ActivePool expects of one, in the order
\* it expects, so what is shown there of any number of connections holds.
ImplementsPool == Pool!PoolSpec
-----------------------------------------------------------------------------
\* A session sees of its request what HandleRequest did with it, whether Wait
\* holds it up and, if not, the Response.
Seen(r) ==
    IF stage[r] # "handled" THEN "none"
    ELSE IF wait[r] # 0 THEN "pending"
    ELSE IF resp[r] = "noworker" THEN "exception" ELSE resp[r]

SeenCalls == [r \in Request |-> Seen(r)]

Call == INSTANCE Calls WITH
    Outcome <- {"err", "own", "other"},
    call <- SeenCalls

\* A session that waits for its request is woken once, with an answer or an
\* error in the Response, which is not written again: the session reads it
\* without a lock.  A request that no connection takes is never waited for.
ImplementsCalls == Call!CallSpec
=============================================================================
