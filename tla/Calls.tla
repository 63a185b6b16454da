-------------------------------- MODULE Calls --------------------------------
(***************************************************************************)
(* What becomes of the requests of the clients, as a session sees it       *)
(* (Wait and Response of proxy/request.go).  This is what a session may    *)
(* rely on, whichever backend serves the request: the proxy's sessions     *)
(* (module Session), its connections to the backends (BackendConn) and the *)
(* connections of the load balancer to its workers (LoadBalancer) are      *)
(* shown to implement it, each with its own meaning of call.               *)
(*                                                                         *)
(* A request is refused with an exception, or becomes pending.  A session  *)
(* that waits for a pending request is woken once, with an outcome that    *)
(* stays.                                                                  *)
(***************************************************************************)
CONSTANTS
    Request,            \* client requests, each dispatched once
    Outcome             \* what Wait.Done may leave in the Response

VARIABLE call           \* what became of a request

\* NewRequest: not dispatched yet.
CallInit == call = [r \in Request |-> "none"]

\* Dispatch: no worker takes the request, or PushBack has added 1 to its Wait.
Dispatch(r) ==
    /\ call[r] = "none"
    /\ \E how \in {"exception", "pending"} : call' = [call EXCEPT ![r] = how]

\* setResponse or flushRequests: the requests of rs get a Response and are done.
Answer(rs, how) ==
    /\ \A r \in rs : call[r] = "pending"
    /\ call' = [r \in Request |-> IF r \in rs THEN how ELSE call[r]]

CallNext ==
    \/ \E r \in Request : Dispatch(r)
    \/ \E rs \in SUBSET Request, how \in Outcome : Answer(rs, how)

CallSpec == CallInit /\ [][CallNext]_call
=============================================================================
