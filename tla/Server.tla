------------------------------- MODULE Server -------------------------------
(***************************************************************************)
(* The life of a listening socket, from Listen to the end of the process:  *)
(* Run of a thrift server ("rpc", proxy/server_general_rpc.go), of the     *)
(* load balancer ("lb", server_lb.go) and of the proxy ("proxy",           *)
(* server_proxy.go), and the listener for workers ("back", run in          *)
(* backend_service_lb.go), over TServerUnixDomain                          *)
(* (socket_server_unix_domain.go).                                         *)
(*                                                                         *)
(* Run accepts connections and hands them, through the channel ch, to a    *)
(* goroutine that starts a session for each.  A third goroutine waits for  *)
(* the exit signal, deletes the endpoint, waits until no request came in   *)
(* for a while, and closes the listener, which ends Run.                   *)
(***************************************************************************)
EXTENDS Naturals, Sequences

CONSTANTS
    Client,             \* connections that may exist at the same time
    ChCap,              \* capacity of ch (4096 in the code)
    Idle,               \* quiet time before the exit (5 s in the code)
    MaxRequests,        \* bound on the requests, not on the heartbeats
    None                \* no request, no connection

ASSUME ServerAssumption ==
    ChCap \in Nat \ {0} /\ Idle \in Nat /\ MaxRequests \in Nat

VARIABLES
    server,             \* which of the four; never changes
    apc, hand,          \* Run: place, the connection just accepted
    listener, interrupted,              \* TServerUnixDomain
    ch, chClosed, spc,  \* ch, and the goroutine that ranges over it
    xpc, signal,        \* the exit goroutine, exitSignal
    listed,             \* the endpoint is in ZooKeeper
    client,             \* where a connection is
    age, late,          \* of its request: age, came after the quiet time
    quiet,              \* now - lastRequestTime
    requests,           \* how many were sent, up to MaxRequests
    broke,              \* Accept failed although nobody closed the listener
    panic

sockVars == <<listener, interrupted>>
acceptVars == <<apc, hand, broke>>
chanVars == <<ch, chClosed, spc>>
exitVars == <<xpc, signal>>
reqVars == <<age, late, quiet, requests>>
vars == <<server, acceptVars, sockVars, chanVars, exitVars, listed, client,
          reqVars, panic>>

-----------------------------------------------------------------------------
\* Times are counted up to the first that is past Idle.
Older(t) == IF t > Idle THEN t ELSE t + 1

TypeOK ==
    /\ server \in {"rpc", "lb", "proxy", "back"}
    /\ apc \in {"register", "listen", "check", "nil", "call", "blocked", "push",
                "close", "deferred", "returned"}
    /\ hand \in Client \cup {None}
    /\ listener \in {"nil", "open", "closed"} /\ interrupted \in BOOLEAN
    /\ ch \in Seq(Client) /\ Len(ch) <= ChCap
    /\ chClosed \in BOOLEAN /\ spc \in {"off", "take", "done"}
    /\ xpc \in {"off", "wait", "delete", "idle", "interrupt", "close", "nil", "done"}
    /\ signal \in BOOLEAN /\ listed \in BOOLEAN
    /\ client \in [Client -> {"away", "backlog", "accepted", "session"}]
    /\ age \in [Client -> (0 .. Idle + 1) \cup {None}]
    /\ late \subseteq Client
    /\ quiet \in 0 .. Idle + 1 /\ requests \in 0 .. MaxRequests
    /\ broke \in BOOLEAN
    /\ panic \in {"no", "listen", "nil", "close"}

\* lastRequestTime is 0, long ago, until the first request.
Init ==
    /\ server \in {"rpc", "lb", "proxy", "back"}
    /\ apc = (IF server \in {"rpc", "lb"} THEN "register" ELSE "listen")
    /\ hand = None
    /\ listener = "nil" /\ interrupted = FALSE
    /\ ch = <<>> /\ chClosed = FALSE /\ spc = "off"
    /\ xpc = "off" /\ signal = FALSE
    /\ listed = FALSE
    /\ client = [c \in Client |-> "away"]
    /\ age = [c \in Client |-> None] /\ late = {}
    /\ quiet = Idle + 1 /\ requests = 0
    /\ broke = FALSE /\ panic = "no"

\* The process has ended when Run has returned (main does, then) or a
\* goroutine panicked.  The accept loop of "back" is a goroutine of its own.
Alive == panic = "no" /\ (apc = "returned" => server = "back")

-----------------------------------------------------------------------------
(* Run, up to the loop.                                                    *)

\* RegisterService puts the endpoint into ZooKeeper.
Register ==
    /\ Alive
    /\ apc = "register"
    /\ listed' = TRUE
    /\ apc' = "listen"
    /\ UNCHANGED <<server, hand, broke, sockVars, chanVars, exitVars, client,
                   reqVars, panic>>

\* transport.Listen(); make(ch); the goroutines start.
Listen ==
    /\ Alive
    /\ apc = "listen"
    /\ listener' = "open"
    /\ apc' = "check"
    /\ spc' = "take"
    /\ xpc' = IF server \in {"rpc", "lb"} THEN "wait" ELSE "off"
    /\ UNCHANGED <<server, hand, broke, interrupted, ch, chClosed, signal, listed,
                   client, reqVars, panic>>

\* The transport cannot be created, or Listen fails: a panic, but for the
\* proxy, which does not look at the error of Listen.
ListenFails ==
    /\ Alive
    /\ apc = "listen"
    /\ \/ panic' = "listen" /\ UNCHANGED <<apc, spc>>
       \/ server = "proxy" /\ apc' = "check" /\ spc' = "take" /\ UNCHANGED panic
    /\ UNCHANGED <<server, hand, broke, sockVars, ch, chClosed, exitVars, listed,
                   client, reqVars>>

-----------------------------------------------------------------------------
(* The accept loop.                                                        *)

\* An error of Accept: the load balancer closes ch, the loop is left.
AcceptError ==
    apc' = CASE server = "lb" -> "close"
             [] server = "back" -> "returned"
             [] OTHER -> "deferred"

\* Accept reads interrupted under its lock,
AcceptCheck ==
    /\ Alive
    /\ apc = "check"
    /\ IF interrupted THEN AcceptError ELSE apc' = "nil"
    /\ UNCHANGED <<server, hand, broke, sockVars, chanVars, exitVars, listed,
                   client, reqVars, panic>>

\* ... tests p.listener == nil,
AcceptNil ==
    /\ Alive
    /\ apc = "nil"
    /\ IF listener = "nil" THEN AcceptError ELSE apc' = "call"
    /\ UNCHANGED <<server, hand, broke, sockVars, chanVars, exitVars, listed,
                   client, reqVars, panic>>

\* ... and reads p.listener again to call its Accept.
AcceptCall ==
    /\ Alive
    /\ apc = "call"
    /\ CASE listener = "nil" -> panic' = "nil" /\ UNCHANGED apc
         [] listener = "closed" -> AcceptError /\ UNCHANGED panic
         [] OTHER -> apc' = "blocked" /\ UNCHANGED panic
    /\ UNCHANGED <<server, hand, broke, sockVars, chanVars, exitVars, listed,
                   client, reqVars>>

Accept(c) ==
    /\ Alive
    /\ apc = "blocked" /\ listener = "open"
    /\ client[c] = "backlog"
    /\ client' = [client EXCEPT ![c] = "accepted"]
    /\ hand' = c
    /\ apc' = "push"
    /\ UNCHANGED <<server, broke, sockVars, chanVars, exitVars, listed, reqVars,
                   panic>>

\* listener.Accept returns an error: the listener was closed, or the process
\* has no file descriptor left, or the like.
AcceptFails ==
    /\ Alive
    /\ apc = "blocked"
    /\ broke' = (listener = "open")
    /\ AcceptError
    /\ UNCHANGED <<server, hand, sockVars, chanVars, exitVars, listed, client,
                   reqVars, panic>>

Room == Len(ch) < ChCap

\* ch <- c
PushConn ==
    /\ Alive
    /\ apc = "push" /\ Room
    /\ ch' = Append(ch, hand)
    /\ hand' = None
    /\ apc' = "check"
    /\ UNCHANGED <<server, broke, sockVars, chClosed, spc, exitVars, listed,
                   client, reqVars, panic>>

\* The close(ch) of the load balancer.
CloseCh ==
    /\ Alive
    /\ apc = "close"
    /\ chClosed' = TRUE
    /\ apc' = "deferred"
    /\ UNCHANGED <<server, hand, broke, sockVars, ch, spc, exitVars, listed,
                   client, reqVars, panic>>

\* The deferred close(ch), and Run returns.
DeferredClose ==
    /\ Alive
    /\ apc = "deferred"
    /\ IF chClosed
       THEN panic' = "close" /\ UNCHANGED <<apc, chClosed>>
       ELSE chClosed' = TRUE /\ apc' = "returned" /\ UNCHANGED panic
    /\ UNCHANGED <<server, hand, broke, sockVars, ch, spc, exitVars, listed,
                   client, reqVars>>

-----------------------------------------------------------------------------
(* for c := range ch                                                       *)

\* Mutant of StartSession: without "go", one session at a time.
MutStartSession ==
    /\ Alive
    /\ spc = "take" /\ ch # <<>>
    /\ \A c \in Client : client[c] # "session"
    /\ client' = [client EXCEPT ![Head(ch)] = "session"]
    /\ ch' = Tail(ch)
    /\ UNCHANGED <<server, acceptVars, sockVars, chClosed, spc, exitVars, listed,
                   reqVars, panic>>

\* A session of its own goroutine serves the connection.
StartSession ==
    /\ Alive
    /\ spc = "take" /\ ch # <<>>
    /\ client' = [client EXCEPT ![Head(ch)] = "session"]
    /\ ch' = Tail(ch)
    /\ UNCHANGED <<server, acceptVars, sockVars, chClosed, spc, exitVars, listed,
                   reqVars, panic>>

ChEnds ==
    /\ Alive
    /\ spc = "take" /\ ch = <<>> /\ chClosed
    /\ spc' = "done"
    /\ UNCHANGED <<server, acceptVars, sockVars, ch, chClosed, exitVars, listed,
                   client, reqVars, panic>>

-----------------------------------------------------------------------------
(* The goroutine that ends the server.                                     *)

\* <-exitSignal; evtExit <- true, which module Discovery is about.
TakeSignal ==
    /\ Alive
    /\ xpc = "wait" /\ signal
    /\ xpc' = "delete"
    /\ UNCHANGED <<server, acceptVars, sockVars, chanVars, signal, listed, client,
                   reqVars, panic>>

\* Mutant of DeleteEndpoint: the endpoint is left to ZooKeeper's timeout.
MutDeleteEndpoint ==
    /\ Alive
    /\ xpc = "delete"
    /\ xpc' = "idle"
    /\ UNCHANGED <<server, acceptVars, sockVars, chanVars, signal, listed, client,
                   reqVars, panic>>

\* DeleteServiceEndpoint
DeleteEndpoint ==
    /\ Alive
    /\ xpc = "delete"
    /\ listed' = FALSE
    /\ xpc' = "idle"
    /\ UNCHANGED <<server, acceptVars, sockVars, chanVars, signal, client, reqVars,
                   panic>>

\* Mutant of Quiet: the server exits without waiting.
MutQuiet == TRUE

\* now - p.lastRequestTime.Get() > 5, asked every second.
Quiet == quiet > Idle

IdleOver ==
    /\ Alive
    /\ xpc = "idle"
    /\ Quiet
    /\ xpc' = "interrupt"
    /\ UNCHANGED <<server, acceptVars, sockVars, chanVars, signal, listed, client,
                   reqVars, panic>>

\* transport.Interrupt()
Interrupt ==
    /\ Alive
    /\ xpc = "interrupt"
    /\ interrupted' = TRUE
    /\ xpc' = "close"
    /\ UNCHANGED <<server, acceptVars, listener, chanVars, signal, listed, client,
                   reqVars, panic>>

\* transport.Close(): p.listener.Close(), which drops the connections that were
\* not accepted yet;
CloseListener ==
    /\ Alive
    /\ xpc = "close"
    /\ listener' = IF listener = "open" THEN "closed" ELSE listener
    /\ client' = [c \in Client |-> IF client[c] = "backlog" THEN "away" ELSE client[c]]
    /\ xpc' = "nil"
    /\ UNCHANGED <<server, acceptVars, interrupted, chanVars, signal, listed,
                   reqVars, panic>>

\* ... the deferred p.listener = nil.
NilListener ==
    /\ Alive
    /\ xpc = "nil"
    /\ listener' = "nil"
    /\ xpc' = "done"
    /\ UNCHANGED <<server, acceptVars, interrupted, chanVars, signal, listed,
                   client, reqVars, panic>>

-----------------------------------------------------------------------------
(* Sessions and the outside.                                               *)

\* The exit goroutine has found the server quiet.
Gone == xpc \in {"interrupt", "close", "nil", "done"}

\* Mutant of Counts: heartbeats count.
MutCounts(type) == TRUE

\* The requests that set lastRequestTime.
Counts(type) == type # "heartbeat"

\* handleRequest: a heartbeat is answered at once, another request dispatched.
HandleRequest(c, type) ==
    /\ Alive
    /\ server \in {"rpc", "lb"}
    /\ client[c] = "session"
    /\ quiet' = IF Counts(type) THEN 0 ELSE quiet
    /\ IF type = "heartbeat"
       THEN UNCHANGED <<age, late, requests>>
       ELSE /\ age[c] = None /\ requests < MaxRequests
            /\ requests' = requests + 1
            /\ age' = [age EXCEPT ![c] = 0]
            /\ late' = IF Gone THEN late \cup {c} ELSE late
    /\ UNCHANGED <<server, acceptVars, sockVars, chanVars, exitVars, listed, client,
                   panic>>

Reply(c) ==
    /\ Alive
    /\ age[c] # None
    /\ age' = [age EXCEPT ![c] = None]
    /\ late' = late \ {c}
    /\ UNCHANGED <<server, acceptVars, sockVars, chanVars, exitVars, listed, client,
                   quiet, requests, panic>>

Connect(c) ==
    /\ Alive
    /\ client[c] = "away" /\ listener = "open"
    /\ client' = [client EXCEPT ![c] = "backlog"]
    /\ UNCHANGED <<server, acceptVars, sockVars, chanVars, exitVars, listed, reqVars,
                   panic>>

\* The peer goes away and its session ends.
Disconnect(c) ==
    /\ Alive
    /\ client[c] = "session" /\ age[c] = None
    /\ client' = [client EXCEPT ![c] = "away"]
    /\ UNCHANGED <<server, acceptVars, sockVars, chanVars, exitVars, listed, reqVars,
                   panic>>

\* SIGTERM or SIGINT; only these two servers catch them.
Signal ==
    /\ Alive
    /\ server \in {"rpc", "lb"}
    /\ ~signal
    /\ signal' = TRUE
    /\ UNCHANGED <<server, acceptVars, sockVars, chanVars, xpc, listed, client,
                   reqVars, panic>>

Tick ==
    /\ Alive
    /\ quiet' = Older(quiet)
    /\ age' = [c \in Client |-> IF age[c] = None THEN None ELSE Older(age[c])]
    /\ UNCHANGED <<server, acceptVars, sockVars, chanVars, exitVars, listed, client,
                   late, requests, panic>>

-----------------------------------------------------------------------------
Running ==
    \/ Register \/ Listen \/ ListenFails
    \/ AcceptCheck \/ AcceptNil \/ AcceptCall \/ AcceptFails
    \/ PushConn \/ CloseCh \/ DeferredClose
    \/ \E c \in Client : Accept(c)

Exiting ==
    \/ TakeSignal \/ DeleteEndpoint \/ IdleOver
    \/ Interrupt \/ CloseListener \/ NilListener

Outside ==
    \/ Signal \/ Tick
    \/ \E c \in Client : Reply(c) \/ Connect(c) \/ Disconnect(c)
    \/ \E c \in Client, type \in {"call", "heartbeat"} : HandleRequest(c, type)

Next == Running \/ StartSession \/ ChEnds \/ Exiting \/ Outside

Spec == Init /\ [][Next]_vars

\* The goroutines run; a blocked Accept returns when there is a connection or
\* the listener is closed; time passes.  Nobody has to connect, to send or to
\* answer a request or to stop the server.
Fairness ==
    /\ WF_vars(Running /\ (apc = "blocked" => listener # "open"))
    /\ \A c \in Client : SF_vars(Accept(c))
    /\ WF_vars(StartSession \/ ChEnds)
    /\ WF_vars(Exiting)
    /\ WF_vars(Tick)

FairSpec == Spec /\ Fairness

-----------------------------------------------------------------------------
(* Properties.                                                             *)

\* While the endpoint of a server that has started to listen is in ZooKeeper,
\* its listener is open: the exit goroutine deletes the endpoint first, so that
\* nobody is sent to a socket that is closed already.
ListedIsServed ==
    Alive /\ listed /\ apc \notin {"register", "listen"} => listener = "open"

\* The exit of a server, whether Run returns or the second close(ch) of the load
\* balancer or the nil listener ends the process, cuts off no request that
\* handleRequest had taken up, but one that has lasted longer than the quiet
\* time or came in after it was over.
NotCutOff ==
    ~Alive /\ panic # "listen" /\ ~broke =>
        \A c \in Client : age[c] # None => age[c] > Idle \/ c \in late

\* Every connection that was accepted gets its session, unless the process
\* ends: neither ch, when it is full, nor its close loses one.
AcceptedServed ==
    \A c \in Client : (client[c] = "accepted") ~> (client[c] = "session" \/ ~Alive)

\* After the signal the server comes to an end, once the calls stop, however
\* long the heartbeats of the proxies go on and however Interrupt and Close
\* meet the steps of Accept.
ExitEnds == signal ~> ~Alive
=============================================================================
